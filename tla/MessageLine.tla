---------------------------- MODULE MessageLine ----------------------------
(***************************************************************************)
(* What the queue of a user promises the sender, whatever queues and tasks *)
(* it is made of: the messages stand in one line, each joins it once, and  *)
(* they are served one at a time from its head.  The line may be given up, *)
(* with the messages that stand in it and the one being served.            *)
(***************************************************************************)
EXTENDS Sequences

CONSTANT Msgs

VARIABLES
  joined,  \* messages that have joined the line
  line,    \* those that wait, in the order they joined
  served,  \* those being served
  lost     \* those that stood in the line when it was given up

lineVars == <<joined, line, served, lost>>

Init ==
  /\ joined = {}
  /\ line = <<>>
  /\ served = {}
  /\ lost = {}

Join(m) ==
  /\ m \notin joined
  /\ joined' = joined \union {m}
  /\ line' = Append(line, m)
  /\ UNCHANGED <<served, lost>>

Serve ==
  /\ served = {}
  /\ line # <<>>
  /\ served' = {Head(line)}
  /\ line' = Tail(line)
  /\ UNCHANGED <<joined, lost>>

Finish ==
  /\ served # {}
  /\ served' = {}
  /\ UNCHANGED <<joined, line, lost>>

GiveUp ==
  /\ line' = <<>>
  /\ served' = {}
  /\ lost' = lost \union {line[i] : i \in DOMAIN line}
  /\ UNCHANGED joined

Next == (\E m \in Msgs : Join(m)) \/ Serve \/ Finish \/ GiveUp

Spec == Init /\ [][Next]_lineVars
=============================================================================
