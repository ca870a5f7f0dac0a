----------------------------- MODULE SpendingCaps -----------------------------
(***************************************************************************)
(* What model calls cost and the daily caps: models/cost_tracker.py, the   *)
(* OpenRouter calls that ask for the cap first                             *)
(* (integrations/openrouter.py), and the turns that are only recorded.     *)
(*                                                                         *)
(* The charges of a day are kept twice: one Redis counter for each         *)
(* provider, which the caps are compared with, and one database row for    *)
(* each user, which the dashboard shows.  Every call costs one unit.       *)
(***************************************************************************)
EXTENDS Naturals, FiniteSets

CONSTANTS
  ImageCalls,    \* OpenRouter calls in flight at a time: generate_image, analyze_image
  ChatCalls,     \* turns in flight at a time
  DailyCap,      \* *_daily_cost_cap_usd, in units
  LastDay,       \* bound: days
  CallLimit,     \* bound, by provider: calls ever paid for on a day
  SpendFaults    \* bound: failed reads and writes, deaths of a call

ASSUME SpendingBounds == DailyCap \in Nat \ {0} /\ {LastDay, SpendFaults} \subseteq Nat
ASSUME CallsAreFinite == IsFiniteSet(ImageCalls) /\ IsFiniteSet(ChatCalls)
ASSUME CallsDiffer == ImageCalls \intersect ChatCalls = {}

VARIABLES
  today,
  counter,      \* costs:<day>:<user>:<provider>
  ledger,       \* total_cost_usd of the row of daily_costs
  ledgerRows,   \* days with a row in daily_costs
  call,         \* what each call does
  attempts,     \* attempts each image call has left (tenacity)
  billed,       \* history: calls the provider carried out, by the day they ended
  uncounted,    \* history: those that no counter has
  spendFaults

spendVars == <<today, counter, ledger, ledgerRows, call, attempts, billed, uncounted,
               spendFaults>>

Calls == ImageCalls \union ChatCalls
Days == 0..LastDay
CostProviders == {"openai", "openrouter"}
ProviderOf(c) == IF c \in ImageCalls THEN "openrouter" ELSE "openai"

\* day: the date that track_cost read before its first statement.
Idle == [at |-> "idle", day |-> 0]

SpendTypeOK ==
  /\ today \in Days
  /\ counter \in [Days -> [CostProviders -> Nat]]
  /\ ledger \in [Days -> Nat] /\ ledgerRows \subseteq Days
  /\ call \in [Calls -> [at : {"idle", "paying", "counting", "updating", "inserting"}, day : Days]]
  /\ attempts \in [ImageCalls -> 0..2]
  /\ billed \in [Days -> [CostProviders -> Nat]]
  /\ uncounted \in [Days -> [CostProviders -> Nat]]
  /\ spendFaults \in 0..SpendFaults

SpendInit ==
  /\ today = 0 /\ ledgerRows = {} /\ spendFaults = 0
  /\ counter = [d \in Days |-> [p \in CostProviders |-> 0]]
  /\ ledger = [d \in Days |-> 0]
  /\ call = [c \in Calls |-> Idle] /\ attempts = [c \in ImageCalls |-> 0]
  /\ billed = [d \in Days |-> [p \in CostProviders |-> 0]]
  /\ uncounted = [d \in Days |-> [p \in CostProviders |-> 0]]

CallTo(c, s) ==
  call' = [call EXCEPT ![c] = [at |-> s, day |-> IF s = "inserting" THEN today ELSE 0]]
Bump(counts, d, p) == [counts EXCEPT ![d][p] = @ + 1]
SpendFails == spendFaults < SpendFaults /\ spendFaults' = spendFaults + 1

\* A cap that lets one call more through.
CappedLate(p) == counter[today][p] > DailyCap

\* The day's counter has reached the cap.
Capped(p) == counter[today][p] >= DailyCap

\* check_cost_cap before an OpenRouter call.
CheckCap(c) ==
  /\ ~Capped("openrouter")
  /\ CallTo(c, "paying")
  /\ UNCHANGED <<today, counter, ledger, ledgerRows, billed, uncounted, spendFaults>>

AskForImage(c) ==
  /\ call[c].at = "idle" /\ attempts' = [attempts EXCEPT ![c] = 1]
  /\ CheckCap(c)

\* The second attempt, after a call that ended without an answer to use.
AskAgain(c) ==
  /\ call[c].at = "idle" /\ attempts[c] = 1 /\ attempts' = [attempts EXCEPT ![c] = 0]
  /\ CheckCap(c)

\* A counter that cannot be read counts as nothing spent.
AskUncounted(c) ==
  /\ call[c].at = "idle" /\ Capped("openrouter") /\ SpendFails
  /\ attempts' = [attempts EXCEPT ![c] = 1] /\ CallTo(c, "paying")
  /\ uncounted' = Bump(uncounted, today, "openrouter")
  /\ UNCHANGED <<today, counter, ledger, ledgerRows, billed>>

\* A turn asks for no cap.
StartTurn(c) ==
  /\ call[c].at = "idle" /\ CallTo(c, "paying")
  /\ UNCHANGED <<today, counter, ledger, ledgerRows, attempts, billed, uncounted,
                 spendFaults>>

\* The provider's answer.  An image call charges the counter first, a turn the row.
Paid(c) ==
  /\ call[c].at = "paying" /\ billed[today][ProviderOf(c)] < CallLimit[ProviderOf(c)]
  /\ billed' = Bump(billed, today, ProviderOf(c))
  /\ CallTo(c, IF c \in ImageCalls THEN "counting" ELSE "updating")
  /\ attempts' = IF c \in ImageCalls THEN [attempts EXCEPT ![c] = 0] ELSE attempts
  /\ UNCHANGED <<today, counter, ledger, ledgerRows, uncounted, spendFaults>>

\* An answer without the image, or none in time: paid for and recorded nowhere.
PaidInVain(c) ==
  /\ call[c].at = "paying" /\ SpendFails /\ billed[today][ProviderOf(c)] < CallLimit[ProviderOf(c)]
  /\ billed' = Bump(billed, today, ProviderOf(c))
  /\ uncounted' = Bump(uncounted, today, ProviderOf(c))
  /\ CallTo(c, "idle")
  /\ UNCHANGED <<today, counter, ledger, ledgerRows, attempts>>

\* _track_provider_cost.
CountCharge(c) ==
  /\ call[c].at = "counting"
  /\ counter' = Bump(counter, today, ProviderOf(c))
  /\ CallTo(c, IF c \in ImageCalls THEN "updating" ELSE "idle")
  /\ UNCHANGED <<today, ledger, ledgerRows, attempts, billed, uncounted, spendFaults>>

\* Redis is away: a warning, and the call goes on.
CountFails(c) ==
  /\ call[c].at = "counting" /\ SpendFails
  /\ uncounted' = Bump(uncounted, today, ProviderOf(c))
  /\ CallTo(c, IF c \in ImageCalls THEN "updating" ELSE "idle")
  /\ UNCHANGED <<today, counter, ledger, ledgerRows, attempts, billed>>

\* track_cost updates the row and inserts one when there was none, in two
\* statements; record_llm_cost has the database do both in one.
ChargeRow(c) ==
  /\ call[c].at = "updating"
  /\ IF c \in ImageCalls /\ today \notin ledgerRows
     THEN CallTo(c, "inserting") /\ UNCHANGED <<ledger, ledgerRows>>
     ELSE /\ CallTo(c, IF c \in ImageCalls THEN "idle" ELSE "counting")
          /\ ledger' = [ledger EXCEPT ![today] = @ + 1]
          /\ ledgerRows' = ledgerRows \union {today}
  /\ UNCHANGED <<today, counter, attempts, billed, uncounted, spendFaults>>

\* The insert loses to another's: (date, user_id) is unique, and the charge is dropped.
InsertCharge(c) ==
  /\ call[c].at = "inserting" /\ CallTo(c, "idle")
  /\ LET d == call[c].day IN
       /\ ledgerRows' = ledgerRows \union {d}
       /\ ledger' = [ledger EXCEPT ![d] = IF d \in ledgerRows THEN @ ELSE 1]
  /\ UNCHANGED <<today, counter, attempts, billed, uncounted, spendFaults>>

\* The row cannot be written, or the turn ends: an image call has been counted
\* by then, a turn has not.
ChargeFails(c) ==
  /\ call[c].at \in {"updating", "inserting"} /\ SpendFails /\ CallTo(c, "idle")
  /\ uncounted' = IF c \in ChatCalls THEN Bump(uncounted, today, "openai") ELSE uncounted
  /\ UNCHANGED <<today, counter, ledger, ledgerRows, attempts, billed>>

\* date.today() of the next call.
Midnight ==
  /\ today < LastDay /\ today' = today + 1
  /\ UNCHANGED <<counter, ledger, ledgerRows, call, attempts, billed, uncounted,
                 spendFaults>>

SpendNext ==
  \/ \E c \in ImageCalls : AskForImage(c) \/ AskAgain(c) \/ AskUncounted(c)
  \/ \E c \in ChatCalls : StartTurn(c)
  \/ \E c \in Calls :
       Paid(c) \/ PaidInVain(c) \/ CountCharge(c) \/ CountFails(c) \/ ChargeRow(c) \/ InsertCharge(c)
       \/ ChargeFails(c)
  \/ Midnight

SpendSpec == SpendInit /\ [][SpendNext]_spendVars

(***************************************************************************)
(* Properties.                                                             *)
(***************************************************************************)

\* The units that f counts, one by one.
Units(f) == UNION {{x} \X (1..f[x]) : x \in DOMAIN f}
RowUnits == Units(ledger)
PaidUnits == Units([e \in Days \X CostProviders |-> billed[e[1]][e[2]]])

\* A day's OpenRouter calls exceed the cap by no more than the calls that can
\* be between the question and the charge at once, and by the calls whose
\* charge was lost; the ledger has no more than was paid for.  The answer may
\* come on the day after the question, and a call is made twice.
OverspendIsBounded ==
  /\ \A d \in Days :
       billed[d]["openrouter"] + 1 <=
         DailyCap + Cardinality(ImageCalls) + uncounted[d]["openrouter"]
  /\ Cardinality(RowUnits) <= Cardinality(PaidUnits)
==============================================================================
