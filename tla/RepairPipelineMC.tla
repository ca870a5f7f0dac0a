-------------------------- MODULE RepairPipelineMC --------------------------
EXTENDS RepairPipeline, TLC

CONSTANTS c1, r1, r2, p1, p2, f1, f2, e1

\* p1 edits a line of f1 and adds to f2; p2 adds to f1 only.
SharedFile ==
  (p1 :> (f1 :> "replace" @@ f2 :> "insert")) @@ (p2 :> (f1 :> "insert" @@ f2 :> "none"))

\* Runs are alike.
Symmetry == Permutations({r1, r2})
=============================================================================
