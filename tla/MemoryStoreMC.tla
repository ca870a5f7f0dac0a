---------------------------- MODULE MemoryStoreMC ----------------------------
EXTENDS MemoryStore

\* The weekly pass of a store within its cap, and one that must empty the store.
TwoBudgets == {[cap |-> 1, target |-> 0], [cap |-> 4, target |-> 3]}

\* A pass from scripts/prune_memories.py with a cap of its own.
OneBudget == {[cap |-> 1, target |-> 0]}
=============================================================================
