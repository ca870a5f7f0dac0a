\* Two facts, a chunk of two rows, and a summarizer shown one; nothing fails.
CONSTANTS
  Facts = {f1, f2}
  RowLimit = 3
  PageSize = 3
  Budgets <- OneBudget
  Batches = 1
  SummaryMax = 1
  MemFaults = 0
SPECIFICATION MemSpec
INVARIANT EvictedAreConsolidated
CHECK_DEADLOCK FALSE
