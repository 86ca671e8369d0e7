\* Budgets are small enough for the larger jobs to meet them.
CONSTANTS
    Jobs <- All
    MaxWork = 19
    MaxResults = 4
    MaxOutput = 7
    MaxContext = 2
    MaxTraversal = 26
    MaxEntries = 7
    MaxDepth = 3
SPECIFICATION Spec
INVARIANTS OutputIsReference StatusTruth EntriesTruth
