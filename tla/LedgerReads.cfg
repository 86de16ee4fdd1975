CONSTANTS
    Requests = {r1, r2}
    Auditors = {a1}
    Pagers = {p1}
    Openings = {0, 2}
    Amounts = {1, 2}
    MaxBalance = 3
    MaxEntries = 3
    MaxClock = 1
    Limits = {1, 2}
    None = None
SYMMETRY Symmetry
SPECIFICATION Spec
INVARIANTS ReconstructIsSound ReconstructsDistinctBalances DivergenceIsExplained PagesInOrder NothingSkipped
CHECK_DEADLOCK FALSE
