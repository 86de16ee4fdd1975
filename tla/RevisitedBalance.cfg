CONSTANTS
    Requests = {r1, r2}
    Auditors = {}
    Pagers = {}
    Openings = {0, 2}
    Amounts = {1, 2}
    MaxBalance = 3
    MaxEntries = 4
    MaxClock = 1
    Limits = {1, 2}
    None = None
SYMMETRY Symmetry
SPECIFICATION Spec
INVARIANTS ReconstructsEveryLedger
CHECK_DEADLOCK FALSE
