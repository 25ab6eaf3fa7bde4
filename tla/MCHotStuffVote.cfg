SPECIFICATION Spec
CONSTANTS
    N = 2
    None = None
    MaxRound = 2
    MaxTimer = 2
    MaxTimeout = 1
CHECK_DEADLOCK FALSE
INVARIANTS
    OneVotePerRound
