SPECIFICATION Spec
CONSTANTS
    N = 2
    None = None
    MaxRound = 3
    MaxTimer = 2
    MaxTimeout = 2
CHECK_DEADLOCK FALSE
INVARIANTS
    TypeOK
    CertificatesReal
    CommitAgreement
PROPERTY
    ImplementsLog
