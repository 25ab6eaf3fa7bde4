SPECIFICATION FairSpec
CONSTANTS
    t1 = t1
    t2 = t2
    Tx = {t1, t2}
    Slot = {1}
    slotOf <- MCslotOf
    lastLedgerSeq <- MClastLedgerSeq
    mMaxTxsInPool = 2
    MaxSeq = 3
    Thread = {"validator", "timer"}
    Timer = "timer"
INVARIANTS
    TypeOK
    PoolConsistent
    AvoidFiled
    
    AvailableMeansSynced
    
PROPERTY PoolRecovers
