SPECIFICATION FairSpec
CONSTANTS
    Units = {u1, u2, u3, u4}
    MaxRounds = 3
INVARIANTS TypeOK BarrierSeparates
PROPERTIES BarrierReleases
CHECK_DEADLOCK FALSE
