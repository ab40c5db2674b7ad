\* Two connections with up to two requests each.
CONSTANTS
    Conn = {c1, c2}
    MaxRequests = 2
SPECIFICATION FairSpec
INVARIANTS TypeOK KeysCleanedUp CertsInPlace Quiescent NoLateListener OnlyInterruptEnds
PROPERTY SignalEndsRun
CHECK_DEADLOCK FALSE
