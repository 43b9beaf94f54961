SPECIFICATION HostSpec
CONSTANTS
    t1 = t1
    Txn = {t1}
    Client = {c1}
    None = None
    Surfaces <- MCSurfaces
    MaxEvents = 2
INVARIANT HostTypeOK
INVARIANT GuardedHostAnnouncesOnce
INVARIANT RefusedBeforeTheDatabase
INVARIANT EveryChargeFindsItsProvider
CHECK_DEADLOCK FALSE
