SPECIFICATION Spec
CONSTANTS
    Names = {a}
    Dirs = {d1, d2}
    Tasks = {t1, t2}
    Deleters = {t1}
    Preexisting <- MCPreexisting
    MaxVaults = 2
    MaxCrashes = 1
    MaxTime = 1
    AutoLockWindow = 1
    DBFaults = TRUE
    Closed = Closed
    Orphan = Orphan
    Free = Free
    Sweeper = Sweeper
INVARIANTS
    TypeOK
    ReservationsExact
    NoGhostRecord
    IInv
PROPERTIES
    NeverVanishMounted
    RegistryKept
