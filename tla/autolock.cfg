SPECIFICATION LiveSpec
CONSTANTS
    Names = {a}
    Dirs = {d}
    Tasks = {t1, t2}
    Deleters = {t1}
    Preexisting <- MCPreexisting
    MaxVaults = 1
    MaxCrashes = 0
    MaxTime = 2
    AutoLockWindow = 1
    DBFaults = FALSE
    Closed = Closed
    Orphan = Orphan
    Free = Free
    Sweeper = Sweeper
INVARIANTS
    MutexDiscipline
PROPERTIES
    TasksFinish
    ExpiredWindowsEnd
    HandlersEndWindowsLocked
