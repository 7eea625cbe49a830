SPECIFICATION Spec
CONSTANTS
    Tasks = {t1}
    MaxGB = 3
    UnitsPerMiB = 2
    MiBPerGB = 2
    ImageSizes = {3}
    Storages = {FALSE}
    MaxImage = 20
    Free = Free
INVARIANTS
    DataIntact
