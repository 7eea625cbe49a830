SPECIFICATION Spec
CONSTANTS
    Tasks = {t1, t2}
    MaxGB = 3
    UnitsPerMiB = 2
    MiBPerGB = 2
    ImageSizes = {4, 8}
    Storages = {TRUE, FALSE}
    MaxImage = 20
    Free = Free
INVARIANTS
    SizesNested
    GrowInv
    DataIntact
PROPERTIES
    GrowOnly
    GrowDelivers
