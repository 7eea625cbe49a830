SPECIFICATION Spec
CONSTANTS
    Tasks = {t1, t2}
    a = a
    b = b
    k = k
    MaxKeySlot = 2
    MaxKeySlot1 = 1
    Creds = {a, b, k}
    FirstLine <- MCFirstLine
    SecondLine <- MCSecondLine
    NoKey = NoKey
    NoReq = NoReq
    Free = Free
SYMMETRY Symmetry
INVARIANTS
    TypeOK
    NeverLastSlot
    KeyslotInv
    NoKeyLeftBehind
PROPERTIES
    RemoverKeepsAccess
    AddGrantsAccess
