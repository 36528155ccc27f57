CONSTANTS
    A = A
    B = B
    G = G
    L = L
    M1 = M1
    M2 = M2
    BagA = BagA
    BagB = BagB
    BagC = BagC
    R1 = R1
    R2 = R2
    R3 = R3
    R4 = R4
    R5 = R5
    R6 = R6
    NoEntity = NoEntity
    PlayerOrder <- MCPlayerOrder
    ItemOrder <- MCItemOrder
    Kind <- MCKind
    StartInside <- MCStartInside
    StartCharges <- MCStartCharges
    StartRounds <- MCStartRounds
    BagSpace = 5
    MountTime = 3
    ChamberTime = 2
    LowAmmoCue = 0
    MaxEvents = 2
SPECIFICATION Spec
INVARIANT ChargesConserved
INVARIANT FitsInside
INVARIANT OnlyTakenMagazineFails
PROPERTY Settles
CHECK_DEADLOCK FALSE
