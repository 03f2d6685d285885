SPECIFICATION FairSpec
CONSTANTS
    RxSize = 3
    TxSize = 3
    LengthMod = 8
    TickMod = 4
    Half = 2
    u8RxInterval = 1
    MaxRx = 3
    MaxTx = 2
INVARIANTS
    TypeOK
    BytesAccountedFor
    MessagesComplete
    Listens
    LengthIsBytes
    EndIsSeen
PROPERTY
    MainLoopGoesOn
