SPECIFICATION FairSpec
CONSTANTS
    RxSize = 3
    TxSize = 3
    LengthMod = 8
    TickMod = 4
    Half = 2
    u8RxInterval = 1
    MaxRx = 2
    MaxTx = 0
PROPERTY
    FrameHandedOver
