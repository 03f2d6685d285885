SPECIFICATION FairSpec
CONSTANTS
    BEACON_MAX_SEQ_NUM = 127
    PACKED_ACK_DELAY_NUM = 2
    NoBeacon = NoBeacon
INVARIANTS
    TypeOK
    InStep
    DeltaIsPeriods
    ReplyAccepted
PROPERTY FrameSettled
