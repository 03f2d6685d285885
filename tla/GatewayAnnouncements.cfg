SPECIFICATION FairSpec
CONSTANTS
    d1 = d1
    d2 = d2
    f1 = f1
    f2 = f2
    Device <- MCDevice
    Fbuf <- MCFbuf
    NoFrame = NoFrame
    BEACON_MAX_SEQ_NUM = 3
    PACKED_ACK_DELAY_NUM = 1
    GATEWAY_MAX_UPLINK_MSG_PER_BEACON_PERIOD = 2
    ChannelUpdates = FALSE
INVARIANTS
    NoHang
    AnnouncedInOrder
PROPERTY KeepsBeaconing
