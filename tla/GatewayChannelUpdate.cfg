SPECIFICATION Spec
CONSTANTS
    d1 = d1
    d2 = d2
    f1 = f1
    f2 = f2
    Device <- MCDevice
    Fbuf <- MCFbuf
    NoFrame = NoFrame
    BEACON_MAX_SEQ_NUM = 5
    PACKED_ACK_DELAY_NUM = 2
    GATEWAY_MAX_UPLINK_MSG_PER_BEACON_PERIOD = 1
    ChannelUpdates = TRUE
INVARIANT NoHang
SYMMETRY DeviceSymmetry
CHECK_DEADLOCK FALSE
