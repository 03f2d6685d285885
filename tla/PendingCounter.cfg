SPECIFICATION Spec
CONSTANTS
    s1 = s1
    s2 = s2
    s3 = s3
    Slot <- MCSlot
    Beacon <- MCBeacon
    JoinReq = JoinReq
    NoFrame = NoFrame
    BEACON_MAX_SEQ_NUM = 3
    PACKED_ACK_DELAY_NUM = 1
    LPWAN_DE_MAX_RETRANSMIT_NUM = 1
    LPWAN_DE_MAX_TX_FAIL_NUM = 1
    FRAME_SEQ_NUM = 2
    MaxSurplus = 1
INVARIANT PendingAssertionHolds
SYMMETRY BlockSymmetry
CHECK_DEADLOCK FALSE
