SPECIFICATION FairSpec
CONSTANTS
    PACKED_ACK_DELAY_NUM = 2
    MaxMsgs = 2
INVARIANTS
    TypeOK
    NoHang
    RadioHasOneUser
    NothingOverdue
PROPERTIES
    ReportsToWhoAsked
    KeepsListening
    JoinReqSettled
CHECK_DEADLOCK FALSE
