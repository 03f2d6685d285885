SPECIFICATION Spec
CONSTANTS
    PACKED_ACK_DELAY_NUM = 2
    MaxMsgs = 2
INVARIANTS
    NoWrongSignal
CHECK_DEADLOCK FALSE
