----------------------------- MODULE BeaconSeq -----------------------------
(***************************************************************************)
(* The beacon sequence number: a lollipop counter held in an os_int8.      *)
(* A gateway starts at the lowest value, counts up once through the        *)
(* negative numbers (the stick) and from then on cycles through 0 ..       *)
(* BEACON_MAX_SEQ_NUM (the head).  Both ends of the link compute with it:  *)
(* the gateway to number its beacons, the end device to know which beacon  *)
(* will carry the packed ACK of the frame it has just sent.                *)
(*                                                                         *)
(* The code's BEACON_MAX_SEQ_NUM is 0x7F.  It is a parameter here, so that *)
(* state machines that carry beacon numbers can be checked on a short      *)
(* cycle; the width of the os_int8 follows it.                             *)
(***************************************************************************)
EXTENDS Integers

CONSTANT BEACON_MAX_SEQ_NUM    \* the greatest sequence number

ASSUME BeaconMaxSeqNumAssumption ==
    BEACON_MAX_SEQ_NUM \in Nat /\ BEACON_MAX_SEQ_NUM >= 3

\* The bit pattern 0x80 read as an os_int8: what BEACON_MAX_SEQ_NUM + 1
\* overflows to.
BEACON_OVERFLOW_SEQ_NUM == -(BEACON_MAX_SEQ_NUM + 1)

\* Every value a beacon can carry.
BeaconSeqNum == BEACON_OVERFLOW_SEQ_NUM..BEACON_MAX_SEQ_NUM

\* The conversion of a value that is at most one cycle out of range.
Int8(x) ==
    IF x > BEACON_MAX_SEQ_NUM THEN x - 2 * (BEACON_MAX_SEQ_NUM + 1)
    ELSE IF x < BEACON_OVERFLOW_SEQ_NUM THEN x + 2 * (BEACON_MAX_SEQ_NUM + 1)
    ELSE x

\* A gateway's first number, before the first beacon is counted.
InitialBeaconSeq == BEACON_OVERFLOW_SEQ_NUM

\* The successor: `+= 1` on an os_int8, then the overflow test.
NextWithoutOverflow(seq) == seq + 1
NextBeaconSeq(seq) ==
    LET incremented == Int8(seq + 1)
    IN  IF incremented = BEACON_OVERFLOW_SEQ_NUM THEN 0 ELSE incremented

\* The beacon that is due `delay` periods after beacon cur_seq_id.
ExpectedWithoutWrap(cur_seq_id, delay) == Int8(cur_seq_id + delay)
calc_expected_beacon_seq_id(cur_seq_id, delay) ==
    IF cur_seq_id <= BEACON_MAX_SEQ_NUM - delay
    THEN cur_seq_id + delay
    ELSE delay - (BEACON_MAX_SEQ_NUM - cur_seq_id) - 1

\* How far seq1 is ahead of seq2.  On the head the difference is the shorter
\* way round the cycle; as soon as one of the two is on the stick it is the
\* plain difference.  The recursive call of the code only swaps two unequal
\* numbers, so it is one level deep and written out here.
PlainDifference(seq1, seq2) == seq1 - seq2
calc_bcn_seq_delta(seq1, seq2) ==
    LET ahead(hi, lo) ==    \* hi > lo, both on the head
            IF hi - lo <= BEACON_MAX_SEQ_NUM \div 2
            THEN hi - lo
            ELSE -((BEACON_MAX_SEQ_NUM - hi) + 1 + lo)
    IN  IF seq1 < 0 \/ seq2 < 0 THEN seq1 - seq2
        ELSE IF seq1 = seq2 THEN 0
        ELSE IF seq1 > seq2 THEN ahead(seq1, seq2)
        ELSE -ahead(seq2, seq1)

\* The gateway sends a downlink frame with beacon tx_bcn_seq_id only if that is
\* one of the next packed_ack_delay_num beacons.
ValidBeforeLast(tx_bcn_seq_id, beacon_seq_id, packed_ack_delay_num) ==
    LET delta == calc_bcn_seq_delta(tx_bcn_seq_id, beacon_seq_id)
    IN  0 < delta /\ delta < packed_ack_delay_num
gw_mac_is_valid_tx_bcn_seq_id(tx_bcn_seq_id, beacon_seq_id, packed_ack_delay_num) ==
    LET delta == calc_bcn_seq_delta(tx_bcn_seq_id, beacon_seq_id)
    IN  0 < delta /\ delta <= packed_ack_delay_num
=============================================================================
