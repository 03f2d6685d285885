--------------------------- MODULE BeaconSeqProofs ---------------------------
(***************************************************************************)
(* The arithmetic of beacon numbers, for every length of the lollipop.     *)
(***************************************************************************)
EXTENDS BeaconSeq, TLAPS

\* The conversion back to an os_int8 matters at the greatest number only.
LEMMA NextBeaconSeqType ==
    ASSUME NEW seq \in BeaconSeqNum
    PROVE  /\ NextBeaconSeq(seq) \in BeaconSeqNum
           /\ NextBeaconSeq(seq) = IF seq = BEACON_MAX_SEQ_NUM THEN 0 ELSE seq + 1
BY BeaconMaxSeqNumAssumption
   DEF NextBeaconSeq, Int8, BeaconSeqNum, BEACON_OVERFLOW_SEQ_NUM

\* calc_expected_beacon_seq_id() gives a beacon number again.
LEMMA ExpectedType ==
    ASSUME NEW bcn \in BeaconSeqNum, NEW delay \in 1..BEACON_MAX_SEQ_NUM
    PROVE  calc_expected_beacon_seq_id(bcn, delay) \in BeaconSeqNum
BY BeaconMaxSeqNumAssumption
   DEF calc_expected_beacon_seq_id, BeaconSeqNum, BEACON_OVERFLOW_SEQ_NUM

\* The device adds the packed ACK delay in one step, the gateway counts its
\* beacons one by one.  They agree for every delay, from every number and
\* across every wrap: a delay of one is the next beacon, and a delay of one
\* more is one beacon later.
THEOREM ExpectedCountsOn ==
    ASSUME NEW seq \in BeaconSeqNum, NEW delay \in 1..(BEACON_MAX_SEQ_NUM - 1)
    PROVE  /\ calc_expected_beacon_seq_id(seq, 1) = NextBeaconSeq(seq)
           /\ calc_expected_beacon_seq_id(seq, delay + 1)
                = NextBeaconSeq(calc_expected_beacon_seq_id(seq, delay))
<1> DEFINE expected == calc_expected_beacon_seq_id(seq, delay)
<1>1. delay \in 1..BEACON_MAX_SEQ_NUM
  BY BeaconMaxSeqNumAssumption
<1>2. expected \in BeaconSeqNum
  BY <1>1, ExpectedType
<1>3. NextBeaconSeq(expected) = IF expected = BEACON_MAX_SEQ_NUM THEN 0 ELSE expected + 1
  BY <1>2, NextBeaconSeqType
<1>4. calc_expected_beacon_seq_id(seq, delay + 1)
        = IF expected = BEACON_MAX_SEQ_NUM THEN 0 ELSE expected + 1
  BY BeaconMaxSeqNumAssumption
     DEF calc_expected_beacon_seq_id, BeaconSeqNum, BEACON_OVERFLOW_SEQ_NUM
<1>5. calc_expected_beacon_seq_id(seq, 1) = NextBeaconSeq(seq)
  BY BeaconMaxSeqNumAssumption, NextBeaconSeqType
     DEF calc_expected_beacon_seq_id, BeaconSeqNum, BEACON_OVERFLOW_SEQ_NUM
<1> QED
  BY <1>3, <1>4, <1>5

\* The distance is zero between equal numbers only: the ACKs of a beacon are
\* never taken for those of another.
THEOREM DeltaZeroOnlyIfEqual ==
    ASSUME NEW a \in BeaconSeqNum, NEW b \in BeaconSeqNum
    PROVE  calc_bcn_seq_delta(a, b) = 0 <=> a = b
BY BeaconMaxSeqNumAssumption
   DEF calc_bcn_seq_delta, BeaconSeqNum, BEACON_OVERFLOW_SEQ_NUM

\* Which of two beacons is ahead does not depend on which of them is asked.
THEOREM DeltaIsAntisymmetric ==
    ASSUME NEW a \in BeaconSeqNum, NEW b \in BeaconSeqNum
    PROVE  calc_bcn_seq_delta(a, b) = -calc_bcn_seq_delta(b, a)
BY BeaconMaxSeqNumAssumption
   DEF calc_bcn_seq_delta, BeaconSeqNum, BEACON_OVERFLOW_SEQ_NUM

\* The beacon that is due `delay` periods later is `delay` ahead, as long as
\* that is at most half the cycle: a frame starts its wait with its beacon
\* ahead of it.
THEOREM ExpectedIsAhead ==
    ASSUME NEW seq \in BeaconSeqNum, NEW delay \in 1..(BEACON_MAX_SEQ_NUM \div 2)
    PROVE  calc_bcn_seq_delta(calc_expected_beacon_seq_id(seq, delay), seq) = delay
BY BeaconMaxSeqNumAssumption
   DEF calc_expected_beacon_seq_id, calc_bcn_seq_delta, BeaconSeqNum,
       BEACON_OVERFLOW_SEQ_NUM

\* Every beacon that is counted brings it nearer by one: it is passed by no
\* beacon before it is reached, whether the wrap lies on the way or not.
THEOREM CountingApproachesExpected ==
    ASSUME NEW expected \in BeaconSeqNum, NEW seq \in BeaconSeqNum,
           calc_bcn_seq_delta(expected, seq) > 0,
           calc_bcn_seq_delta(expected, seq) <= BEACON_MAX_SEQ_NUM \div 2
    PROVE  calc_bcn_seq_delta(expected, NextBeaconSeq(seq))
             = calc_bcn_seq_delta(expected, seq) - 1
<1>1. NextBeaconSeq(seq) = IF seq = BEACON_MAX_SEQ_NUM THEN 0 ELSE seq + 1
  BY NextBeaconSeqType
<1> QED
  BY <1>1, BeaconMaxSeqNumAssumption
     DEF calc_bcn_seq_delta, BeaconSeqNum, BEACON_OVERFLOW_SEQ_NUM
=============================================================================
