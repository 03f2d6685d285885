------------------------ MODULE BeaconCountingProofs ------------------------
(***************************************************************************)
(* The two ends of the link agree on the numbers of the beacons for every  *)
(* length of the lollipop and every delay of the packed ACK of up to half  *)
(* its head: the inductive invariant says that a frame waits only at a     *)
(* device that tracks, and that its distance is the time it has to wait.   *)
(***************************************************************************)
EXTENDS BeaconCounting, BeaconSeqProofs

IInv ==
    /\ TypeOK
    /\ InStep
    /\ DeltaIsPeriods
    /\ frame # NoBeacon => expected_beacon_seq_id # NoBeacon
    /\ frame = NoBeacon => periods = 0

LEMMA InitialType ==
    InitialBeaconSeq \in BeaconSeqNum /\ NextBeaconSeq(InitialBeaconSeq) \in BeaconSeqNum
<1>1. InitialBeaconSeq \in BeaconSeqNum
  BY BeaconMaxSeqNumAssumption DEF InitialBeaconSeq, BeaconSeqNum, BEACON_OVERFLOW_SEQ_NUM
<1> QED
  BY <1>1, NextBeaconSeqType

LEMMA InitInvariant == Init => IInv
BY InitialType, BeaconCountingAssumption, BeaconMaxSeqNumAssumption
   DEF Init, IInv, TypeOK, InStep, DeltaIsPeriods

\* The distance from a number to itself is zero, so a frame whose time has come
\* is due, and only such a frame.
LEMMA DueIffNoPeriods ==
    ASSUME IInv, frame # NoBeacon
    PROVE  /\ frame \in BeaconSeqNum /\ beacon_seq_id \in BeaconSeqNum
           /\ expected_beacon_seq_id = beacon_seq_id
           /\ calc_bcn_seq_delta(frame, beacon_seq_id) = periods
           /\ IsDue <=> periods = 0
BY DEF IInv, TypeOK, InStep, DeltaIsPeriods, IsDue

LEMMA SendFrameInvariant == IInv /\ SendFrame => IInv'
<1> SUFFICES ASSUME IInv, SendFrame PROVE IInv'
  OBVIOUS
<1>1. /\ expected_beacon_seq_id = beacon_seq_id /\ beacon_seq_id \in BeaconSeqNum
      /\ expected_beacon_seq_id # NoBeacon
  BY DEF IInv, InStep, TypeOK, SendFrame
<1>2. /\ PACKED_ACK_DELAY_NUM \in 1..(BEACON_MAX_SEQ_NUM \div 2)
      /\ PACKED_ACK_DELAY_NUM \in 1..BEACON_MAX_SEQ_NUM
      /\ PACKED_ACK_DELAY_NUM \in 0..PACKED_ACK_DELAY_NUM
  BY BeaconCountingAssumption, BeaconMaxSeqNumAssumption
<1> DEFINE new == calc_expected_beacon_seq_id(beacon_seq_id, PACKED_ACK_DELAY_NUM)
<1>3. new \in BeaconSeqNum /\ new # NoBeacon
  BY <1>1, <1>2, ExpectedType, BeaconCountingAssumption
<1>4. calc_bcn_seq_delta(new, beacon_seq_id) = PACKED_ACK_DELAY_NUM
  BY <1>1, <1>2, ExpectedIsAhead
<1>5. /\ frame' = new /\ periods' = PACKED_ACK_DELAY_NUM
      /\ UNCHANGED <<beacon_seq_id, expected_beacon_seq_id>>
  BY <1>1 DEF SendFrame
<1> HIDE DEF new
<1> QED
  BY <1>1, <1>2, <1>3, <1>4, <1>5 DEF IInv, TypeOK, InStep, DeltaIsPeriods

LEMMA TicktockInvariant == IInv /\ Ticktock => IInv'
<1> SUFFICES ASSUME IInv, Ticktock PROVE IInv'
  OBVIOUS
<1>1. /\ ~IsDue /\ frame' = frame
      /\ beacon_seq_id' = NextBeaconSeq(beacon_seq_id)
      /\ expected_beacon_seq_id' = IF expected_beacon_seq_id = NoBeacon THEN NoBeacon
                                   ELSE NextBeaconSeq(expected_beacon_seq_id)
      /\ periods' = IF periods > 0 THEN periods - 1 ELSE 0
  BY DEF Ticktock, gw_mac_engine_bcn_info_ticktock, btracker_info_base_ticktock
<1>2. beacon_seq_id' \in BeaconSeqNum
  BY <1>1, NextBeaconSeqType DEF IInv, TypeOK
<1>3. periods' \in 0..PACKED_ACK_DELAY_NUM
  BY <1>1, BeaconCountingAssumption, BeaconMaxSeqNumAssumption DEF IInv, TypeOK
<1>4. TypeOK' /\ InStep'
  BY <1>1, <1>2, <1>3, BeaconCountingAssumption DEF IInv, TypeOK, InStep
<1>5. (frame' # NoBeacon => expected_beacon_seq_id' # NoBeacon)
      /\ (frame' = NoBeacon => periods' = 0)
  BY <1>1, <1>2, BeaconCountingAssumption DEF IInv, TypeOK, InStep
<1>6. DeltaIsPeriods'
  <2> SUFFICES ASSUME frame # NoBeacon
               PROVE  calc_bcn_seq_delta(frame, NextBeaconSeq(beacon_seq_id)) = periods'
    BY <1>1 DEF DeltaIsPeriods
  <2>1. /\ frame \in BeaconSeqNum /\ beacon_seq_id \in BeaconSeqNum
        /\ calc_bcn_seq_delta(frame, beacon_seq_id) = periods
        /\ periods # 0
    BY <1>1, DueIffNoPeriods
  <2>2. periods > 0 /\ periods <= BEACON_MAX_SEQ_NUM \div 2
    BY <2>1, BeaconCountingAssumption, BeaconMaxSeqNumAssumption DEF IInv, TypeOK
  <2>3. calc_bcn_seq_delta(frame, NextBeaconSeq(beacon_seq_id)) = periods - 1
    BY <2>1, <2>2, CountingApproachesExpected
  <2> QED BY <1>1, <2>2, <2>3
<1> QED
  BY <1>4, <1>5, <1>6 DEF IInv

LEMMA NextInvariant == IInv /\ [Next]_vars => IInv'
<1> SUFFICES ASSUME IInv, [Next]_vars PROVE IInv'
  OBVIOUS
<1>1. CASE UNCHANGED vars
  BY <1>1 DEF vars, IInv, TypeOK, InStep, DeltaIsPeriods
<1>2. CASE btracker_sync_info_base
  BY <1>2, BeaconCountingAssumption
     DEF btracker_sync_info_base, IInv, TypeOK, InStep, DeltaIsPeriods
<1>3. CASE SendFrame
  BY <1>3, SendFrameInvariant
<1>4. CASE Settle \/ TrackFailed
  BY <1>4, BeaconCountingAssumption, BeaconMaxSeqNumAssumption
     DEF Settle, TrackFailed, IInv, TypeOK, InStep, DeltaIsPeriods
<1>5. CASE Ticktock
  BY <1>5, TicktockInvariant
<1> QED
  BY <1>1, <1>2, <1>3, <1>4, <1>5 DEF Next

THEOREM Invariance == Spec => []IInv
BY InitInvariant, NextInvariant, PTL DEF Spec

\* The numbers on both sides are beacon numbers, and a frame is waited for no
\* longer than the delay, whether counting passes the wrap or not.
THEOREM TypeCorrect == Spec => []TypeOK
<1>1. IInv => TypeOK
  BY DEF IInv
<1> QED
  BY <1>1, Invariance, PTL

\* A device that tracks has the number of the gateway.
THEOREM CountsInStep == Spec => []InStep
<1>1. IInv => InStep
  BY DEF IInv
<1> QED
  BY <1>1, Invariance, PTL

\* No frame is overdue, or settled by a beacon that is not its own.
THEOREM DistanceIsWaitingTime == Spec => []DeltaIsPeriods
<1>1. IInv => DeltaIsPeriods
  BY DEF IInv
<1> QED
  BY <1>1, Invariance, PTL

\* A reply is accepted exactly while the frame's beacon is to come.
THEOREM ReplyIsAccepted == Spec => []ReplyAccepted
<1>1. IInv => ReplyAccepted
  <2> SUFFICES ASSUME IInv, frame # NoBeacon
               PROVE  gw_mac_is_valid_tx_bcn_seq_id(frame, beacon_seq_id,
                          PACKED_ACK_DELAY_NUM) <=> periods > 0
    BY DEF ReplyAccepted
  <2>1. calc_bcn_seq_delta(frame, beacon_seq_id) = periods
    BY DueIffNoPeriods
  <2>2. periods \in 0..PACKED_ACK_DELAY_NUM /\ PACKED_ACK_DELAY_NUM \in Nat
    BY BeaconCountingAssumption, BeaconMaxSeqNumAssumption DEF IInv, TypeOK
  <2> QED BY <2>1, <2>2 DEF gw_mac_is_valid_tx_bcn_seq_id
<1> QED
  BY <1>1, Invariance, PTL
=============================================================================
