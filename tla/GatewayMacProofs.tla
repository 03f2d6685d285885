-------------------------- MODULE GatewayMacProofs --------------------------
(***************************************************************************)
(* The gateway's ACKs are on time, and its ACK lists implement the delay   *)
(* line of AckService, for every length of the lollipop, any number of     *)
(* devices and blocks, and channel updates at any time.                    *)
(*                                                                         *)
(* The invariant says of every ACK how many beacons it is from its own: as *)
(* many as its list is from the current one.  Two things it has to know of *)
(* a gateway that has been started again: the lists are empty until the    *)
(* current list is a valid one, and a frame that was received before the   *)
(* start, and is looked at after it, answers another beacon.               *)
(***************************************************************************)
EXTENDS GatewayMac, BeaconSeqProofs, TLAPS

CurListId == -PACKED_ACK_DELAY_NUM..(PACKED_ACK_DELAY_NUM - 1)

\* The list whose ACKs go out k beacons from now.
ListAhead(k) == (cur_list_id + k) % PACKED_ACK_DELAY_NUM

\* An ACK of a frame for beacon bcn is due k beacons from now.
DueIn(k, bcn) ==
    calc_bcn_seq_delta(calc_expected_beacon_seq_id(bcn, PACKED_ACK_DELAY_NUM), beacon_seq_id) = k

AckType ==
    /\ state \in {"INITED", "TX_BEACON", "TX_DOWNLINK", "RX_UPLINK"}
    /\ beacon_seq_id \in BeaconSeqNum
    /\ cur_list_id \in CurListId
    /\ ack_list \in [ListId -> Seq(Ack)]

\* The engine computes with its delay once it has started.
DelayKnown == state # "INITED" => packed_ack_delay_num = PACKED_ACK_DELAY_NUM

\* A pending frame answers a beacon that was sent, which is not one with the
\* number of a gateway that has just been started.
FrameToRead ==
    "RLC_RX_OK" \in signals => rx_buffer \in Ack /\ rx_buffer.bcn # InitialBeaconSeq

\* Before the first beacon nothing is owed: the current list is none.
EmptyUntilValid ==
    cur_list_id = -PACKED_ACK_DELAY_NUM =>
        beacon_seq_id = InitialBeaconSeq /\ ack_list = EmptyAckLists

\* The ACKs of the list that is k ahead are due k beacons from now.
DueInTurn ==
    \A k \in 1..PACKED_ACK_DELAY_NUM :
        \A n \in DOMAIN ack_list[ListAhead(k)] : DueIn(k, ack_list[ListAhead(k)][n].bcn)

IInv == AckType /\ DelayKnown /\ FrameToRead /\ EmptyUntilValid /\ DueInTurn /\ AckOnTime

----------------------------------------------------------------------------
(* Lists that take turns                                                  *)

LEMMA Delays ==
    /\ PACKED_ACK_DELAY_NUM \in {1, 2}
    /\ PACKED_ACK_DELAY_NUM \in 1..(BEACON_MAX_SEQ_NUM \div 2)
    /\ PACKED_ACK_DELAY_NUM \in 1..BEACON_MAX_SEQ_NUM
BY GatewayMacAssumption, BeaconMaxSeqNumAssumption

\* Which list is how far ahead.
LEMMA Turns ==
    ASSUME NEW cur \in CurListId
    PROVE  /\ \A k \in 1..PACKED_ACK_DELAY_NUM : (cur + k) % PACKED_ACK_DELAY_NUM \in ListId
           /\ \A j, k \in 1..PACKED_ACK_DELAY_NUM :
                 (cur + j) % PACKED_ACK_DELAY_NUM = (cur + k) % PACKED_ACK_DELAY_NUM => j = k
<1>1. CASE PACKED_ACK_DELAY_NUM = 1
  BY <1>1 DEF CurListId, ListId
<1>2. CASE PACKED_ACK_DELAY_NUM = 2
  BY <1>2 DEF CurListId, ListId
<1> QED
  BY <1>1, <1>2, Delays

\* packed_ack_ticktock() makes the first list ahead the current one, and the
\* others come nearer by one.
LEMMA Ticktock ==
    ASSUME AckType, packed_ack_delay_num = PACKED_ACK_DELAY_NUM,
           cur_list_id' = packed_ack_ticktock
    PROVE  /\ cur_list_id' \in CurListId
           /\ cur_list_id' # -PACKED_ACK_DELAY_NUM
           /\ cur_list_id' >= 0 => cur_list_id' = ListAhead(1)
           /\ cur_list_id' < 0 => cur_list_id = -PACKED_ACK_DELAY_NUM
           /\ \A k \in 1..PACKED_ACK_DELAY_NUM :
                 ListAhead(k)' = IF k < PACKED_ACK_DELAY_NUM THEN ListAhead(k + 1) ELSE ListAhead(1)
<1>1. CASE PACKED_ACK_DELAY_NUM = 1
  BY <1>1 DEF AckType, CurListId, ListAhead, packed_ack_ticktock
<1>2. CASE PACKED_ACK_DELAY_NUM = 2
  BY <1>2 DEF AckType, CurListId, ListAhead, packed_ack_ticktock
<1> QED
  BY <1>1, <1>2, Delays

----------------------------------------------------------------------------
(* Addresses                                                              *)

LEMMA NoAddresses == Addresses(<<>>) = <<>>
BY DEF Addresses

LEMMA AddressesAppend ==
    ASSUME NEW s \in Seq(Ack), NEW a \in Ack
    PROVE  /\ Len(Addresses(s)) = Len(s)
           /\ Addresses(Append(s, a)) = Append(Addresses(s), a.addr)
BY DEF Addresses, Ack

----------------------------------------------------------------------------
(* The steps that touch neither the ACKs nor the beacons                  *)

\* The engine reads no frame before it is started.
LEMMA ReadsWhenStarted ==
    ASSUME AckType, Handles("RLC_RX_OK")
    PROVE  state = "RX_UPLINK"
<1>1. PICK n \in DOMAIN HandledSignals : HandledSignals[n] = "RLC_RX_OK"
  BY DEF Handles
<1>2. ASSUME state = "INITED" PROVE FALSE
  <2>1. HandledSignals = <<"ENGINE_START", "UPDATE_MODEM_CHANNEL">> \o <<>>
    BY <1>2 DEF HandledSignals, EntryOrder
  <2> QED
    BY <1>1, <2>1
<1>3. ASSUME state = "TX_BEACON" PROVE FALSE
  <2>1. HandledSignals = <<"ENGINE_START", "UPDATE_MODEM_CHANNEL">>
                           \o <<"SEND_BEACON", "RLC_TX_FAILED", "RLC_TX_OK">>
    BY <1>3 DEF HandledSignals, EntryOrder
  <2> QED
    BY <1>1, <2>1
<1>4. ASSUME state = "TX_DOWNLINK" PROVE FALSE
  <2>1. HandledSignals = <<"ENGINE_START", "UPDATE_MODEM_CHANNEL">>
                           \o <<"TX_DOWNLINK_FRAME", "RLC_TX_FAILED", "RLC_TX_OK">>
    BY <1>4 DEF HandledSignals, EntryOrder
  <2> QED
    BY <1>1, <2>1
<1> QED
  BY <1>2, <1>3, <1>4 DEF AckType

\* A step that leaves ACKs, beacons and what their distance depends on alone.
Quiet ==
    /\ UNCHANGED <<beacon_seq_id, packed_ack_delay_num, cur_list_id, ack_list, beacon>>
    /\ state' \in {"INITED", "TX_BEACON", "TX_DOWNLINK", "RX_UPLINK"}
    /\ state' # "INITED" => state # "INITED"
    /\ FrameToRead'

LEMMA ContinueIsQuiet ==
    ASSUME NEW s, NEW b, ContinueTxOrBeginRx(s, b)
    PROVE  /\ state' \in {"TX_DOWNLINK", "RX_UPLINK"}
           /\ signals' \subseteq signals \cup {"BEGIN_RX_UPLINK", "TX_DOWNLINK_FRAME"}
BY DEF ContinueTxOrBeginRx, HandledAndRaised

LEMMA EngineIsQuiet ==
    ASSUME IInv,
           \/ BeaconFailed \/ BeaconOk \/ TxDownlinkFrame
           \/ DownlinkDone("RLC_TX_OK") \/ DownlinkDone("RLC_TX_FAILED")
           \/ BeginRxUplink \/ StopRx \/ WrongSignal
    PROVE  Quiet
<1> USE DEF IInv, AckType, FrameToRead, Quiet, radio, info, frames, timers
<1>1. CASE BeaconFailed
  BY <1>1 DEF BeaconFailed, HandledAndRaised
<1>2. CASE BeaconOk
  BY <1>2, ContinueIsQuiet DEF BeaconOk
<1>3. CASE TxDownlinkFrame
  BY <1>3 DEF TxDownlinkFrame, HandledAndRaised, Halt
<1>4. ASSUME NEW result \in {"RLC_TX_OK", "RLC_TX_FAILED"}, DownlinkDone(result) PROVE Quiet
  <2>1. CASE cur_tx \in Range(buf.tx_list)
    <3>1. /\ ContinueTxOrBeginRx(result, buf') /\ state = "TX_DOWNLINK"
          /\ UNCHANGED <<radio, info, ack_list, beacon>>
      BY <1>4, <2>1 DEF DownlinkDone
    <3> QED
      BY <3>1, ContinueIsQuiet
  <2>2. CASE cur_tx \notin Range(buf.tx_list)
    BY <1>4, <2>2 DEF DownlinkDone, Halt
  <2> QED
    BY <2>1, <2>2
<1>5. CASE BeginRxUplink
  BY <1>5 DEF BeginRxUplink, HandledAndRaised, Halt
<1>6. CASE StopRx
  BY <1>6 DEF StopRx, HandledAndRaised, Halt
<1>7. CASE WrongSignal
  BY <1>7 DEF WrongSignal, Halt
<1> QED
  BY <1>1, <1>2, <1>3, <1>4, <1>5, <1>6, <1>7

LEMMA EnvironmentIsQuiet == IInv /\ Environment => Quiet
<1> SUFFICES ASSUME IInv, Environment PROVE Quiet
  OBVIOUS
<1> USE DEF IInv, AckType, FrameToRead, Quiet, radio, info, frames, timers
<1>1. CASE HostStart \/ HostUpdatesChannel
  BY <1>1 DEF HostStart, HostUpdatesChannel
<1>2. ASSUME NEW addr \in Device, NEW bcn \in BeaconSeqNum, HostSendsDownlink(addr, bcn)
      PROVE  Quiet
  <2>1. UNCHANGED <<state, signals, timers, radio, info, ack_list, cur_tx, beacon, halted>>
    BY <1>2 DEF HostSendsDownlink
  <2> QED
    BY <2>1
<1>3. CASE BeaconTimerExpires \/ TimeoutTimerExpires
  BY <1>3 DEF BeaconTimerExpires, TimeoutTimerExpires
<1>4. CASE RadioTxDone
  BY <1>4 DEF RadioTxDone
<1>5. ASSUME NEW addr \in Device, NEW bcn \in {beacon_seq_id, NextBeaconSeq(beacon_seq_id)},
             RadioRxDone(addr, bcn)
      PROVE  Quiet
  <2>1. bcn \in BeaconSeqNum
    BY NextBeaconSeqType
  <2> QED
    BY <1>5, <2>1 DEF RadioRxDone, Ack
<1> QED
  BY <1>1, <1>2, <1>3, <1>4, <1>5 DEF Environment

LEMMA QuietKeeps == IInv /\ Quiet => IInv'
<1> SUFFICES ASSUME IInv, Quiet PROVE IInv'
  OBVIOUS
<1>1. UNCHANGED <<beacon_seq_id, packed_ack_delay_num, cur_list_id, ack_list, beacon>>
  BY DEF Quiet
<1>2. DueInTurn'
  BY <1>1 DEF IInv, DueInTurn, DueIn, ListAhead
<1>3. AckType' /\ DelayKnown' /\ FrameToRead' /\ EmptyUntilValid' /\ AckOnTime'
  BY <1>1 DEF IInv, Quiet, AckType, DelayKnown, FrameToRead, EmptyUntilValid, AckOnTime
<1> QED
  BY <1>2, <1>3 DEF IInv

----------------------------------------------------------------------------
(* The steps that touch them                                              *)

\* What a step of the engine or the host does to the ACKs and the beacons.
LEMMA Steps ==
    ASSUME IInv, [Next]_vars
    PROVE  \/ Quiet
           \/ Started /\ signals' \subseteq signals
           \/ SendBeacon /\ halted' = halted
           \/ HandleUplinkFrame
<1> USE DEF IInv, AckType, FrameToRead, Quiet, radio, info, frames, timers
<1>1. CASE UNCHANGED vars
  BY <1>1 DEF vars
<1>2. CASE EngineStart \/ UpdateModemChannel
  BY <1>2 DEF EngineStart, UpdateModemChannel, HandledAndRaised
<1>3. CASE SendBeacon
  <2>1. CASE rlc = "TX" \/ beacon_timer
    BY <1>3, <2>1 DEF SendBeacon, Halt
  <2>2. CASE rlc # "TX" /\ ~beacon_timer
    BY <1>3, <2>2 DEF SendBeacon
  <2> QED
    BY <2>1, <2>2
<1>4. CASE HandleUplinkFrame
  BY <1>4
<1>5. CASE Environment
  BY <1>5, EnvironmentIsQuiet
<1> QED
  BY <1>1, <1>2, <1>3, <1>4, <1>5, EngineIsQuiet DEF Next, Engine

LEMMA StartedKeeps == IInv /\ Started /\ signals' \subseteq signals => IInv'
<1> SUFFICES ASSUME IInv, Started, signals' \subseteq signals PROVE IInv'
  OBVIOUS
<1>1. /\ beacon_seq_id' = InitialBeaconSeq /\ packed_ack_delay_num' = PACKED_ACK_DELAY_NUM
      /\ cur_list_id' = -PACKED_ACK_DELAY_NUM /\ ack_list' = EmptyAckLists
      /\ state' = "TX_BEACON" /\ UNCHANGED <<rx_buffer, beacon>>
  BY DEF Started
<1>2. AckType'
  BY <1>1, Delays, BeaconMaxSeqNumAssumption
     DEF AckType, CurListId, EmptyAckLists, InitialBeaconSeq, BeaconSeqNum, BEACON_OVERFLOW_SEQ_NUM
<1>3. DelayKnown' /\ FrameToRead' /\ EmptyUntilValid' /\ AckOnTime'
  BY <1>1 DEF IInv, DelayKnown, FrameToRead, EmptyUntilValid, AckOnTime
<1>4. DueInTurn'
  <2> SUFFICES ASSUME NEW k \in 1..PACKED_ACK_DELAY_NUM
               PROVE  ack_list'[ListAhead(k)'] = <<>>
    BY DEF DueInTurn
  <2>1. ListAhead(k)' \in ListId
    BY <1>2, Turns DEF AckType, ListAhead
  <2> QED
    BY <1>1, <2>1 DEF EmptyAckLists
<1> QED
  BY <1>2, <1>3, <1>4 DEF IInv

\* A frame gets its ACK in the list that is the farthest ahead.
LEMMA ExpectedList ==
    ASSUME IInv, HandleUplinkFrame
    PROVE  /\ packed_ack_expected_list_id = ListAhead(PACKED_ACK_DELAY_NUM)
           /\ packed_ack_expected_list_id \in ListId
           /\ rx_buffer \in Ack
           /\ IsOfThisBeacon(rx_buffer) =>
                  /\ DueIn(PACKED_ACK_DELAY_NUM, rx_buffer.bcn)
                  /\ cur_list_id # -PACKED_ACK_DELAY_NUM
<1>1. Handles("RLC_RX_OK")
  BY DEF HandleUplinkFrame
<1>2. packed_ack_delay_num = PACKED_ACK_DELAY_NUM
  BY <1>1, ReadsWhenStarted DEF IInv, DelayKnown
<1>3. rx_buffer \in Ack /\ rx_buffer.bcn # InitialBeaconSeq
  BY <1>1 DEF IInv, FrameToRead, Handles
<1>4. packed_ack_expected_list_id = ListAhead(PACKED_ACK_DELAY_NUM)
  BY <1>2 DEF packed_ack_expected_list_id, ListAhead
<1>5. ListAhead(PACKED_ACK_DELAY_NUM) \in ListId
  BY Turns, Delays DEF ListAhead, IInv, AckType
<1>6. ASSUME IsOfThisBeacon(rx_buffer)
      PROVE  DueIn(PACKED_ACK_DELAY_NUM, rx_buffer.bcn) /\ cur_list_id # -PACKED_ACK_DELAY_NUM
  <2>1. rx_buffer.bcn = beacon_seq_id /\ beacon_seq_id \in BeaconSeqNum
    BY <1>6 DEF IsOfThisBeacon, IInv, AckType
  <2>2. DueIn(PACKED_ACK_DELAY_NUM, beacon_seq_id)
    BY <2>1, ExpectedIsAhead, Delays DEF DueIn
  <2> QED
    BY <1>3, <2>1, <2>2 DEF IInv, EmptyUntilValid
<1> QED
  BY <1>3, <1>4, <1>5, <1>6

\* The list of the frame, with its ACK.
LEMMA UplinkSteps ==
    ASSUME IInv, HandleUplinkFrame
    PROVE  \/ ack_list' = ack_list
           \/ LET i == ListAhead(PACKED_ACK_DELAY_NUM)
              IN  /\ IsOfThisBeacon(rx_buffer)
                  /\ Len(ack_list[i]) < GATEWAY_MAX_UPLINK_MSG_PER_BEACON_PERIOD
                  /\ ack_list' = [ack_list EXCEPT ![i] = Append(@, rx_buffer)]
BY ExpectedList DEF HandleUplinkFrame

LEMMA UplinkKeeps == IInv /\ HandleUplinkFrame => IInv'
<1> SUFFICES ASSUME IInv, HandleUplinkFrame PROVE IInv'
  OBVIOUS
<1> DEFINE D == PACKED_ACK_DELAY_NUM
           i == ListAhead(D)
<1>1. /\ UNCHANGED <<state, beacon_seq_id, packed_ack_delay_num, cur_list_id, beacon>>
      /\ "RLC_RX_OK" \notin signals'
  BY DEF HandleUplinkFrame, HandledAndRaised, info
<1>2. /\ DelayKnown' /\ FrameToRead' /\ AckOnTime'
  BY <1>1 DEF IInv, DelayKnown, FrameToRead, AckOnTime
<1>3. \A k : ListAhead(k)' = ListAhead(k)
  BY <1>1 DEF ListAhead
<1>4. \A k, bcn : DueIn(k, bcn)' <=> DueIn(k, bcn)
  BY <1>1 DEF DueIn
<1>5. CASE ack_list' = ack_list
  BY <1>1, <1>2, <1>3, <1>4, <1>5 DEF IInv, AckType, EmptyUntilValid, DueInTurn
<1>6. CASE IsOfThisBeacon(rx_buffer) /\ ack_list' = [ack_list EXCEPT ![i] = Append(@, rx_buffer)]
  <2>1. i \in ListId /\ rx_buffer \in Ack /\ DueIn(D, rx_buffer.bcn) /\ cur_list_id # -D
    BY <1>6, ExpectedList
  <2>2. ack_list[i] \in Seq(Ack) /\ AckType'
    BY <1>1, <1>6, <2>1 DEF IInv, AckType
  <2>3. EmptyUntilValid'
    BY <1>1, <2>1 DEF EmptyUntilValid
  <2>4. ASSUME NEW k \in 1..D, NEW n \in DOMAIN ack_list'[ListAhead(k)]
        PROVE  DueIn(k, ack_list'[ListAhead(k)][n].bcn)
    <3>1. CASE k # D
      <4>1. ListAhead(k) # i /\ ListAhead(k) \in ListId
        BY <3>1, Turns, Delays DEF ListAhead, IInv, AckType
      <4>2. ack_list'[ListAhead(k)] = ack_list[ListAhead(k)]
        BY <1>6, <4>1 DEF IInv, AckType
      <4> QED
        BY <2>4, <4>2 DEF IInv, DueInTurn
    <3>2. CASE k = D
      <4>1. ack_list'[i] = Append(ack_list[i], rx_buffer)
        BY <1>6, <2>1 DEF IInv, AckType
      <4>2. CASE n = Len(ack_list[i]) + 1
        BY <2>1, <2>2, <3>2, <4>1, <4>2
      <4>3. CASE n # Len(ack_list[i]) + 1
        <5>1. n \in DOMAIN ack_list[i] /\ ack_list'[i][n] = ack_list[i][n]
          BY <2>2, <2>4, <3>2, <4>1, <4>3
        <5>2. D \in 1..D
          BY Delays
        <5> QED
          BY <3>2, <5>1, <5>2 DEF IInv, DueInTurn
      <4> QED
        BY <4>2, <4>3
    <3> QED
      BY <3>1, <3>2
  <2>5. DueInTurn'
    BY <1>3, <1>4, <2>4 DEF DueInTurn
  <2> QED
    BY <1>2, <2>2, <2>3, <2>5 DEF IInv
<1> QED
  BY <1>5, <1>6, UplinkSteps

\* A beacon has the ACKs of a list, whatever downlink frames it announces.
LEMMA AcksOfBeacon ==
    ASSUME NEW i, construct_gateway_beacon_packed_ack(i)
    PROVE  /\ ack_list' = [ack_list EXCEPT ![i] = <<>>]
           /\ beacon'.seq = beacon_seq_id'
           /\ beacon'.acks = [k \in DOMAIN ack_list[i] |-> beacon'.acks[k]]
           /\ \A k \in DOMAIN ack_list[i] :
                 beacon'.acks[k].addr = ack_list[i][k].addr /\ beacon'.acks[k].bcn = ack_list[i][k].bcn
<1>1. PICK found \in [DOMAIN ack_list[i] -> Fbuf \cup {NoFrame}] :
          /\ ack_list' = [ack_list EXCEPT ![i] = <<>>]
          /\ beacon' = [seq  |-> beacon_seq_id',
                        acks |-> [k \in DOMAIN ack_list[i] |->
                                     [addr |-> ack_list[i][k].addr, bcn |-> ack_list[i][k].bcn,
                                      pending |-> found[k] # NoFrame]]]
  BY DEF construct_gateway_beacon_packed_ack
<1> QED
  BY <1>1

\* A beacon is counted, takes the ACKs that were due next, and the other lists
\* come nearer.  While the number of the current list is still negative, all
\* lists are empty.
LEMMA BeaconSteps ==
    ASSUME IInv, SendBeacon, halted' = halted
    PROVE  LET acks == ack_list[ListAhead(1)]
           IN  /\ ListAhead(1) \in ListId
               /\ beacon_seq_id' = NextBeaconSeq(beacon_seq_id)
               /\ cur_list_id' = packed_ack_ticktock
               /\ ack_list' = [k \in ListId |-> IF k = ListAhead(1) THEN <<>> ELSE ack_list[k]]
               /\ beacon'.seq = beacon_seq_id'
               /\ beacon'.acks = [k \in DOMAIN acks |-> beacon'.acks[k]]
               /\ \A k \in DOMAIN acks : /\ beacon'.acks[k].addr = acks[k].addr
                                        /\ beacon'.acks[k].bcn = acks[k].bcn
               /\ signals' \subseteq signals
               /\ UNCHANGED <<state, rx_buffer, packed_ack_delay_num>>
               /\ packed_ack_delay_num = PACKED_ACK_DELAY_NUM
<1> DEFINE i == packed_ack_ticktock
<1>1. halted = "no" /\ state = "TX_BEACON"
  BY DEF SendBeacon, Handles, Running
<1>2. rlc # "TX" /\ ~beacon_timer
  BY <1>1 DEF SendBeacon, Halt
<1>3. /\ beacon_seq_id' = NextBeaconSeq(beacon_seq_id)
      /\ cur_list_id' = i
      /\ IF i >= 0 /\ ack_list[i] # <<>>
         THEN construct_gateway_beacon_packed_ack(i)
         ELSE beacon' = [seq |-> beacon_seq_id', acks |-> <<>>] /\ UNCHANGED ack_list
      /\ HandledAndRaised("SEND_BEACON", {})
      /\ UNCHANGED <<state, rx_buffer, packed_ack_delay_num>>
  BY <1>2 DEF SendBeacon, frames
<1>4. packed_ack_delay_num = PACKED_ACK_DELAY_NUM
  BY <1>1 DEF IInv, DelayKnown
<1>5. /\ i >= 0 => i = ListAhead(1)
      /\ i < 0 => cur_list_id = -PACKED_ACK_DELAY_NUM
      /\ i \in CurListId
  BY <1>3, <1>4, Ticktock DEF IInv
<1>6. ListAhead(1) \in ListId /\ ack_list \in [ListId -> Seq(Ack)]
  BY Turns, Delays DEF ListAhead, IInv, AckType
<1>7. i < 0 => ack_list = EmptyAckLists
  BY <1>5 DEF IInv, EmptyUntilValid
<1>8. i \in Int
  BY <1>5, Delays DEF CurListId
<1> HIDE DEF i
<1>9. CASE i >= 0 /\ ack_list[i] # <<>>
  <2>1. construct_gateway_beacon_packed_ack(i) /\ i = ListAhead(1)
    BY <1>3, <1>5, <1>9
  <2>2. /\ ack_list' = [ack_list EXCEPT ![i] = <<>>] /\ beacon'.seq = beacon_seq_id'
        /\ beacon'.acks = [k \in DOMAIN ack_list[i] |-> beacon'.acks[k]]
        /\ \A k \in DOMAIN ack_list[i] : /\ beacon'.acks[k].addr = ack_list[i][k].addr
                                       /\ beacon'.acks[k].bcn = ack_list[i][k].bcn
    BY <2>1, AcksOfBeacon
  <2>3. ack_list' = [k \in ListId |-> IF k = ListAhead(1) THEN <<>> ELSE ack_list[k]]
    BY <1>6, <2>1, <2>2
  <2> QED
    BY <1>3, <1>4, <1>6, <2>1, <2>2, <2>3 DEF i, HandledAndRaised
<1>10. CASE ~(i >= 0 /\ ack_list[i] # <<>>)
  <2>1. /\ ack_list' = ack_list
        /\ beacon'.seq = beacon_seq_id' /\ beacon'.acks = <<>>
    BY <1>3, <1>10
  <2>2. ack_list[ListAhead(1)] = <<>>
    BY <1>5, <1>6, <1>7, <1>8, <1>10 DEF EmptyAckLists
  <2>3. ack_list' = [k \in ListId |-> IF k = ListAhead(1) THEN <<>> ELSE ack_list[k]]
    BY <1>6, <2>1, <2>2
  <2> QED
    BY <1>3, <1>4, <1>6, <2>1, <2>2, <2>3 DEF i, HandledAndRaised
<1> QED
  BY <1>9, <1>10

LEMMA BeaconKeeps == IInv /\ SendBeacon /\ halted' = halted => IInv'
<1> SUFFICES ASSUME IInv, SendBeacon, halted' = halted PROVE IInv'
  OBVIOUS
<1> DEFINE D == PACKED_ACK_DELAY_NUM
<1>1. /\ ListAhead(1) \in ListId
      /\ beacon_seq_id' = NextBeaconSeq(beacon_seq_id)
      /\ cur_list_id' = packed_ack_ticktock
      /\ ack_list' = [k \in ListId |-> IF k = ListAhead(1) THEN <<>> ELSE ack_list[k]]
      /\ signals' \subseteq signals
      /\ UNCHANGED <<state, rx_buffer, packed_ack_delay_num>>
      /\ packed_ack_delay_num = D
  BY BeaconSteps
<1>2. /\ cur_list_id' \in CurListId /\ cur_list_id' # -D
      /\ \A k \in 1..D : ListAhead(k)' = IF k < D THEN ListAhead(k + 1) ELSE ListAhead(1)
  BY <1>1, Ticktock DEF IInv
<1>3. beacon_seq_id \in BeaconSeqNum /\ beacon_seq_id' \in BeaconSeqNum
  BY <1>1, NextBeaconSeqType DEF IInv, AckType
<1>4. AckType' /\ DelayKnown' /\ FrameToRead' /\ EmptyUntilValid'
  BY <1>1, <1>2, <1>3 DEF IInv, AckType, DelayKnown, FrameToRead, EmptyUntilValid
<1>5. ASSUME NEW k \in 1..D, NEW n \in DOMAIN ack_list[ListAhead(k)]
      PROVE  LET bcn == ack_list[ListAhead(k)][n].bcn
             IN  /\ bcn \in BeaconSeqNum /\ calc_expected_beacon_seq_id(bcn, D) \in BeaconSeqNum
                 /\ calc_bcn_seq_delta(calc_expected_beacon_seq_id(bcn, D), beacon_seq_id') = k - 1
  <2> DEFINE bcn == ack_list[ListAhead(k)][n].bcn
             expected == calc_expected_beacon_seq_id(bcn, D)
  <2>1. ListAhead(k) \in ListId
    BY Turns DEF ListAhead, IInv, AckType
  <2>2. bcn \in BeaconSeqNum
    <3>1. ack_list[ListAhead(k)] \in Seq(Ack)
      BY <2>1 DEF IInv, AckType
    <3>2. ack_list[ListAhead(k)][n] \in Ack
      BY <1>5, <3>1
    <3> QED
      BY <3>2 DEF Ack
  <2>3. expected \in BeaconSeqNum
    BY <2>2, ExpectedType, Delays
  <2>4. calc_bcn_seq_delta(expected, beacon_seq_id) = k
    BY <1>5 DEF IInv, DueInTurn, DueIn
  <2>5. k > 0 /\ k <= BEACON_MAX_SEQ_NUM \div 2
    BY Delays, BeaconMaxSeqNumAssumption
  <2>6. calc_bcn_seq_delta(expected, NextBeaconSeq(beacon_seq_id)) = k - 1
    BY <1>3, <2>3, <2>4, <2>5, CountingApproachesExpected
  <2> QED
    BY <1>1, <2>2, <2>3, <2>6
<1>6. DueInTurn'
  <2> SUFFICES ASSUME NEW k \in 1..D, NEW n \in DOMAIN ack_list'[ListAhead(k)']
               PROVE  calc_bcn_seq_delta(
                          calc_expected_beacon_seq_id(ack_list'[ListAhead(k)'][n].bcn, D),
                          beacon_seq_id') = k
    BY DEF DueInTurn, DueIn
  <2>1. k = D => ack_list'[ListAhead(k)'] = <<>>
    BY <1>1, <1>2
  <2>2. k < D /\ k + 1 \in 1..D
    BY <2>1, Delays
  <2>3. /\ ListAhead(k)' = ListAhead(k + 1) /\ ListAhead(k + 1) \in ListId
        /\ ListAhead(k + 1) # ListAhead(1)
    BY <1>2, <2>2, Turns, Delays DEF ListAhead, IInv, AckType
  <2>4. ack_list'[ListAhead(k)'] = ack_list[ListAhead(k + 1)]
    BY <1>1, <2>3
  <2>5. (k + 1) - 1 = k
    OBVIOUS
  <2> QED
    BY <1>5, <2>2, <2>4, <2>5
<1>7. AckOnTime'
  <2> SUFFICES ASSUME NEW n \in DOMAIN beacon'.acks
               PROVE  beacon'.seq = calc_expected_beacon_seq_id(beacon'.acks[n].bcn, D)
    BY DEF AckOnTime
  <2> DEFINE bcn == ack_list[ListAhead(1)][n].bcn
             expected == calc_expected_beacon_seq_id(bcn, D)
  <2>1. /\ n \in DOMAIN ack_list[ListAhead(1)] /\ beacon'.acks[n].bcn = bcn
        /\ beacon'.seq = beacon_seq_id'
    BY BeaconSteps
  <2>2. 1 \in 1..D /\ 1 - 1 = 0
    BY Delays
  <2>3. expected \in BeaconSeqNum /\ calc_bcn_seq_delta(expected, beacon_seq_id') = 0
    BY <1>5, <2>1, <2>2
  <2> QED
    BY <1>3, <2>1, <2>3, DeltaZeroOnlyIfEqual
<1> QED
  BY <1>4, <1>6, <1>7 DEF IInv

----------------------------------------------------------------------------
(* The theorems                                                           *)

LEMMA InitInvariant == Init => IInv
<1> SUFFICES ASSUME Init PROVE IInv
  OBVIOUS
<1>1. AckType
  BY Delays, BeaconMaxSeqNumAssumption
     DEF Init, AckType, CurListId, EmptyAckLists, BeaconSeqNum, BEACON_OVERFLOW_SEQ_NUM
<1>2. DelayKnown /\ FrameToRead /\ AckOnTime
  BY DEF Init, DelayKnown, FrameToRead, AckOnTime
<1>3. EmptyUntilValid
  BY Delays DEF Init, EmptyUntilValid
<1>4. DueInTurn
  <2> SUFFICES ASSUME NEW k \in 1..PACKED_ACK_DELAY_NUM PROVE ack_list[ListAhead(k)] = <<>>
    BY DEF DueInTurn
  <2> QED
    BY <1>1, Turns DEF ListAhead, AckType, Init, EmptyAckLists
<1> QED
  BY <1>1, <1>2, <1>3, <1>4 DEF IInv

\* Every step keeps the distance of all ACKs to their beacons.
THEOREM Invariance == Spec => []IInv
<1>1. IInv /\ [Next]_vars => IInv'
  BY Steps, QuietKeeps, StartedKeeps, BeaconKeeps, UplinkKeeps
<1> QED
  BY <1>1, InitInvariant, PTL DEF Spec

\* Every ACK goes out with the beacon that its device computes, at any length
\* of the lollipop: on the stick, at the wrap and after a restart.
THEOREM AcksOnTime == Spec => []AckOnTime
<1>1. IInv => AckOnTime
  BY DEF IInv
<1> QED
  BY <1>1, Invariance, PTL

----------------------------------------------------------------------------
(* The delay line of AckService                                           *)

Owed == [k \in 1..PACKED_ACK_DELAY_NUM |-> Addresses(ack_list[ListAhead(k)])]
Sent == Addresses(beacon.acks)

LEMMA EmptyListsOweNothing ==
    ASSUME NEW cur \in CurListId
    PROVE  [k \in 1..PACKED_ACK_DELAY_NUM |->
               Addresses(EmptyAckLists[(cur + k) % PACKED_ACK_DELAY_NUM])] = Service!NothingOwed
<1>1. \A k \in 1..PACKED_ACK_DELAY_NUM : EmptyAckLists[(cur + k) % PACKED_ACK_DELAY_NUM] = <<>>
  BY Turns DEF EmptyAckLists
<1> QED
  BY <1>1, NoAddresses DEF Service!NothingOwed, Service!Delay

LEMMA InitImplements == Init => Service!Init
<1> SUFFICES ASSUME Init PROVE Service!Init
  OBVIOUS
<1>1. cur_list_id \in CurListId /\ ack_list = EmptyAckLists
  BY InitInvariant DEF IInv, AckType, Init
<1>2. beacon.acks = <<>>
  BY DEF Init
<1> QED
  BY <1>1, <1>2, EmptyListsOweNothing, NoAddresses DEF Service!Init

LEMMA QuietImplements ==
    ASSUME Quiet
    PROVE  Owed' = Owed /\ Sent' = Sent
<1>1. UNCHANGED <<cur_list_id, ack_list, beacon>>
  BY DEF Quiet
<1> QED
  BY <1>1 DEF Owed, Sent, ListAhead, Addresses

LEMMA RestartImplements ==
    ASSUME Started
    PROVE  Owed' = Service!NothingOwed /\ Sent' = Sent
<1>1. cur_list_id' = -PACKED_ACK_DELAY_NUM /\ ack_list' = EmptyAckLists /\ beacon' = beacon
  BY DEF Started
<1>2. -PACKED_ACK_DELAY_NUM \in CurListId
  BY Delays DEF CurListId
<1> QED
  BY <1>1, <1>2, EmptyListsOweNothing DEF Owed, Sent, ListAhead, Addresses

LEMMA BeaconImplements ==
    ASSUME IInv, SendBeacon, halted' = halted
    PROVE  /\ Sent' = Owed[1]
           /\ Owed' = [k \in 1..PACKED_ACK_DELAY_NUM |->
                          IF k < PACKED_ACK_DELAY_NUM THEN Owed[k + 1] ELSE <<>>]
<1> DEFINE D == PACKED_ACK_DELAY_NUM
           acks == ack_list[ListAhead(1)]
<1>1. /\ ListAhead(1) \in ListId
      /\ ack_list' = [k \in ListId |-> IF k = ListAhead(1) THEN <<>> ELSE ack_list[k]]
      /\ beacon'.acks = [k \in DOMAIN acks |-> beacon'.acks[k]]
      /\ \A k \in DOMAIN acks : beacon'.acks[k].addr = acks[k].addr
      /\ cur_list_id' = packed_ack_ticktock /\ packed_ack_delay_num = D
  BY BeaconSteps
<1>2. \A k \in 1..D : ListAhead(k)' = IF k < D THEN ListAhead(k + 1) ELSE ListAhead(1)
  BY <1>1, Ticktock DEF IInv
<1>3. Sent' = Owed[1]
  <2>1. DOMAIN beacon'.acks = DOMAIN acks
    BY <1>1
  <2>2. Addresses(beacon'.acks) = Addresses(acks)
    BY <1>1, <2>1 DEF Addresses
  <2> QED
    BY <2>2, Delays DEF Sent, Owed, Addresses
<1>4. ASSUME NEW k \in 1..D
      PROVE  Addresses(ack_list'[ListAhead(k)']) = IF k < D THEN Owed[k + 1] ELSE <<>>
  <2>1. CASE k < D
    <3>1. k + 1 \in 1..D /\ ListAhead(k)' = ListAhead(k + 1)
      BY <1>2, <2>1, Delays
    <3>2. ListAhead(k + 1) \in ListId /\ ListAhead(k + 1) # ListAhead(1)
      BY <2>1, <3>1, Turns, Delays DEF ListAhead, IInv, AckType
    <3>3. ack_list'[ListAhead(k)'] = ack_list[ListAhead(k + 1)]
      BY <1>1, <3>1, <3>2
    <3> QED
      BY <2>1, <3>1, <3>3 DEF Owed
  <2>2. CASE ~(k < D)
    BY <1>1, <1>2, <2>2, NoAddresses
  <2> QED
    BY <2>1, <2>2
<1>5. Owed' = [k \in 1..D |-> Addresses(ack_list'[ListAhead(k)'])]
  BY DEF Owed, Addresses
<1>6. Owed' = [k \in 1..D |-> IF k < D THEN Owed[k + 1] ELSE <<>>]
  BY <1>4, <1>5
<1> QED
  BY <1>3, <1>6

LEMMA UplinkImplements ==
    ASSUME IInv, HandleUplinkFrame
    PROVE  \/ Owed' = Owed /\ Sent' = Sent
           \/ \E d \in Device : Service!Receive(d)
<1> DEFINE D == PACKED_ACK_DELAY_NUM
           i == ListAhead(D)
<1>1. UNCHANGED <<cur_list_id, beacon>>
  BY DEF HandleUplinkFrame, info
<1>2. Sent' = Sent /\ \A k : ListAhead(k)' = ListAhead(k)
  BY <1>1 DEF Sent, Addresses, ListAhead
<1>3. Owed' = [k \in 1..D |-> Addresses(ack_list'[ListAhead(k)])]
  BY <1>2 DEF Owed, Addresses
<1>4. CASE ack_list' = ack_list
  BY <1>2, <1>3, <1>4 DEF Owed
<1>5. CASE /\ Len(ack_list[i]) < GATEWAY_MAX_UPLINK_MSG_PER_BEACON_PERIOD
           /\ ack_list' = [ack_list EXCEPT ![i] = Append(@, rx_buffer)]
  <2>1. i \in ListId /\ rx_buffer \in Ack /\ D \in 1..D
    BY ExpectedList, Delays
  <2>2. ack_list[i] \in Seq(Ack) /\ ack_list \in [ListId -> Seq(Ack)]
    BY <2>1 DEF IInv, AckType
  <2>3. rx_buffer.addr \in Device
    BY <2>1 DEF Ack
  <2>4. /\ Len(Addresses(ack_list[i])) = Len(ack_list[i])
        /\ Addresses(Append(ack_list[i], rx_buffer))
              = Append(Addresses(ack_list[i]), rx_buffer.addr)
    BY <2>1, <2>2, AddressesAppend
  <2>5. ASSUME NEW k \in 1..D
        PROVE  Addresses(ack_list'[ListAhead(k)])
                 = IF k = D THEN Append(Owed[D], rx_buffer.addr) ELSE Owed[k]
    <3>1. CASE k = D
      <4>1. ack_list'[i] = Append(ack_list[i], rx_buffer)
        BY <1>5, <2>1, <2>2
      <4>2. Owed[D] = Addresses(ack_list[i])
        BY <2>1 DEF Owed
      <4> QED
        BY <2>4, <3>1, <4>1, <4>2
    <3>2. CASE k # D
      <4>1. ListAhead(k) # i /\ ListAhead(k) \in ListId
        BY <3>2, Turns, Delays DEF ListAhead, IInv, AckType
      <4>2. ack_list'[ListAhead(k)] = ack_list[ListAhead(k)]
        BY <1>5, <2>2, <4>1
      <4> QED
        BY <3>2, <4>2 DEF Owed
    <3> QED
      BY <3>1, <3>2
  <2>6. Owed' = [Owed EXCEPT ![D] = Append(@, rx_buffer.addr)]
    <3>1. Owed' = [k \in 1..D |-> IF k = D THEN Append(Owed[D], rx_buffer.addr) ELSE Owed[k]]
      BY <1>3, <2>5
    <3>2. Owed = [k \in 1..D |-> Owed[k]]
      BY DEF Owed
    <3> QED
      BY <2>1, <3>1, <3>2
  <2>7. Len(Owed[D]) < GATEWAY_MAX_UPLINK_MSG_PER_BEACON_PERIOD
    BY <1>5, <2>1, <2>4 DEF Owed
  <2>8. Service!Receive(rx_buffer.addr)
    BY <1>2, <2>6, <2>7 DEF Service!Receive, Owed, Sent, ListAhead
  <2> QED
    BY <2>3, <2>8
<1> QED
  BY <1>4, <1>5, UplinkSteps

LEMMA StepImplements == IInv /\ [Next]_vars => [Service!Next]_(Service!vars)
<1> SUFFICES ASSUME IInv, [Next]_vars PROVE [Service!Next]_(Service!vars)
  OBVIOUS
<1>1. CASE Quiet
  BY <1>1, QuietImplements DEF Service!vars, Owed, Sent, ListAhead
<1>2. CASE Started
  BY <1>2, RestartImplements DEF Service!Next, Service!Restart, Owed, Sent, ListAhead
<1>3. CASE SendBeacon /\ halted' = halted
  <2>1. Service!Beacon
    BY <1>3, BeaconImplements DEF Service!Beacon, Service!Delay, Owed, Sent, ListAhead
  <2> QED
    BY <2>1 DEF Service!Next
<1>4. CASE HandleUplinkFrame
  BY <1>4, UplinkImplements DEF Service!Next, Service!vars, Owed, Sent, ListAhead
<1> QED
  BY <1>1, <1>2, <1>3, <1>4, Steps

\* The lists that take turns, the signs of the current list's number and the
\* restarts implement the delay line: the ACK of a frame is never dropped nor
\* sent twice, and no period has more than its share.
THEOREM GatewayImplementsAckService == Spec => ImplementsService
<1>1. Init => Service!Init
  BY InitImplements
<1>2. IInv /\ [Next]_vars => [Service!Next]_(Service!vars)
  BY StepImplements
<1> QED
  BY <1>1, <1>2, Invariance, PTL DEF Spec, ImplementsService, Service!Spec
=============================================================================
