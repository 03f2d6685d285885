----------------------------- MODULE GatewayMac -----------------------------
(***************************************************************************)
(* The gateway's MAC engine (gateway/mac_engine.c), the packed ACKs and    *)
(* downlink frames it keeps (packed_ack_frames_mgmt.c), and as much of the *)
(* radio, the timers and the engine's driver as it interacts with.         *)
(*                                                                         *)
(* Once per beacon period the engine sends a beacon with the ACKs of the   *)
(* frames received PACKED_ACK_DELAY_NUM periods ago, then the downlink     *)
(* frames that these ACKs have announced, and listens for the rest of the  *)
(* period.  ACKs and downlink frames are kept in PACKED_ACK_DELAY_NUM      *)
(* lists; the current one is that of the current beacon.                   *)
(*                                                                         *)
(* The kernel runs one process at a time, the one with the highest         *)
(* priority that has a signal pending: first the radio controller, then    *)
(* the engine, then the driver and the host interface.  The engine handles *)
(* one pending signal per run, in an order of its own.                     *)
(***************************************************************************)
EXTENDS BeaconSeq, Sequences, FiniteSets, SequencesExt

CONSTANTS
    Device,                   \* end devices: their short address or short UUID
    Fbuf,                     \* the blocks of gl_downlink_frames_pool
    NoFrame,                  \* NULL
    PACKED_ACK_DELAY_NUM,
    GATEWAY_MAX_UPLINK_MSG_PER_BEACON_PERIOD,
    ChannelUpdates            \* whether the host changes the channel

\* The code's delay is 2.  With more than 2 the -1 that marks an invalid list
\* would no longer be the only negative remainder.  The lists take turns and so
\* do the beacon numbers; the wrap of the latter must not change whose turn it
\* is.
ASSUME GatewayMacAssumption ==
    /\ IsFiniteSet(Fbuf) /\ NoFrame \notin Fbuf /\ NoFrame \notin Device
    /\ PACKED_ACK_DELAY_NUM \in 1..2
    /\ PACKED_ACK_DELAY_NUM <= BEACON_MAX_SEQ_NUM \div 2
    /\ (BEACON_MAX_SEQ_NUM + 1) % PACKED_ACK_DELAY_NUM = 0
    /\ GATEWAY_MAX_UPLINK_MSG_PER_BEACON_PERIOD \in Nat \ {0}
    /\ ChannelUpdates \in BOOLEAN

VARIABLES
    state,                  \* gl_gw_mac_engine_state
    signals,                \* the engine's pending signals
    beacon_timer,           \* gl_beacon_timer runs
    timeout_timer,          \* gl_timeout_timer runs
    rlc,                    \* the radio controller's state
    rx_buffer,              \* gl_radio_rx_buffer
    beacon_seq_id,
    packed_ack_delay_num,   \* 0 until the engine is started
    cur_list_id,
    ack_list,               \* the packed ACKs, by list
    buf,                    \* the downlink frames: pool, lists and counters
    cur_tx,                 \* gl_cur_tx_downlink_fbuf, NoFrame once it is freed
    beacon,                 \* gl_gw_mac_tx_beacon_buf: the last beacon made
    slots_downlink_msg,     \* of bcn_info.ratio, in frames
    halted                  \* the assertion that stopped the gateway

timers == <<beacon_timer, timeout_timer>>
radio  == <<rlc, rx_buffer>>
info   == <<beacon_seq_id, packed_ack_delay_num, cur_list_id, slots_downlink_msg>>
frames == <<ack_list, buf>>
vars   == <<state, signals, timers, radio, info, frames, cur_tx, beacon, halted>>

ListId == 0..(PACKED_ACK_DELAY_NUM - 1)

Signal == {"ENGINE_START", "UPDATE_MODEM_CHANNEL", "SEND_BEACON",
           "TX_DOWNLINK_FRAME", "BEGIN_RX_UPLINK",
           "RLC_TX_OK", "RLC_TX_FAILED", "RLC_RX_OK"}

\* An ACK, with the beacon of the frame that it confirms (history).
Ack == [addr : Device, bcn : BeaconSeqNum]

\* A downlink frame, with the beacon that it was put for (history).
Frame == [dest : Device, due : BeaconSeqNum]

TypeOK ==
    /\ state \in {"INITED", "TX_BEACON", "TX_DOWNLINK", "RX_UPLINK"}
    /\ signals \subseteq Signal
    /\ beacon_timer \in BOOLEAN /\ timeout_timer \in BOOLEAN
    /\ rlc \in {"IDLE", "TX", "RX"}
    /\ rx_buffer \in Ack \cup {NoFrame}
    /\ beacon_seq_id \in BeaconSeqNum
    /\ packed_ack_delay_num \in {0, PACKED_ACK_DELAY_NUM}
    /\ cur_list_id \in -PACKED_ACK_DELAY_NUM..(PACKED_ACK_DELAY_NUM - 1)
    /\ ack_list \in [ListId -> Seq(Ack)]
    /\ \A i \in ListId : Len(ack_list[i]) <= GATEWAY_MAX_UPLINK_MSG_PER_BEACON_PERIOD
    /\ buf \in [flist : [ListId -> Seq(Fbuf)], list_len : [ListId -> Nat],
                tx_list : Seq(Fbuf), tx_list_len : Nat,
                used : SUBSET Fbuf, fbuf : [Fbuf -> Frame \cup {NoFrame}]]
    /\ cur_tx \in Fbuf \cup {NoFrame}
    /\ beacon \in [seq : BeaconSeqNum,
                   acks : Seq([addr : Device, bcn : BeaconSeqNum, pending : BOOLEAN])]
    /\ slots_downlink_msg \in 0..GATEWAY_MAX_UPLINK_MSG_PER_BEACON_PERIOD
    /\ halted \in {"no", "WrongSignal", "RadioBusy", "TimerRunning", "NotInTxList"}

EmptyAckLists == [i \in ListId |-> <<>>]

Init ==
    /\ state = "INITED" /\ signals = {}
    /\ beacon_timer = FALSE /\ timeout_timer = FALSE
    /\ rlc = "IDLE" /\ rx_buffer = NoFrame
    /\ beacon_seq_id = 0 /\ packed_ack_delay_num = 0 /\ cur_list_id = 0
    /\ slots_downlink_msg = 0
    /\ ack_list = EmptyAckLists
    /\ buf = [flist |-> [i \in ListId |-> <<>>], list_len |-> [i \in ListId |-> 0],
              tx_list |-> <<>>, tx_list_len |-> 0,
              used |-> {}, fbuf |-> [f \in Fbuf |-> NoFrame]]
    /\ cur_tx = NoFrame
    /\ beacon = [seq |-> 0, acks |-> <<>>]
    /\ halted = "no"
-----------------------------------------------------------------------------
(* The downlink frames: functions from one value of buf to the next.       *)

\* The members of a list at the positions of I, in their order.
InOrder(I) ==
    CHOOSE p \in [1..Cardinality(I) -> I] : \A j, k \in DOMAIN p : j < k => p[j] < p[k]
At(list, I) == LET p == InOrder(I) IN [k \in DOMAIN p |-> list[p[k]]]

\* What list_del() of the members of S leaves of a list.
Without(list, S) == At(list, {n \in DOMAIN list : list[n] \notin S})

\* list_del() of the blocks of S and mem_pool_free_blk().
FreeBlocks(b, S) ==
    [b EXCEPT !.used = @ \ S, !.fbuf = [f \in Fbuf |-> IF f \in S THEN NoFrame ELSE @[f]]]

downlink_frame_clear_tx_list(b) ==
    [FreeBlocks(b, Range(b.tx_list)) EXCEPT !.tx_list = <<>>, !.tx_list_len = 0]

\* downlink_frame_clear_list(), of each of the lists of S that has a frame.
downlink_frame_clear_lists(b, S) ==
    LET cleared == {i \in S : b.list_len[i] > 0}
        blocks  == UNION {Range(b.flist[i]) : i \in cleared}
    IN  [FreeBlocks(b, blocks) EXCEPT
            !.flist    = [i \in ListId |-> IF i \in cleared THEN <<>> ELSE @[i]],
            !.list_len = [i \in ListId |-> IF i \in cleared THEN 0 ELSE @[i]]]

\* The list of the beacon tx_bcn_seq_id, or -1.  C's % keeps the sign of a
\* sum that is negative, and so does the result.
ListOfNextBeacon(tx_bcn_seq_id) ==
    IF cur_list_id + 1 < 0 THEN -1 ELSE (cur_list_id + 1) % packed_ack_delay_num
calc_downlink_expected_list_id(tx_bcn_seq_id) ==
    LET delta == calc_bcn_seq_delta(tx_bcn_seq_id, beacon_seq_id)
    IN  IF delta \in 1..PACKED_ACK_DELAY_NUM /\ cur_list_id + delta >= 0
        THEN (cur_list_id + delta) % packed_ack_delay_num
        ELSE -1

\* Frames of list i are moved to the tail of the tx list.
MoveToHead(b, i, moved) ==
    [b EXCEPT !.flist[i] = Without(@, Range(moved)),
              !.list_len[i] = @ - Len(moved),
              !.tx_list = Reverse(moved) \o @, !.tx_list_len = @ + Len(moved)]
MoveToTxList(b, i, moved) ==
    [b EXCEPT !.flist[i] = Without(@, Range(moved)),
              !.list_len[i] = @ - Len(moved),
              !.tx_list = @ \o moved, !.tx_list_len = @ + Len(moved)]

\* downlink_frames_check(): an ACK announces the first frame for its device
\* that no ACK before it has announced, if there is one.
downlink_frames_check(b, i, acks, k) ==
    LET list == b.flist[i]
        frames_for == {m \in DOMAIN list : b.fbuf[list[m]].dest = acks[k].addr}
        n == Cardinality({m \in 1..k : acks[m].addr = acks[k].addr})
    IN  IF b.list_len[i] > 0 /\ n <= Cardinality(frames_for)
        THEN list[InOrder(frames_for)[n]] ELSE NoFrame
-----------------------------------------------------------------------------
Running == halted = "no"

\* A haddock_assert() whose condition does not hold.
Halt(assertion) ==
    /\ halted' = assertion
    /\ UNCHANGED <<state, signals, timers, radio, info, frames, cur_tx, beacon>>

\* The signals that the engine handles in each state, in the order in which its
\* entry looks for them.  Those of the driver come first.
BeaconBeforeFrame ==
    [INITED      |-> <<>>,
     TX_BEACON   |-> <<"SEND_BEACON", "RLC_TX_FAILED", "RLC_TX_OK">>,
     TX_DOWNLINK |-> <<"TX_DOWNLINK_FRAME", "RLC_TX_FAILED", "RLC_TX_OK">>,
     RX_UPLINK   |-> <<"BEGIN_RX_UPLINK", "SEND_BEACON", "RLC_RX_OK">>]
EntryOrder ==
    [INITED      |-> <<>>,
     TX_BEACON   |-> <<"SEND_BEACON", "RLC_TX_FAILED", "RLC_TX_OK">>,
     TX_DOWNLINK |-> <<"TX_DOWNLINK_FRAME", "RLC_TX_FAILED", "RLC_TX_OK">>,
     RX_UPLINK   |-> <<"BEGIN_RX_UPLINK", "RLC_RX_OK", "SEND_BEACON">>]
HandledSignals == <<"ENGINE_START", "UPDATE_MODEM_CHANNEL">> \o EntryOrder[state]

\* s is the signal that the next run of the engine handles.
Handles(s) ==
    /\ Running /\ s \in signals
    /\ \E n \in DOMAIN HandledSignals :
          HandledSignals[n] = s /\ \A k \in 1..(n - 1) : HandledSignals[k] \notin signals

\* `return signal ^ s`, with what the handler itself has raised.
HandledAndRaised(s, raised) == signals' = (signals \ {s}) \cup raised

\* No case of the entry takes any of the pending signals.  The INITED case,
\* which takes SEND_BEACON, never sees one: the engine does not become INITED
\* again, because nothing raises SIGNAL_MAC_DRIVER_STOP_ENGINE.
WrongSignal ==
    /\ Running /\ signals # {}
    /\ \A s \in signals : s \notin Range(HandledSignals)
    /\ Halt("WrongSignal")
-----------------------------------------------------------------------------
(* The host, the timers and the radio.                                     *)

\* The driver and the host interface run when the engine has nothing to do.
HostRuns == Running /\ signals = {}

HostStart ==
    /\ HostRuns /\ state = "INITED"
    /\ signals' = {"ENGINE_START"}
    /\ UNCHANGED <<state, timers, radio, info, frames, cur_tx, beacon, halted>>

HostUpdatesChannel ==
    /\ HostRuns /\ ChannelUpdates
    /\ signals' = {"UPDATE_MODEM_CHANNEL"}
    /\ UNCHANGED <<state, timers, radio, info, frames, cur_tx, beacon, halted>>

\* find_any_0_bit_uint32(): which block it is depends on those in use only.
AnyFree(b) == CHOOSE f \in Fbuf : f \notin b.used

\* gw_mac_prepare_tx_downlink_msg() and gw_mac_prepare_tx_join_confirm(), for
\* any beacon: the host's number may be old or wrong.
HostSendsDownlink(addr, tx_bcn_seq_id) ==
    LET list_id == calc_downlink_expected_list_id(tx_bcn_seq_id)
    IN  /\ HostRuns
        /\ gw_mac_is_valid_tx_bcn_seq_id(tx_bcn_seq_id, beacon_seq_id, packed_ack_delay_num)
        /\ list_id # -1
        /\ buf.used # Fbuf
        /\ LET f == AnyFree(buf)
           IN  buf' = [buf EXCEPT !.used = @ \cup {f},
                                  !.fbuf[f] = [dest |-> addr, due |-> tx_bcn_seq_id],
                                  !.flist[list_id] = Append(@, f),
                                  !.list_len[list_id] = @ + 1]
        /\ UNCHANGED <<state, signals, timers, radio, info, ack_list, cur_tx, beacon, halted>>

\* One beacon and the downlink frames it announces take 12 * 375 ms of the 8 s
\* of a period at most: the next beacon is due when they are done, and what the
\* radio reported of them has been handled.
BeaconTimerExpires ==
    /\ Running /\ beacon_timer
    /\ state \in {"TX_BEACON", "RX_UPLINK"} /\ rlc # "TX"
    /\ signals \subseteq {"UPDATE_MODEM_CHANNEL", "RLC_RX_OK"}
    /\ beacon_timer' = FALSE
    /\ signals' = signals \cup {"SEND_BEACON"}
    /\ UNCHANGED <<state, timeout_timer, radio, info, frames, cur_tx, beacon, halted>>

TimeoutTimerExpires ==
    /\ Running /\ timeout_timer
    /\ timeout_timer' = FALSE
    /\ signals' = signals \cup {"TX_DOWNLINK_FRAME"}
    /\ UNCHANGED <<state, beacon_timer, radio, info, frames, cur_tx, beacon, halted>>

\* The radio has sent the frame, or the channel was not free, or it timed out.
RadioTxDone ==
    /\ Running /\ rlc = "TX"
    /\ rlc' = "IDLE"
    /\ \E result \in {"RLC_TX_OK", "RLC_TX_FAILED"} : signals' = signals \cup {result}
    /\ UNCHANGED <<state, timers, rx_buffer, info, frames, cur_tx, beacon, halted>>

\* A frame is received that was sent in response to beacon bcn.  The engine
\* handles it before the next one ends.  No beacon has the initial number.
RadioRxDone(addr, bcn) ==
    /\ Running /\ rlc = "RX" /\ "RLC_RX_OK" \notin signals
    /\ bcn # InitialBeaconSeq
    /\ rx_buffer' = [addr |-> addr, bcn |-> bcn]
    /\ signals' = signals \cup {"RLC_RX_OK"}
    /\ UNCHANGED <<state, timers, rlc, info, frames, cur_tx, beacon, halted>>
-----------------------------------------------------------------------------
(* The engine: signals of the driver.                                      *)

\* gateway_mac_engine_start(), with the timers and the radio all stopped.
Started ==
    /\ state' = "TX_BEACON"
    /\ beacon_timer' = TRUE /\ timeout_timer' = FALSE /\ rlc' = "IDLE"
    /\ beacon_seq_id' = InitialBeaconSeq
    /\ packed_ack_delay_num' = PACKED_ACK_DELAY_NUM
    /\ cur_list_id' = -PACKED_ACK_DELAY_NUM
    /\ slots_downlink_msg' = 0
    /\ ack_list' = EmptyAckLists
    /\ buf' = downlink_frame_clear_lists(downlink_frame_clear_tx_list(buf), ListId)
    /\ cur_tx' = NoFrame
    /\ UNCHANGED <<rx_buffer, beacon, halted>>

EngineStart ==
    /\ Handles("ENGINE_START")
    /\ HandledAndRaised("ENGINE_START", {})
    /\ IF state = "INITED" THEN Started
       ELSE UNCHANGED <<state, timers, radio, info, frames, cur_tx, beacon, halted>>

\* gateway_mac_engine_stop() and gateway_mac_engine_start(), if the channel is
\* another one and the engine has started.  The pending signals stay.
UpdateModemChannel ==
    /\ Handles("UPDATE_MODEM_CHANNEL")
    /\ HandledAndRaised("UPDATE_MODEM_CHANNEL", {})
    /\ \/ state # "INITED" /\ Started
       \/ UNCHANGED <<state, timers, radio, info, frames, cur_tx, beacon, halted>>
-----------------------------------------------------------------------------
(* The engine: the beacon.                                                 *)

packed_ack_ticktock ==
    IF cur_list_id + 1 >= packed_ack_delay_num THEN 0 ELSE cur_list_id + 1

\* The ratio of the beacon is changed when there are downlink frames only: the
\* next beacons go on announcing their slots.
SlotsAnnounced(b) == IF b.tx_list_len > 0 THEN b.tx_list_len ELSE slots_downlink_msg

\* The ACKs of list i, popped one by one.  What is left of the downlink list is
\* freed, by a beacon that has ACKs only.
construct_gateway_beacon_packed_ack(i) ==
    LET acks == ack_list[i]
    IN  \E found \in [DOMAIN acks -> Fbuf \cup {NoFrame}] :
          /\ \A k \in DOMAIN acks : found[k] = downlink_frames_check(buf, i, acks, k)
          /\ LET moved == At(found, {k \in DOMAIN acks : found[k] # NoFrame})
             IN  buf' = downlink_frame_clear_lists(MoveToTxList(buf, i, moved), {i})
          /\ ack_list' = [ack_list EXCEPT ![i] = <<>>]
          /\ beacon' = [seq  |-> beacon_seq_id',
                        acks |-> [k \in DOMAIN acks |->
                                     [addr |-> acks[k].addr, bcn |-> acks[k].bcn,
                                      pending |-> found[k] # NoFrame]]]

SendBeacon ==
    LET i == packed_ack_ticktock
    IN  /\ state = "TX_BEACON" /\ Handles("SEND_BEACON")
        /\ IF rlc = "TX" THEN Halt("RadioBusy")
           ELSE IF beacon_timer THEN Halt("TimerRunning")
           ELSE /\ beacon_timer' = TRUE
                /\ beacon_seq_id' = NextBeaconSeq(beacon_seq_id)
                /\ cur_list_id' = i
                /\ IF i >= 0 /\ ack_list[i] # <<>>
                   THEN construct_gateway_beacon_packed_ack(i)
                   ELSE /\ beacon' = [seq |-> beacon_seq_id', acks |-> <<>>]
                        /\ UNCHANGED frames
                /\ slots_downlink_msg' = SlotsAnnounced(buf')
                /\ rlc' = "TX"
                /\ HandledAndRaised("SEND_BEACON", {})
                /\ UNCHANGED <<state, timeout_timer, rx_buffer, packed_ack_delay_num,
                               cur_tx, halted>>

\* The beacon was not sent: nobody will listen to what it announced.
BeaconFailed ==
    /\ state = "TX_BEACON" /\ Handles("RLC_TX_FAILED")
    /\ buf' = downlink_frame_clear_tx_list(buf)
    /\ HandledAndRaised("RLC_TX_FAILED", {})
    /\ UNCHANGED <<state, timers, radio, info, ack_list, cur_tx, beacon, halted>>

\* gw_mac_do_continue_tx_or_begin_rx(), after signal s: the slot of the last
\* transmission is over already, or the rest of it is waited for.
ContinueTxOrBeginRx(s, b) ==
    IF b.tx_list_len = 0
    THEN /\ state' = "RX_UPLINK"
         /\ HandledAndRaised(s, {"BEGIN_RX_UPLINK"})
         /\ UNCHANGED <<timers, halted>>
    ELSE /\ state' = "TX_DOWNLINK"
         /\ \/ HandledAndRaised(s, {"TX_DOWNLINK_FRAME"}) /\ UNCHANGED <<timers, halted>>
            \/ /\ HandledAndRaised(s, {})
               /\ IF timeout_timer THEN halted' = "TimerRunning" /\ UNCHANGED timers
                  ELSE timeout_timer' = TRUE /\ UNCHANGED <<beacon_timer, halted>>

BeaconOk ==
    /\ state = "TX_BEACON" /\ Handles("RLC_TX_OK")
    /\ ContinueTxOrBeginRx("RLC_TX_OK", buf)
    /\ UNCHANGED <<radio, info, frames, cur_tx, beacon>>
-----------------------------------------------------------------------------
(* The engine: downlink frames.                                            *)

TxDownlinkFrame ==
    /\ state = "TX_DOWNLINK" /\ Handles("TX_DOWNLINK_FRAME")
    /\ IF buf.tx_list = <<>> THEN Halt("NotInTxList")
       ELSE IF rlc # "IDLE" THEN Halt("RadioBusy")
       ELSE /\ cur_tx' = Head(buf.tx_list)
            /\ rlc' = "TX"
            /\ HandledAndRaised("TX_DOWNLINK_FRAME", {})
            /\ UNCHANGED <<state, timers, rx_buffer, info, frames, beacon, halted>>

\* The frame is freed in either case: there are no retries.
WithoutFree(b, f) ==
    [b EXCEPT !.tx_list = Without(@, {f}), !.tx_list_len = @ - 1]
SentOrFailed(b, f) ==
    [FreeBlocks(b, {f}) EXCEPT !.tx_list = Without(@, {f}), !.tx_list_len = @ - 1]

DownlinkDone(result) ==
    /\ state = "TX_DOWNLINK" /\ Handles(result)
    /\ IF cur_tx \notin Range(buf.tx_list) THEN Halt("NotInTxList")
       ELSE /\ buf' = SentOrFailed(buf, cur_tx)
            /\ cur_tx' = NoFrame
            /\ ContinueTxOrBeginRx(result, buf')
            /\ UNCHANGED <<radio, info, ack_list, beacon>>
-----------------------------------------------------------------------------
(* The engine: uplink frames.                                              *)

BeginRxUplink ==
    /\ Handles("BEGIN_RX_UPLINK")
    /\ IF rlc # "IDLE" THEN Halt("RadioBusy")
       ELSE /\ rlc' = "RX"
            /\ HandledAndRaised("BEGIN_RX_UPLINK", {})
            /\ UNCHANGED <<state, timers, rx_buffer, info, frames, cur_tx, beacon, halted>>

\* A frame for this beacon gets an ACK while the list has room.
OfAnyBeacon(frame) == TRUE
IsOfThisBeacon(frame) == frame.bcn = beacon_seq_id
LastList == (cur_list_id + packed_ack_delay_num - 1) % packed_ack_delay_num
packed_ack_expected_list_id ==
    (cur_list_id + packed_ack_delay_num) % packed_ack_delay_num

HandleUplinkFrame ==
    LET i == packed_ack_expected_list_id
    IN  /\ Handles("RLC_RX_OK")
        /\ ack_list' = IF /\ IsOfThisBeacon(rx_buffer)
                          /\ Len(ack_list[i]) < GATEWAY_MAX_UPLINK_MSG_PER_BEACON_PERIOD
                       THEN [ack_list EXCEPT ![i] = Append(@, rx_buffer)]
                       ELSE ack_list
        /\ rx_buffer' = NoFrame
        /\ HandledAndRaised("RLC_RX_OK", {})
        /\ UNCHANGED <<state, timers, rlc, info, buf, cur_tx, beacon, halted>>

\* The beacon period is over: SEND_BEACON is raised again, for TX_BEACON.
StopRx ==
    /\ state = "RX_UPLINK" /\ Handles("SEND_BEACON")
    /\ IF rlc = "TX" THEN Halt("RadioBusy")
       ELSE /\ rlc' = "IDLE"
            /\ state' = "TX_BEACON"
            /\ HandledAndRaised("SEND_BEACON", {"SEND_BEACON"})
            /\ UNCHANGED <<timers, rx_buffer, info, frames, cur_tx, beacon, halted>>
-----------------------------------------------------------------------------
Engine ==
    \/ EngineStart \/ UpdateModemChannel
    \/ SendBeacon \/ BeaconFailed \/ BeaconOk
    \/ TxDownlinkFrame \/ DownlinkDone("RLC_TX_OK") \/ DownlinkDone("RLC_TX_FAILED")
    \/ BeginRxUplink \/ HandleUplinkFrame \/ StopRx
    \/ WrongSignal

Environment ==
    \/ HostStart \/ HostUpdatesChannel
    \/ \E addr \in Device, bcn \in BeaconSeqNum : HostSendsDownlink(addr, bcn)
    \/ BeaconTimerExpires \/ TimeoutTimerExpires
    \/ RadioTxDone
    \/ \E addr \in Device, bcn \in {beacon_seq_id, NextBeaconSeq(beacon_seq_id)} :
          RadioRxDone(addr, bcn)

Next == Engine \/ Environment

Spec == Init /\ [][Next]_vars

\* The engine runs when it has a signal, timers expire and the radio finishes.
\* A received frame is handled before a beacon that is due; the next one takes
\* longer to arrive than the engine needs for one signal, hence SF.
FairSpec ==
    /\ Spec
    /\ WF_vars(Engine) /\ WF_vars(BeaconTimerExpires) /\ WF_vars(TimeoutTimerExpires)
    /\ WF_vars(RadioTxDone) /\ SF_vars(StopRx)
-----------------------------------------------------------------------------
AllLists == UNION {Range(buf.flist[i]) : i \in ListId}

\* Every allocated block of the pool is in exactly one list, once, and every
\* counter is the length of its list: nothing leaks, nothing is freed twice,
\* and a list whose counter is zero has no frame that nobody clears.
Bookkeeping ==
    /\ buf.used = AllLists \cup Range(buf.tx_list)
    /\ IsInjective(buf.tx_list)
    /\ \A i \in ListId : /\ IsInjective(buf.flist[i])
                         /\ Range(buf.flist[i]) \cap Range(buf.tx_list) = {}
    /\ \A i, j \in ListId : i # j => Range(buf.flist[i]) \cap Range(buf.flist[j]) = {}
    /\ \A i \in ListId : buf.list_len[i] = Len(buf.flist[i])
    /\ buf.tx_list_len = Len(buf.tx_list)

\* Every ACK goes out with the beacon that its device computes from the number
\* of the beacon it answered: not a period earlier or later, on the stick, at
\* the wrap and after a restart.
AckOnTime ==
    \A k \in DOMAIN beacon.acks :
        beacon.seq = calc_expected_beacon_seq_id(beacon.acks[k].bcn, PACKED_ACK_DELAY_NUM)

\* The devices listen after a beacon as long as its ACKs have told them, and
\* send behind the slots that its ratio gives to downlink frames.  What is still
\* to be sent is what the last ACKs with "message pending" announced, in their
\* order, and it fits the slots: no frame is sent unannounced, out of its slot
\* or into those of the uplink (mac_engine.c:826, 954).
AnnouncedInOrder ==
    LET announced == At(beacon.acks, {k \in DOMAIN beacon.acks : beacon.acks[k].pending})
        to_send   == [k \in DOMAIN buf.tx_list |-> buf.fbuf[buf.tx_list[k]].dest]
        skipped   == Len(announced) - Len(to_send)
    IN  /\ skipped >= 0
        /\ \A k \in DOMAIN to_send : to_send[k] = announced[skipped + k].addr
        /\ Len(to_send) <= slots_downlink_msg

\* A downlink frame for one of the next beacons is in the list that becomes the
\* current one with that beacon.  When the beacon has come, the frame stays
\* behind only if the beacon had no ACKs: only then it is sent late, after some
\* later beacon of its list (mac_engine.c:969).
FramesInTheirList ==
    /\ \A i \in ListId : \A f \in Range(buf.flist[i]) :
           LET delta == calc_bcn_seq_delta(buf.fbuf[f].due, beacon_seq_id)
           IN  delta \in 1..PACKED_ACK_DELAY_NUM =>
                   i = (cur_list_id + delta) % PACKED_ACK_DELAY_NUM
    /\ cur_list_id >= 0 /\ beacon.acks # <<>> =>
           \A f \in Range(buf.flist[cur_list_id]) : buf.fbuf[f].due # beacon.seq

\* No assertion fails.
NoHang == halted = "no"

\* An engine that has started never stops counting and sending beacons,
\* whatever is received and however transmissions end.
KeepsBeaconing == []<>(state = "INITED") \/ []<><<TRUE>>_beacon_seq_id
-----------------------------------------------------------------------------
(* The ACK lists as a delay line.                                          *)

Addresses(acks) == [k \in DOMAIN acks |-> acks[k].addr]

Service == INSTANCE AckService WITH
    owed <- [k \in 1..PACKED_ACK_DELAY_NUM |->
                Addresses(ack_list[(cur_list_id + k) % PACKED_ACK_DELAY_NUM])],
    sent <- Addresses(beacon.acks)

\* The gateway implements the packed ACK service.
ImplementsService == Service!Spec
=============================================================================
