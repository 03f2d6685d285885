----------------------------- MODULE DeviceMac -----------------------------
(***************************************************************************)
(* An end device at work: its MAC engine (end_device/mac_engine.c), its    *)
(* beacon tracker (beacon_tracker.c) and the radio controller that both of *)
(* them use (radio_controller.c).                                          *)
(*                                                                         *)
(* They are three processes of the kernel.  A process runs when it has a   *)
(* signal, when no process before it has one, and to completion; a call of *)
(* its entry takes one signal and gives the others back.  Signals come     *)
(* from the other processes, from timers and from the radio.  An entry     *)
(* that finds no signal it knows in its state stops the device             *)
(* (__rx_wrong_signal), and so does an assertion that fails: `halted`      *)
(* names the reason.                                                       *)
(*                                                                         *)
(* Time is in the order in which timers may expire, see Expire.  The frame *)
(* buffers are those of TxFramesMgmt, seen from outside: how many messages *)
(* are to be sent, and in how many beacons the ACKs of the others are due. *)
(***************************************************************************)
EXTENDS Integers, Sequences, FiniteSets, Functions

CONSTANTS
    PACKED_ACK_DELAY_NUM, \* beacons from a frame to its packed ACK
    MaxMsgs               \* bound: messages in the device

ASSUME DeviceMacAssumption ==
    /\ PACKED_ACK_DELAY_NUM \in Nat \ {0}
    /\ MaxMsgs \in Nat

VARIABLES
    mac,         \* state of the MAC engine
    tracker,     \* gl_btracker_states
    radio,       \* gl_radio_controller_state
    caller,      \* gl_registered_caller_pid
    sig,         \* the signals of each process
    timer,       \* what each timer raises when it expires, or Off
    rx_buffer,   \* gl_radio_rx_buffer
    bcn,         \* the beacon parsed last, with the device's packed ACK
    expected,    \* btracker_info_base: what the tracker expects of the next beacon
    join_req,    \* the JOIN_REQ
    pending,     \* number of messages to send
    waiting,     \* in how many beacons the ACKs of sent messages are due
    tx_due,      \* the same of the message that is being sent
    halted,      \* why the device has stopped
    calm,        \* so far no join was denied and no timer came at a bad moment
    overtaken    \* the tracker has turned to a beacon while the engine was at work

frames == <<join_req, pending, waiting, tx_due>>
vars   == <<mac, tracker, radio, caller, sig, timer, rx_buffer, bcn, expected,
            frames, halted, calm, overtaken>>

\* In the order in which the scheduler looks at them.
Process == {"rlc", "btracker", "mac_engine"}
Before(p) == CASE p = "rlc" -> {} [] p = "btracker" -> {"rlc"}
               [] p = "mac_engine" -> {"rlc", "btracker"}

\* The engine's states; JOINING and JOINED with their substates.
Joining == {"SEARCH_BEACON", "BEACON_FOUND", "TX_JOIN_REQ", "RX_JOIN_CONFIRM"}
Joined  == {"IDLE", "RX_FRAME", "TX_FRAME"}
Transmitting == {"TX_JOIN_REQ", "TX_FRAME"}
Receiving    == {"RX_JOIN_CONFIRM", "RX_FRAME"}

TrackerState == {"INITED", "SEARCH_BEACON", "BEACON_FOUND",
                 "BCN_TRACKING", "BCN_TRACKING_SEARCH"}

Sending    == {"TX", "TX_CCA", "TX_ING"}
RadioState == {"IDLE", "RX"} \cup Sending

(***************************************************************************)
(* Signals.  The sequences give the order in which an entry tests for      *)
(* them.                                                                   *)
(***************************************************************************)
TxFailed == <<"RLC_TX_CCA_FAILED", "RLC_TX_CCA_CRC_FAIL", "RLC_TX_TIMEOUT">>
TxResult == {"RLC_TX_OK"} \cup Range(TxFailed)

mac_order == [
    INITED          |-> <<"INIT_FINISHED", "START_JOINING">>,
    SEARCH_BEACON   |-> <<"SEARCH_BEACON", "BEACON_NOT_FOUND", "BEACON_FOUND">>,
    BEACON_FOUND    |-> <<"BEACON_TRACKED", "TRACK_LOST_BEACON", "TRACK_FAILED">>,
    TX_JOIN_REQ     |-> <<"SEND_FRAME", "RLC_TX_OK">> \o TxFailed,
    RX_JOIN_CONFIRM |-> <<"RECV_FRAME", "RLC_RX_OK", "RLC_RX_DURATION_TIMEOUT", "RECV_TIMEOUT">>,
    IDLE            |-> <<"BEACON_TRACKED", "TRACK_LOST_BEACON", "TRACK_FAILED">>,
    RX_FRAME        |-> <<"RECV_FRAME", "RLC_RX_OK", "RLC_RX_DURATION_TIMEOUT", "RECV_TIMEOUT">>,
    TX_FRAME        |-> <<"SEND_FRAME", "RLC_TX_OK">> \o TxFailed]

tracker_order == [
    INITED              |-> <<"INIT_FINISHED">>,
    SEARCH_BEACON       |-> <<"SEARCH_TIMEOUT", "RLC_RX_DURATION_TIMEOUT", "RLC_RX_OK">>,
    BEACON_FOUND        |-> <<"BEGIN_BEACON_TRACKING">>,
    BCN_TRACKING        |-> <<"TRACK_BEACON", "RLC_RX_OK", "RLC_RX_DURATION_TIMEOUT", "TRACK_TIMEOUT">>,
    BCN_TRACKING_SEARCH |-> <<"BEGIN_TRACK_SEARCH", "RLC_RX_OK", "RLC_RX_DURATION_TIMEOUT",
                              "TRACK_SEARCH_TIMEOUT">>]

\* What the radio tells the controller, and what it expects in which state.
RadioEvent == {"RX_OK", "RX_CRC_ERROR", "RX_TIMEOUT", "TX_OK", "TX_TIMEOUT"}
radio_order == [
    RX     |-> <<"RX_OK", "RX_CRC_ERROR", "RX_TIMEOUT">>,
    TX_CCA |-> <<"RX_OK", "RX_CRC_ERROR", "RX_TIMEOUT">>,
    TX_ING |-> <<"TX_OK", "TX_TIMEOUT">>]
own_order == <<"INITED", "TX_START", "TX_RAND_WAIT_TIMEOUT", "RX_DURATION_TIMEOUT">>

SignalOf == [
    rlc        |-> RadioEvent \cup Range(own_order),
    btracker   |-> UNION {Range(tracker_order[s]) : s \in TrackerState},
    mac_engine |-> UNION {Range(mac_order[s]) : s \in DOMAIN mac_order}]

\* The reception that each of the two users bounds by a timer of its own.
Timeout == {"SEARCH_TIMEOUT", "TRACK_TIMEOUT", "TRACK_SEARCH_TIMEOUT", "RECV_TIMEOUT"}

(***************************************************************************)
(* gl_timeout_timer of the engine; btracker_timeout_timer and              *)
(* btracker_track_periodically_timer; radio_controller_timeout_timer.      *)
(***************************************************************************)
Timer == {"mac", "tracker", "periodic", "rlc"}
Owner == [mac |-> "mac_engine", tracker |-> "btracker", periodic |-> "btracker", rlc |-> "rlc"]
TimerOf == [mac_engine |-> "mac", btracker |-> "tracker"]
Off == "off"

\* Frames as their receivers tell them apart: a beacon of the gateway (of any
\* gateway during the search), an answer to the JOIN_REQ, a downlink frame
\* for this device, and everything else.
Frame == {"beacon", "confirmed", "denied", "downlink", "other"}

\* room: it leaves DE_MAC_ENGINE_MIN_UPLINK_SLOTS.  is_msg_pending: it holds an
\* ACK to this device, which says so.
Beacon == [is_join_allowed : BOOLEAN, room : BOOLEAN, is_msg_pending : BOOLEAN]
NoBeacon == [is_join_allowed |-> FALSE, room |-> FALSE, is_msg_pending |-> FALSE]
Expected == [is_check_packed_ack : BOOLEAN]

Due == 0..PACKED_ACK_DELAY_NUM
JoinReq == [has_join_req : BOOLEAN, has_been_tx : BOOLEAN, due : Due \cup {-1}]

\* An assertion of its own name: see SearchFromInited.
Reason == {"no", "WrongSignal", "SearchNotFromInited", "Assertion"}

TypeOK ==
    /\ mac \in {"INITED"} \cup Joining \cup Joined
    /\ tracker \in TrackerState
    /\ radio \in RadioState
    /\ caller \in {"none", "mac_engine", "btracker"}
    /\ sig \in [Process -> SUBSET UNION Range(SignalOf)]
    /\ \A p \in Process : sig[p] \subseteq SignalOf[p]
    /\ timer \in [Timer -> {Off} \cup UNION Range(SignalOf)]
    /\ \A t \in Timer : timer[t] \in {Off} \cup SignalOf[Owner[t]]
    /\ rx_buffer \in Frame
    /\ bcn \in Beacon
    /\ expected \in Expected
    /\ join_req \in JoinReq
    /\ pending \in 0..MaxMsgs
    /\ waiting \in SUBSET (Due \cup {-1}) /\ tx_due \in Due \cup {-1}
    /\ halted \in Reason /\ calm \in BOOLEAN /\ overtaken \in BOOLEAN

\* The three init functions, called before the kernel's main loop.
Init ==
    /\ mac = "INITED" /\ tracker = "INITED" /\ radio = "IDLE"
    /\ caller = "none"
    /\ sig = [rlc |-> {"INITED"}, btracker |-> {"INIT_FINISHED"}, mac_engine |-> {"INIT_FINISHED"}]
    /\ timer = [t \in Timer |-> Off]
    /\ rx_buffer = "other"
    /\ bcn = NoBeacon
    /\ expected = [is_check_packed_ack |-> FALSE]
    /\ join_req = [has_join_req |-> FALSE, has_been_tx |-> FALSE, due |-> 0]
    /\ pending = 0 /\ waiting = {} /\ tx_due = 0
    /\ halted = "no" /\ calm = TRUE /\ overtaken = FALSE
-----------------------------------------------------------------------------
Running == halted = "no"
Quiet   == \A p \in Process : sig[p] = {}

\* schedule_next(), and the entry's choice among its signals.
Runs(p) == Running /\ sig[p] # {} /\ \A q \in Before(p) : sig[q] = {}
IsFirst(s, order, signals) ==
    \E i \in DOMAIN order :
        order[i] = s /\ s \in signals /\ \A j \in 1..(i - 1) : order[j] \notin signals
Known(order, signals) == Range(order) \cap signals # {}

\* Process p has taken s, and the signals in `raised` are set meanwhile.
Signals(p, s, raised) ==
    sig' = [q \in Process |->
              (IF q = p THEN sig[q] \ {s} ELSE sig[q])
              \cup (IF q \in DOMAIN raised THEN raised[q] ELSE {})]
NoneRaised == [q \in {} |-> {}]
ToMac(s) == [q \in {"mac_engine"} |-> {s}]
ToTracker(s) == [q \in {"btracker"} |-> {s}]
ToCaller(s) == [q \in {caller} |-> {s}]
ToRlc(s) == [q \in {"rlc"} |-> {s}]

\* haddock_assert(): the device stops unless the condition holds.
Halt(reason) ==
    /\ halted' = reason
    /\ UNCHANGED <<mac, tracker, radio, caller, sig, timer, rx_buffer, bcn, expected, frames, calm, overtaken>>
Asserting(condition, reason, action) ==
    IF condition THEN action /\ UNCHANGED <<halted, calm, overtaken>> ELSE Halt(reason)

Stopped(timers, T) == [t \in Timer |-> IF t \in T THEN Off ELSE timers[t]]
Started(timers, t, s) == [timers EXCEPT ![t] = s]
-----------------------------------------------------------------------------
(***************************************************************************)
(* The radio controller.  The routine check that polls the radio every 3   *)
(* ms is part of RadioRaises.  gl_cur_tx_frame.frame is not NULL exactly   *)
(* while the radio is Sending.                                             *)
(***************************************************************************)
HasRadioEvent == sig["rlc"] \cap RadioEvent # {}

\* The result of a transmission, after which the radio is idle.
Result(s, result) == Signals("rlc", s, ToCaller(result)) /\ radio' = "IDLE"

\* RADIO_STATES_RX, continuous: reception goes on until it is stopped.
RlcReceives(s) ==
    /\ radio = "RX" /\ UNCHANGED radio
    /\ IF s = "RX_OK"
       THEN Signals("rlc", s, ToCaller("RLC_RX_OK")) /\ rx_buffer' \in Frame
       ELSE Signals("rlc", s, NoneRaised) /\ UNCHANGED rx_buffer

\* RADIO_STATES_TX_CCA: a frame that is heard makes the transmission fail.
RlcListens(s) ==
    /\ radio = "TX_CCA"
    /\ \/ s = "RX_OK" /\ Result(s, "RLC_TX_CCA_FAILED") /\ rx_buffer' \in Frame
       \/ s = "RX_CRC_ERROR" /\ Result(s, "RLC_TX_CCA_CRC_FAIL") /\ UNCHANGED rx_buffer
       \/ /\ s = "RX_TIMEOUT" /\ Signals("rlc", s, NoneRaised)
          /\ radio' = "TX_ING" /\ UNCHANGED rx_buffer

\* RADIO_STATES_TX_ING.
RlcHasSent(s) ==
    /\ radio = "TX_ING" /\ UNCHANGED rx_buffer
    /\ \/ s = "TX_OK" /\ Result(s, "RLC_TX_OK")
       \/ s = "TX_TIMEOUT" /\ Result(s, "RLC_TX_TIMEOUT")

\* radio_controller_entry() with an event of the radio, which an idle
\* controller drops unless a signal of its own makes it return before.
RlcHandlesRadio ==
    /\ Runs("rlc") /\ HasRadioEvent
    /\ IF radio = "IDLE"
       THEN /\ ~Known(own_order, sig["rlc"])
            /\ sig' = [sig EXCEPT !["rlc"] = {}]
            /\ UNCHANGED <<mac, tracker, radio, caller, timer, rx_buffer, bcn,
                           expected, frames, halted, calm, overtaken>>
       ELSE Asserting(radio # "TX" /\ Known(radio_order[radio], sig["rlc"]), "WrongSignal",
              /\ \E s \in RadioEvent :
                    /\ IsFirst(s, radio_order[radio], sig["rlc"])
                    /\ RlcReceives(s) \/ RlcListens(s) \/ RlcHasSent(s)
              /\ UNCHANGED <<mac, tracker, caller, timer, bcn, expected, frames>>)

RlcTakes(s) ==
    /\ Runs("rlc") /\ (HasRadioEvent => radio = "IDLE")
    /\ IsFirst(s, own_order, sig["rlc"])

RlcInited ==
    /\ RlcTakes("INITED")
    /\ Signals("rlc", "INITED", NoneRaised)
    /\ radio' = "IDLE"
    /\ UNCHANGED <<mac, tracker, caller, timer, rx_buffer, bcn, expected, frames, halted, calm, overtaken>>

\* The random delay before the frame is sent.
RlcTxStart ==
    /\ RlcTakes("TX_START")
    /\ Asserting(radio = "TX" /\ timer["rlc"] = Off, "Assertion",
         /\ Signals("rlc", "TX_START", NoneRaised)
         /\ timer' = Started(timer, "rlc", "TX_RAND_WAIT_TIMEOUT")
         /\ UNCHANGED <<mac, tracker, radio, caller, rx_buffer, bcn, expected, frames>>)

RlcTxRandWaitTimeout ==
    /\ RlcTakes("TX_RAND_WAIT_TIMEOUT")
    /\ Asserting(radio = "TX", "Assertion",
         /\ Signals("rlc", "TX_RAND_WAIT_TIMEOUT", NoneRaised)
         /\ radio' = "TX_CCA"
         /\ UNCHANGED <<mac, tracker, caller, timer, rx_buffer, bcn, expected, frames>>)

RlcRxDurationTimeout ==
    /\ RlcTakes("RX_DURATION_TIMEOUT")
    /\ Result("RX_DURATION_TIMEOUT", "RLC_RX_DURATION_TIMEOUT")
    /\ UNCHANGED <<mac, tracker, caller, timer, rx_buffer, bcn, expected, frames, halted, calm, overtaken>>

RadioController ==
    \/ RlcHandlesRadio \/ RlcInited \/ RlcTxStart \/ RlcTxRandWaitTimeout
    \/ RlcRxDurationTimeout

(***************************************************************************)
(* What the tracker and the engine call of it.  radio_controller_rx_stop() *)
(* asserts that nothing is being sent, radio_controller_rx_continuously()  *)
(* and radio_controller_tx() that nothing is done at all; a timer that is  *)
(* started must not run.                                                   *)
(***************************************************************************)
Mutant_MayStop == TRUE
MayStop == radio \in {"IDLE", "RX"}
Mutant_AfterStop == timer
AfterStop == IF radio = "RX" THEN Stopped(timer, {"rlc"}) ELSE timer

\* It is stopped and started again, with timer t.
MayListen(t) == MayStop /\ AfterStop["rlc"] = Off /\ timer[t] = Off

\* radio_controller_rx_stop() as the only call.
rx_stop == radio' = "IDLE"

\* switch_rlc_caller(), radio_controller_rx_continuously() by process p, with
\* its timer `t` set to raise s a little earlier.
Listening(p, timers, t, s) ==
    /\ caller' = p /\ radio' = "RX"
    /\ timer' = Started(Started(timers, t, s), "rlc", "RX_DURATION_TIMEOUT")
-----------------------------------------------------------------------------
(***************************************************************************)
(* The frame buffers, as TxFramesMgmt describes them.                      *)
(***************************************************************************)
has_pending_join_req == join_req.has_join_req /\ ~join_req.has_been_tx
has_waiting_join_confirm ==
    join_req.has_join_req /\ join_req.has_been_tx /\ join_req.due = 0
has_pending_tx == pending > 0 \/ has_pending_join_req

\* Frames whose ACK is missing are sent again, or given up.
SentAgain(n) == pending' \in pending..(pending + n)

\* mac_tx_frames_handle_lost_beacon()
handle_lost_beacon ==
    IF mac \in Joining
    THEN join_req' = [join_req EXCEPT !.has_been_tx = FALSE]
         /\ UNCHANGED <<pending, waiting, tx_due>>
    ELSE waiting' = {} /\ SentAgain(Cardinality(waiting)) /\ UNCHANGED <<join_req, tx_due>>
-----------------------------------------------------------------------------
(***************************************************************************)
(* The beacon tracker.                                                     *)
(***************************************************************************)
TrackerTakes(state, s) ==
    /\ Runs("btracker") /\ tracker = state
    /\ IsFirst(s, tracker_order[state], sig["btracker"])

\* __rx_wrong_signal()
TrackerWrongSignal ==
    /\ Runs("btracker") /\ ~Known(tracker_order[tracker], sig["btracker"])
    /\ Halt("WrongSignal")

BtrackerInitFinished ==
    /\ TrackerTakes("INITED", "INIT_FINISHED")
    /\ Signals("btracker", "INIT_FINISHED", NoneRaised)
    /\ UNCHANGED <<mac, tracker, radio, caller, timer, rx_buffer, bcn, expected, frames, halted, calm, overtaken>>

\* btracker_reset() and rlc_reset(): no timer runs.  Signals stay pending.
btracker_reset ==
    /\ tracker' = "INITED" /\ radio' = "IDLE"
    /\ timer' = Stopped(timer, {"tracker", "periodic", "rlc"})

\* The search, or the search for a lost beacon, ends without a beacon.
Mutant_GivesUp(s, raised) ==
    /\ btracker_reset
    /\ Signals("btracker", s, NoneRaised)
    /\ UNCHANGED <<mac, caller, rx_buffer, bcn, expected, frames>>
GivesUp(s, raised) ==
    /\ btracker_reset
    /\ Signals("btracker", s, ToMac(raised))
    /\ UNCHANGED <<mac, caller, rx_buffer, bcn, expected, frames>>

SearchTimeout ==
    /\ TrackerTakes("SEARCH_BEACON", "SEARCH_TIMEOUT")
    /\ Asserting(MayStop, "Assertion", GivesUp("SEARCH_TIMEOUT", "BEACON_NOT_FOUND"))

TrackSearchTimeout ==
    /\ TrackerTakes("BCN_TRACKING_SEARCH", "TRACK_SEARCH_TIMEOUT")
    /\ Asserting(MayStop, "Assertion", GivesUp("TRACK_SEARCH_TIMEOUT", "TRACK_FAILED"))

\* The controller's bound, with the tracker's timer still to come or stopped.
\* In SEARCH_BEACON the tracker's own bound comes first and is tested first.
SearchRxDurationTimeout ==
    /\ \E state \in {"SEARCH_BEACON", "BCN_TRACKING_SEARCH"} :
         TrackerTakes(state, "RLC_RX_DURATION_TIMEOUT")
    /\ GivesUp("RLC_RX_DURATION_TIMEOUT",
               IF tracker = "SEARCH_BEACON" THEN "BEACON_NOT_FOUND" ELSE "TRACK_FAILED")
    /\ UNCHANGED <<halted, calm, overtaken>>

\* What lpwan_parse_beacon() makes of a beacon.  It looks for an ACK when it
\* is asked to.
Parsed == {b \in Beacon :
              b.is_msg_pending => tracker = "BCN_TRACKING" /\ expected.is_check_packed_ack}

\* btracker_do_begin_bcn_tracking(), and the end of btracker_handle_track_bcn_ok():
\* the next beacon is to be tracked one period after this one.
NextBeacon(timers) == timer' = Started(timers, "periodic", "TRACK_BEACON")

\* A frame while the tracker listens.
RxOk(state, raised, newState) ==
    /\ TrackerTakes(state, "RLC_RX_OK")
    /\ IF rx_buffer # "beacon"
       THEN /\ Signals("btracker", "RLC_RX_OK", NoneRaised)
            /\ UNCHANGED <<mac, tracker, radio, caller, timer, rx_buffer, bcn,
                           expected, frames, halted, calm, overtaken>>
       ELSE Asserting(/\ MayStop
                      /\ state # "SEARCH_BEACON" => timer["periodic"] = Off,
                      "Assertion",
              /\ rx_stop
              /\ Signals("btracker", "RLC_RX_OK", ToMac(raised))
              /\ bcn' \in Parsed
              /\ tracker' = newState
              /\ IF state = "SEARCH_BEACON"
                 THEN timer' = Stopped(AfterStop, {"tracker"})
                 ELSE NextBeacon(Stopped(AfterStop, {"tracker"}))
              /\ UNCHANGED <<mac, caller, rx_buffer, expected, frames>>)

SearchRxOk      == RxOk("SEARCH_BEACON", "BEACON_FOUND", "BEACON_FOUND")
TrackRxOk       == RxOk("BCN_TRACKING", "BEACON_TRACKED", "BCN_TRACKING")
TrackSearchRxOk == RxOk("BCN_TRACKING_SEARCH", "BEACON_TRACKED", "BCN_TRACKING")

BeginBeaconTracking ==
    /\ TrackerTakes("BEACON_FOUND", "BEGIN_BEACON_TRACKING")
    /\ Asserting(timer["periodic"] = Off, "Assertion",
         /\ Signals("btracker", "BEGIN_BEACON_TRACKING", NoneRaised)
         /\ tracker' = "BCN_TRACKING"
         /\ NextBeacon(timer)
         /\ UNCHANGED <<mac, radio, caller, rx_buffer, bcn, expected, frames>>)

\* btracker_info_base_ticktock() as the frames see it: their beacon is one
\* nearer, or was missed (-1).
Nearer(d) == IF d = -1 THEN -1 ELSE d - 1
ticktock ==
    /\ waiting' = {Nearer(d) : d \in waiting}
    /\ join_req' = [join_req EXCEPT !.due = Nearer(@)]
    /\ tx_due' = IF mac = "TX_FRAME" THEN Nearer(tx_due) ELSE tx_due
    /\ UNCHANGED pending

\* Of the beacon that is one nearer: somebody waits for its ACK.
Mutant_has_waiting_ack_next == 1 \in waiting
has_waiting_ack_next ==
    \/ 1 \in waiting
    \/ join_req.has_join_req /\ join_req.has_been_tx /\ join_req.due = 1

\* btracker_is_virtual_track_beacon(): a beacon is received when a frame may be
\* sent after it (mac_engine_is_allow_tx() of its class), or an ACK is due.
Mutant_MustReceive(allow_tx) == has_pending_tx /\ allow_tx
MustReceive(allow_tx) == (has_pending_tx /\ allow_tx) \/ has_waiting_ack_next

\* A look at the JOIN_REQ that finds one asserts that the engine is JOINING.
LooksAtJoinReq ==
    /\ join_req.has_join_req
    /\ IF join_req.has_been_tx THEN join_req.due = 1 ELSE pending = 0

TrackBeacon ==
    /\ TrackerTakes("BCN_TRACKING", "TRACK_BEACON")
    /\ \E allow_tx \in BOOLEAN :
        Asserting(/\ LooksAtJoinReq => mac \in Joining
                  /\ IF MustReceive(allow_tx) THEN MayListen("tracker") ELSE timer["periodic"] = Off,
                  "Assertion",
           /\ ticktock
           /\ expected' = [is_check_packed_ack |-> has_waiting_ack_next]
           /\ Signals("btracker", "TRACK_BEACON", NoneRaised)
           /\ IF MustReceive(allow_tx)
              THEN Listening("btracker", AfterStop, "tracker", "TRACK_TIMEOUT")
              ELSE NextBeacon(timer) /\ UNCHANGED <<radio, caller>>
           /\ UNCHANGED <<mac, tracker, rx_buffer, bcn>>)

\* btracker_handle_track_bcn_timeout(): a search begins half a period later.
TrackingLost(s) ==
    /\ Signals("btracker", s, ToMac("TRACK_LOST_BEACON"))
    /\ tracker' = "BCN_TRACKING_SEARCH" /\ radio' = "IDLE"
    /\ timer' = Started(Stopped(AfterStop, {"periodic"}), "tracker", "BEGIN_TRACK_SEARCH")
    /\ UNCHANGED <<mac, caller, rx_buffer, bcn, expected, frames>>

TrackTimeout ==
    /\ TrackerTakes("BCN_TRACKING", "TRACK_TIMEOUT")
    /\ Asserting(MayStop /\ timer["tracker"] = Off, "Assertion", TrackingLost("TRACK_TIMEOUT"))

TrackRxDurationTimeout ==
    /\ TrackerTakes("BCN_TRACKING", "RLC_RX_DURATION_TIMEOUT")
    /\ TrackingLost("RLC_RX_DURATION_TIMEOUT") /\ UNCHANGED <<halted, calm, overtaken>>

BeginTrackSearch ==
    /\ TrackerTakes("BCN_TRACKING_SEARCH", "BEGIN_TRACK_SEARCH")
    /\ Asserting(MayListen("tracker"), "Assertion",
         /\ Signals("btracker", "BEGIN_TRACK_SEARCH", NoneRaised)
         /\ Listening("btracker", AfterStop, "tracker", "TRACK_SEARCH_TIMEOUT")
         /\ UNCHANGED <<mac, tracker, rx_buffer, bcn, expected, frames>>)

BeaconTracker ==
    \/ TrackerWrongSignal \/ BtrackerInitFinished
    \/ SearchTimeout \/ SearchRxDurationTimeout \/ SearchRxOk
    \/ BeginBeaconTracking \/ TrackBeacon
    \/ TrackRxOk \/ TrackRxDurationTimeout \/ TrackTimeout
    \/ BeginTrackSearch \/ TrackSearchRxOk \/ TrackSearchTimeout
-----------------------------------------------------------------------------
(***************************************************************************)
(* The MAC engine.  Its timer is gl_timeout_timer.                         *)
(***************************************************************************)
MacTakes(state, s) ==
    /\ Runs("mac_engine") /\ mac = state
    /\ IsFirst(s, mac_order[state], sig["mac_engine"])

\* __rx_wrong_signal(), or __should_never_fall_here() at the end of JOINING.
MacWrongSignal ==
    /\ Runs("mac_engine") /\ ~Known(mac_order[mac], sig["mac_engine"])
    /\ Halt("WrongSignal")

\* mac_engine_delayed_start_joining()
DelayedStartJoining(timers) ==
    mac' = "INITED" /\ timer' = Started(timers, "mac", "START_JOINING")

MacInitFinished ==
    /\ MacTakes("INITED", "INIT_FINISHED")
    /\ Asserting(timer["mac"] = Off, "Assertion",
         /\ Signals("mac_engine", "INIT_FINISHED", NoneRaised)
         /\ DelayedStartJoining(timer)
         /\ UNCHANGED <<tracker, radio, caller, rx_buffer, bcn, expected, frames>>)

StartJoining ==
    /\ MacTakes("INITED", "START_JOINING")
    /\ Signals("mac_engine", "START_JOINING", [q \in {"mac_engine"} |-> {"SEARCH_BEACON"}])
    /\ mac' = "SEARCH_BEACON"
    /\ UNCHANGED <<tracker, radio, caller, timer, rx_buffer, bcn, expected, frames, halted, calm, overtaken>>

\* btracker_search_beacon(), which asserts that the tracker has been reset.
SearchBeacon ==
    /\ MacTakes("SEARCH_BEACON", "SEARCH_BEACON")
    /\ IF tracker # "INITED" THEN Halt("SearchNotFromInited")
       ELSE Asserting(MayListen("tracker"), "Assertion",
              /\ Signals("mac_engine", "SEARCH_BEACON", NoneRaised)
              /\ Listening("btracker", AfterStop, "tracker", "SEARCH_TIMEOUT")
              /\ tracker' = "SEARCH_BEACON"
              /\ UNCHANGED <<mac, rx_buffer, bcn, expected, frames>>)

BeaconNotFound ==
    /\ MacTakes("SEARCH_BEACON", "BEACON_NOT_FOUND")
    /\ Asserting(timer["mac"] = Off, "Assertion",
         /\ Signals("mac_engine", "BEACON_NOT_FOUND", NoneRaised)
         /\ DelayedStartJoining(timer)
         /\ UNCHANGED <<tracker, radio, caller, rx_buffer, bcn, expected, frames>>)

\* mac_engine_init_join_req(), if the gateway admits devices.
BeaconFound ==
    /\ MacTakes("SEARCH_BEACON", "BEACON_FOUND")
    /\ IF bcn.is_join_allowed
       THEN /\ Signals("mac_engine", "BEACON_FOUND", ToTracker("BEGIN_BEACON_TRACKING"))
            /\ mac' = "BEACON_FOUND"
            /\ join_req' = [has_join_req |-> TRUE, has_been_tx |-> FALSE, due |-> 0]
            /\ UNCHANGED <<tracker, radio, caller, timer, rx_buffer, bcn, expected,
                           pending, waiting, tx_due, halted, calm, overtaken>>
       ELSE Asserting(timer["mac"] = Off, "Assertion",
              /\ Signals("mac_engine", "BEACON_FOUND", NoneRaised)
              /\ tracker' = "INITED" /\ radio' = "IDLE"
              /\ DelayedStartJoining(Stopped(timer, {"tracker", "periodic", "rlc"}))
              /\ UNCHANGED <<caller, rx_buffer, bcn, expected, frames>>)

(***************************************************************************)
(* A tracked beacon is answered for, then used to receive what it          *)
(* announces, or else to send.  mac_engine_delayed_rx_downlink_frame() and *)
(* mac_engine_delayed_tx_pending_frame() wait until the gateway's part of  *)
(* the period for that begins; a delay of 0 is a timer that expires next.  *)
(***************************************************************************)
DelayedTo(state, s) == mac' = state /\ timer' = Started(timer, "mac", s)
StaysIn(state) == mac' = state /\ UNCHANGED timer

TrackedWhileJoining ==
    /\ MacTakes("BEACON_FOUND", "BEACON_TRACKED")
    /\ Asserting(timer["mac"] = Off, "Assertion",
         /\ Signals("mac_engine", "BEACON_TRACKED", NoneRaised)
         /\ IF has_waiting_join_confirm
            THEN /\ join_req' = [join_req EXCEPT !.has_been_tx = FALSE]
                 /\ \/ bcn.is_msg_pending /\ DelayedTo("RX_JOIN_CONFIRM", "RECV_FRAME")
                    \/ StaysIn(mac)    \* no ACK, or that of another device
            ELSE /\ UNCHANGED join_req
                 /\ IF has_pending_join_req /\ bcn.room
                    THEN DelayedTo("TX_JOIN_REQ", "SEND_FRAME") ELSE StaysIn(mac)
         /\ UNCHANGED <<tracker, radio, caller, rx_buffer, bcn, expected, pending, waiting, tx_due>>)

\* The frame whose ACK is due: acknowledged, to be sent again, or given up.
check_ack ==
    IF 0 \in waiting THEN waiting' = waiting \ {0} /\ SentAgain(1)
    ELSE UNCHANGED <<pending, waiting>>

TrackedWhileJoined ==
    /\ MacTakes("IDLE", "BEACON_TRACKED")
    /\ Asserting(timer["mac"] = Off /\ (0 \in waiting => -1 \notin waiting), "Assertion",
         /\ Signals("mac_engine", "BEACON_TRACKED", NoneRaised)
         /\ check_ack
         /\ IF bcn.is_msg_pending THEN DelayedTo("RX_FRAME", "RECV_FRAME")
            ELSE IF pending' > 0 /\ bcn.room THEN DelayedTo("TX_FRAME", "SEND_FRAME")
            ELSE StaysIn(mac)
         /\ UNCHANGED <<tracker, radio, caller, rx_buffer, bcn, expected, join_req, tx_due>>)

LostBeacon ==
    /\ \E state \in {"BEACON_FOUND", "IDLE"} : MacTakes(state, "TRACK_LOST_BEACON")
    /\ Signals("mac_engine", "TRACK_LOST_BEACON", NoneRaised)
    /\ handle_lost_beacon
    /\ UNCHANGED <<mac, tracker, radio, caller, timer, rx_buffer, bcn, expected, halted, calm, overtaken>>

TrackFailed ==
    /\ \E state \in {"BEACON_FOUND", "IDLE"} : MacTakes(state, "TRACK_FAILED")
    /\ Asserting(timer["mac"] = Off, "Assertion",
         /\ Signals("mac_engine", "TRACK_FAILED", NoneRaised)
         /\ handle_lost_beacon
         /\ DelayedStartJoining(timer)
         /\ UNCHANGED <<tracker, radio, caller, rx_buffer, bcn, expected>>)

\* mac_engine_do_tx_frame() of the JOIN_REQ or of the first pending message,
\* which is told here in which beacon its ACK is due.
SendFrame ==
    /\ \E state \in Transmitting : MacTakes(state, "SEND_FRAME")
    /\ IF mac = "TX_FRAME" /\ pending = 0
       THEN /\ Signals("mac_engine", "SEND_FRAME", NoneRaised)
            /\ mac' = "IDLE"
            /\ UNCHANGED <<tracker, radio, caller, timer, rx_buffer, bcn, expected, frames, halted, calm, overtaken>>
       ELSE Asserting(/\ radio = "IDLE"
                      /\ mac = "TX_JOIN_REQ" => has_pending_join_req /\ ~has_waiting_join_confirm,
                      "Assertion",
              /\ Signals("mac_engine", "SEND_FRAME", ToRlc("TX_START"))
              /\ caller' = "mac_engine" /\ radio' = "TX"
              /\ IF mac = "TX_FRAME"
                 THEN tx_due' = PACKED_ACK_DELAY_NUM /\ UNCHANGED join_req
                 ELSE join_req' = [join_req EXCEPT !.due = PACKED_ACK_DELAY_NUM] /\ UNCHANGED tx_due
              /\ UNCHANGED <<mac, tracker, timer, rx_buffer, bcn, expected, pending, waiting>>)

\* mac_engine_handle_tx_frame_ok(): the frame waits for its ACK.
TxOk ==
    /\ \/ /\ MacTakes("TX_JOIN_REQ", "RLC_TX_OK")
          /\ mac' = "BEACON_FOUND"
          /\ join_req' = [join_req EXCEPT !.has_been_tx = TRUE]
          /\ UNCHANGED <<pending, waiting>>
       \/ /\ MacTakes("TX_FRAME", "RLC_TX_OK")
          /\ mac' = "IDLE"
          /\ pending' = pending - 1 /\ waiting' = waiting \cup {tx_due}
          /\ UNCHANGED join_req
    /\ Signals("mac_engine", "RLC_TX_OK", NoneRaised)
    /\ UNCHANGED <<tracker, radio, caller, timer, rx_buffer, bcn, expected, tx_due,
                   halted, calm, overtaken>>

\* mac_engine_handle_tx_frame_fail().  A message that has failed too often is
\* unlinked and yet counted: TxFramesMgmt shows what that leads to.
TxFailure ==
    /\ \E s \in Range(TxFailed) :
         /\ \/ MacTakes("TX_JOIN_REQ", s) /\ mac' = "BEACON_FOUND"
            \/ MacTakes("TX_FRAME", s) /\ mac' = "IDLE"
         /\ Signals("mac_engine", s, NoneRaised)
    /\ UNCHANGED <<tracker, radio, caller, timer, rx_buffer, bcn, expected, frames, halted, calm, overtaken>>

\* mac_engine_do_rx_frame()
RecvFrame ==
    /\ \E state \in Receiving : MacTakes(state, "RECV_FRAME")
    /\ Asserting(radio = "IDLE" /\ timer["mac"] = Off /\ timer["rlc"] = Off, "Assertion",
         /\ Signals("mac_engine", "RECV_FRAME", NoneRaised)
         /\ Listening("mac_engine", timer, "mac", "RECV_TIMEOUT")
         /\ UNCHANGED <<mac, tracker, rx_buffer, bcn, expected, frames>>)

\* Where the engine waits for the next beacon.
AfterRx == IF mac = "RX_FRAME" THEN "IDLE" ELSE "BEACON_FOUND"
Answers == IF mac = "RX_FRAME" THEN {"downlink"} ELSE {"confirmed", "denied"}

\* A frame that is not the one expected: reception goes on.
RxOther ==
    /\ \E state \in Receiving : MacTakes(state, "RLC_RX_OK")
    /\ rx_buffer \notin Answers
    /\ Signals("mac_engine", "RLC_RX_OK", NoneRaised)
    /\ UNCHANGED <<mac, tracker, radio, caller, timer, rx_buffer, bcn, expected, frames, halted, calm, overtaken>>

RxDownlink ==
    /\ MacTakes("RX_FRAME", "RLC_RX_OK") /\ rx_buffer \in Answers
    /\ Asserting(MayStop, "Assertion",
         /\ Signals("mac_engine", "RLC_RX_OK", NoneRaised)
         /\ rx_stop /\ timer' = Stopped(AfterStop, {"mac"})
         /\ mac' = "IDLE"
         /\ UNCHANGED <<tracker, caller, rx_buffer, bcn, expected, frames>>)

\* mac_engine_handle_join_confirmed(), mac_engine_handle_join_denied(): the
\* tracker goes on in both cases.
NoJoinReq == join_req' = [join_req EXCEPT !.has_join_req = FALSE, !.has_been_tx = FALSE]
RxJoinConfirm ==
    /\ MacTakes("RX_JOIN_CONFIRM", "RLC_RX_OK") /\ rx_buffer \in Answers
    /\ IF ~MayStop \/ (rx_buffer = "confirmed" /\ waiting # {}) THEN Halt("Assertion")
       ELSE /\ Signals("mac_engine", "RLC_RX_OK", NoneRaised)
            /\ rx_stop
            /\ NoJoinReq
            /\ IF rx_buffer = "confirmed"
               THEN mac' = "IDLE" /\ timer' = Stopped(AfterStop, {"mac"}) /\ UNCHANGED calm
               ELSE DelayedStartJoining(Stopped(AfterStop, {"mac"})) /\ calm' = FALSE
            /\ UNCHANGED <<tracker, caller, rx_buffer, bcn, expected, pending, waiting, tx_due,
                           halted, overtaken>>

RxDurationTimeout ==
    /\ \E state \in Receiving : MacTakes(state, "RLC_RX_DURATION_TIMEOUT")
    /\ Signals("mac_engine", "RLC_RX_DURATION_TIMEOUT", NoneRaised)
    /\ timer' = Stopped(timer, {"mac"})
    /\ mac' = AfterRx
    /\ UNCHANGED <<tracker, radio, caller, rx_buffer, bcn, expected, frames, halted, calm, overtaken>>

RecvTimeout ==
    /\ \E state \in Receiving : MacTakes(state, "RECV_TIMEOUT")
    /\ Asserting(MayStop, "Assertion",
         /\ Signals("mac_engine", "RECV_TIMEOUT", NoneRaised)
         /\ rx_stop /\ timer' = AfterStop
         /\ mac' = AfterRx
         /\ UNCHANGED <<tracker, caller, rx_buffer, bcn, expected, frames>>)

MacEngine ==
    \/ MacWrongSignal \/ MacInitFinished \/ StartJoining \/ SearchBeacon
    \/ BeaconNotFound \/ BeaconFound
    \/ TrackedWhileJoining \/ TrackedWhileJoined \/ LostBeacon \/ TrackFailed
    \/ SendFrame \/ TxOk \/ TxFailure
    \/ RecvFrame \/ RxOther \/ RxDownlink \/ RxJoinConfirm \/ RxDurationTimeout \/ RecvTimeout
-----------------------------------------------------------------------------
(***************************************************************************)
(* What comes from outside the three processes.                            *)
(***************************************************************************)

\* device_mac_send_msg(), called by a process of lower priority.  MaxMsgs
\* stands for the blocks of the pool.
Mutant_PoolHasRoom == Cardinality(waiting) < MaxMsgs
PoolHasRoom == pending + Cardinality(waiting) < MaxMsgs
device_mac_send_msg ==
    /\ Running /\ Quiet
    /\ mac \in Joined /\ PoolHasRoom
    /\ pending' = pending + 1
    /\ UNCHANGED <<mac, tracker, radio, caller, sig, timer, rx_buffer, bcn, expected,
                   join_req, waiting, tx_due, halted, calm, overtaken>>

\* The radio has something to say.  A frame takes longer on air than the
\* processes take to handle the one before it.
RadioRaises ==
    /\ Running /\ Quiet
    /\ radio \in DOMAIN radio_order
    /\ \E s \in Range(radio_order[radio]) : sig' = [sig EXCEPT !["rlc"] = {s}]
    /\ UNCHANGED <<mac, tracker, radio, caller, timer, rx_buffer, bcn, expected, frames, halted, calm, overtaken>>

(***************************************************************************)
(* A timer expires.  The order of time:                                    *)
(*  - What the engine does after a beacon is meant to be over when the     *)
(*    tracker turns to the next one, 100 ms ahead: the beacon's sections   *)
(*    lie within its period.  Nothing sees to it: a transmission begins at *)
(*    a random moment and is over when the radio says so.  The tracker may *)
(*    therefore overtake the engine.                                       *)
(*  - A reception is bounded by a timer of its user and, 50 ms later, by   *)
(*    the controller's.                                                    *)
(*  - The kernel looks at its timers between any two calls of an entry, so *)
(*    the user's bound may be reached while a frame is being handled; the  *)
(*    controller's as well when the processor is held for 50 ms            *)
(*    (print_log(), drivers).  Other timers find the device quiet.         *)
(***************************************************************************)
MayExpire(t) ==
    /\ Quiet \/ timer[t] \in Timeout \cup {"RX_DURATION_TIMEOUT"}
    /\ timer[t] = "RX_DURATION_TIMEOUT" => timer[TimerOf[caller]] = Off

Overtakes(t) == timer[t] = "TRACK_BEACON" /\ mac \in Transmitting \cup Receiving

Expire(t) ==
    /\ Running /\ timer[t] # Off /\ MayExpire(t)
    /\ sig' = [sig EXCEPT ![Owner[t]] = @ \cup {timer[t]}]
    /\ timer' = [timer EXCEPT ![t] = Off]
    /\ calm' = (calm /\ Quiet /\ ~Overtakes(t))
    /\ overtaken' = (overtaken \/ Overtakes(t))
    /\ UNCHANGED <<mac, tracker, radio, caller, rx_buffer, bcn, expected, frames, halted>>

Next ==
    \/ RadioController \/ BeaconTracker \/ MacEngine
    \/ device_mac_send_msg \/ RadioRaises \/ \E t \in Timer : Expire(t)

Spec == Init /\ [][Next]_vars

\* The kernel's loop goes on, time passes, and a transmission comes to an end.
Fairness ==
    /\ WF_vars(RadioController) /\ WF_vars(BeaconTracker) /\ WF_vars(MacEngine)
    /\ \A t \in Timer : SF_vars(Expire(t))
    /\ WF_vars(radio \in Sending /\ RadioRaises)

FairSpec == Spec /\ Fairness
-----------------------------------------------------------------------------
(***************************************************************************)
(* Properties.                                                             *)
(***************************************************************************)

\* No assertion fails and no signal comes in a state that does not expect it,
\* as long as timers come at good moments and the gateway denies nobody.
NoHang == calm => halted = "no"

\* The engine and the tracker share the radio controller without a lock, and the
\* tracker may overtake the engine.  Even then a reception is the registered
\* caller's, which waits for it (the tracker takes one over as a whole), and a
\* transmission is the engine's to its end: once it has handed its frame over,
\* it is sent or the engine told, unless the device stops.
RadioHasOneUser ==
    Running =>
        /\ radio = "RX" /\ caller = "btracker" =>
              \/ tracker \in {"SEARCH_BEACON", "BCN_TRACKING_SEARCH"}
              \/ tracker = "BCN_TRACKING" /\ timer["periodic"] = Off
        /\ radio = "RX" /\ caller = "mac_engine" => mac \in Receiving
        /\ radio \in Sending => caller = "mac_engine" /\ mac \in Transmitting
        /\ mac \in Transmitting =>
              \/ timer["mac"] = "SEND_FRAME" \/ "SEND_FRAME" \in sig["mac_engine"]
              \/ radio \in Sending \/ sig["mac_engine"] \cap TxResult # {}

\* The beacon that is to acknowledge a frame is never left out: the tracker,
\* which skips beacons that nobody needs, receives it, or reports it as lost.
\* (A message that is still being sent is nobody's yet when the tracker, having
\* overtaken the engine, counts.)
NothingOverdue ==
    ~overtaken =>
        /\ -1 \notin waiting
        /\ join_req.has_join_req /\ join_req.has_been_tx => join_req.due >= 0

\* The radio controller reports to a process only what that process waits for,
\* though it may be told to stop, or to work for the other, at any time.
ReportsToWhoAsked ==
    [][/\ \A s \in sig'["btracker"] \ sig["btracker"] :
             s \in {"RLC_RX_OK", "RLC_RX_DURATION_TIMEOUT"} => s \in Range(tracker_order[tracker])
       /\ \A s \in sig'["mac_engine"] \ sig["mac_engine"] :
             s \in {"RLC_RX_OK", "RLC_RX_DURATION_TIMEOUT"} \cup TxResult
                => s \in Range(mac_order[mac])]_vars

\* The device never falls asleep for good: again and again it searches for a
\* beacon or has the next one of its gateway scheduled.
KeepsListening ==
    []<>(tracker = "SEARCH_BEACON" \/ timer["periodic"] = "TRACK_BEACON" \/ ~calm)

\* A JOIN_REQ that was sent is answered, found unanswered, or to be sent again:
\* it does not wait for ever.
JoinReqSettled == join_req.has_been_tx ~> ~join_req.has_been_tx \/ ~calm

(***************************************************************************)
(* What the repository says and the code does not keep.                    *)
(***************************************************************************)

\* beacon_tracker.c:352, haddock_assert(gl_btracker_states == BCN_TRACKER_INITED):
\* a search begins after a reset of the tracker.
SearchFromInited == halted # "SearchNotFromInited"

\* beacon_tracker.c:362 and mac_engine.c:669, "a little longer ... to avoid race
\* condition": a bound that is reached while a frame is handled does no harm.
NoWrongSignal == halted = "WrongSignal" => overtaken
=============================================================================
