--------------------------- MODULE DeviceMacProofs ---------------------------
(***************************************************************************)
(* The end device does not hang, its radio has one user at a time, and no  *)
(* acknowledgement is missed, for every delay and number of messages.      *)
(*                                                                         *)
(* There are two invariants.  Users holds whatever the order of timers is, *)
(* also when the tracker overtakes the engine: for whom the radio works,   *)
(* who is to be told what, and that a frame handed over for transmission   *)
(* is to be sent, being sent, or has a result, one of the three.  IInv     *)
(* holds as long as the tracker has not overtaken the engine, and says     *)
(* what the three processes are about together: which signals can be       *)
(* pending and which timers can run in which of their states.  As long as  *)
(* no timer comes at a bad moment and nobody is denied, only one signal is *)
(* pending at a time, and the process it is for expects it.                *)
(***************************************************************************)
EXTENDS DeviceMac, FiniteSetTheorems, TLAPS

rs == sig["rlc"]
ts == sig["btracker"]
ms == sig["mac_engine"]

DUR     == "RLC_RX_DURATION_TIMEOUT"
Reports == {"BEACON_TRACKED", "TRACK_LOST_BEACON", "TRACK_FAILED"}
Results == {"RLC_TX_OK", "RLC_TX_CCA_FAILED", "RLC_TX_CCA_CRC_FAIL", "RLC_TX_TIMEOUT"}

\* What bounds a reception of the tracker.
Bound == [SEARCH_BEACON       |-> "SEARCH_TIMEOUT",
          BCN_TRACKING        |-> "TRACK_TIMEOUT",
          BCN_TRACKING_SEARCH |-> "TRACK_SEARCH_TIMEOUT"]

\* The beacon with the ACK of a frame has come, and nobody has looked at it.
Owing == 0 \in waiting \/ has_waiting_join_confirm

----------------------------------------------------------------------------
(* What the radio is about                                                *)

RadioRests == radio = "IDLE" /\ timer["rlc"] = Off /\ rs = {}

\* A reception of process p, whose signals are S, bounded by b of timer t.
Receives(p, t, b, S) ==
    /\ radio = "RX" /\ caller = p
    /\ S \subseteq {b, "RLC_RX_OK"}
    /\ timer[t] = IF b \in S THEN Off ELSE b
    /\ rs \subseteq {"RX_OK", "RX_CRC_ERROR", "RX_TIMEOUT", "RX_DURATION_TIMEOUT"}
    /\ timer["rlc"] = IF "RX_DURATION_TIMEOUT" \in rs THEN Off ELSE "RX_DURATION_TIMEOUT"
    /\ "RX_DURATION_TIMEOUT" \in rs => b \in S

\* Both bounds were reached before p could do anything.
BothBounds(t, b, S) ==
    /\ ~calm /\ RadioRests /\ timer[t] = Off
    /\ {b, DUR} \subseteq S /\ S \subseteq {b, DUR, "RLC_RX_OK"}

Reception(p, t, b, S) == Receives(p, t, b, S) \/ BothBounds(t, b, S)

----------------------------------------------------------------------------
(* What the engine is about                                               *)

\* It expects the tracker's reports.
Attends == mac \in {"BEACON_FOUND", "IDLE"} /\ timer["mac"] = Off /\ ms \subseteq Reports

\* It was denied, and the tracker works on.
Denied ==
    /\ ~calm /\ ~join_req.has_join_req
    /\ \/ mac = "INITED" /\ timer["mac"] = "START_JOINING" /\ ms \subseteq Reports
       \/ /\ mac = "INITED" /\ timer["mac"] = Off
          /\ "START_JOINING" \in ms /\ ms \subseteq Reports \cup {"START_JOINING"}
       \/ /\ mac = "SEARCH_BEACON" /\ timer["mac"] = Off
          /\ "SEARCH_BEACON" \in ms /\ ms \subseteq Reports \cup {"SEARCH_BEACON"}

Reported == ms \cap Reports

\* What the engine does with a beacon it does between two beacons.
BetweenBeacons ==
    /\ tracker = "BCN_TRACKING" /\ ts = {}
    /\ timer["periodic"] = "TRACK_BEACON" /\ timer["tracker"] = Off
    /\ ~Owing

----------------------------------------------------------------------------
(* What the device is about                                               *)

Booting ==
    /\ mac = "INITED" /\ tracker = "INITED" /\ radio = "IDLE"
    /\ rs \subseteq {"INITED"} /\ ts \subseteq {"INIT_FINISHED"} /\ ms = {"INIT_FINISHED"}
    /\ \A t \in Timer : timer[t] = Off

\* It waits for the next attempt to join, or begins it.
Starting ==
    /\ tracker = "INITED" /\ RadioRests /\ ts = {}
    /\ timer["tracker"] = Off /\ timer["periodic"] = Off
    /\ \/ mac = "INITED" /\ timer["mac"] = "START_JOINING" /\ ms = {}
       \/ mac = "INITED" /\ timer["mac"] = Off /\ ms = {"START_JOINING"}
       \/ mac = "SEARCH_BEACON" /\ timer["mac"] = Off /\ ms = {"SEARCH_BEACON"}

Searching ==
    /\ tracker = "SEARCH_BEACON" /\ mac = "SEARCH_BEACON" /\ ms = {}
    /\ timer["mac"] = Off /\ timer["periodic"] = Off
    /\ Reception("btracker", "tracker", "SEARCH_TIMEOUT", ts)

Searched ==
    /\ RadioRests
    /\ timer["mac"] = Off /\ timer["tracker"] = Off /\ timer["periodic"] = Off
    /\ \/ tracker = "INITED" /\ mac = "SEARCH_BEACON" /\ ts = {} /\ ms = {"BEACON_NOT_FOUND"}
       \/ tracker = "BEACON_FOUND" /\ mac = "SEARCH_BEACON" /\ ts = {} /\ ms = {"BEACON_FOUND"}
       \/ /\ tracker = "BEACON_FOUND" /\ mac = "BEACON_FOUND"
          /\ ts = {"BEGIN_BEACON_TRACKING"} /\ ms = {} /\ ~join_req.has_been_tx

\* The tracker receives the beacon, or searches for it.
AwaitsBeacon ==
    /\ tracker \in {"BCN_TRACKING", "BCN_TRACKING_SEARCH"}
    /\ timer["periodic"] = Off /\ Reported = {}
    /\ Attends \/ (Denied /\ tracker = "BCN_TRACKING")
    /\ Reception("btracker", "tracker", Bound[tracker], ts)

\* The next beacon is to be tracked.
Tracking ==
    /\ tracker = "BCN_TRACKING" /\ RadioRests /\ timer["tracker"] = Off
    /\ Attends \/ Denied
    /\ \/ timer["periodic"] = "TRACK_BEACON" /\ ts = {} /\ Reported = {} /\ ~Owing
       \/ timer["periodic"] = Off /\ ts = {"TRACK_BEACON"} /\ Reported = {} /\ ~Owing
       \/ timer["periodic"] = "TRACK_BEACON" /\ ts = {} /\ Reported = {"BEACON_TRACKED"}
       \/ /\ ~calm /\ timer["periodic"] = "TRACK_BEACON" /\ Reported = {"BEACON_TRACKED"}
          /\ \/ ts \in {{"TRACK_TIMEOUT"}, {"TRACK_TIMEOUT", DUR}}
             \/ Attends /\ ts = {"TRACK_SEARCH_TIMEOUT", DUR}

\* The beacon was not received.
Lost ==
    /\ tracker = "BCN_TRACKING_SEARCH" /\ RadioRests /\ timer["periodic"] = Off
    /\ \/ Attends /\ timer["tracker"] = "BEGIN_TRACK_SEARCH" /\ ts = {} /\ ms = {}
       \/ Attends /\ timer["tracker"] = Off /\ ts = {"BEGIN_TRACK_SEARCH"} /\ ms = {}
       \/ /\ Attends \/ Denied
          /\ timer["tracker"] = "BEGIN_TRACK_SEARCH" /\ ts = {}
          /\ Reported = {"TRACK_LOST_BEACON"}
       \/ /\ ~calm /\ (Attends \/ Denied)
          /\ timer["tracker"] = "BEGIN_TRACK_SEARCH" /\ ts = {}
          /\ Reported = {"BEACON_TRACKED", "TRACK_LOST_BEACON"}
       \/ /\ ~calm /\ Attends
          /\ timer["tracker"] = "BEGIN_TRACK_SEARCH" /\ ts = {"TRACK_SEARCH_TIMEOUT"}
          /\ Reported = {"BEACON_TRACKED", "TRACK_LOST_BEACON"}

Failed ==
    /\ tracker = "INITED" /\ RadioRests /\ ts = {}
    /\ timer["tracker"] = Off /\ timer["periodic"] = Off
    /\ Attends /\ "TRACK_FAILED" \in ms /\ (calm => ms = {"TRACK_FAILED"})

\* The engine waits for the gateway's part of the period for its frame.
Delaying ==
    /\ BetweenBeacons /\ RadioRests
    /\ \/ mac \in Transmitting /\ timer["mac"] = "SEND_FRAME" /\ ms = {}
       \/ mac \in Transmitting /\ timer["mac"] = Off /\ ms = {"SEND_FRAME"}
       \/ mac \in Receiving /\ timer["mac"] = "RECV_FRAME" /\ ms = {}
       \/ mac \in Receiving /\ timer["mac"] = Off /\ ms = {"RECV_FRAME"}
    /\ mac = "TX_JOIN_REQ" => has_pending_join_req

AwaitsFrame ==
    /\ BetweenBeacons
    /\ mac \in Receiving
    /\ Reception("mac_engine", "mac", "RECV_TIMEOUT", ms)

Sends ==
    /\ BetweenBeacons
    /\ mac \in Transmitting /\ timer["mac"] = Off
    /\ mac = "TX_JOIN_REQ" => has_pending_join_req /\ join_req.due = PACKED_ACK_DELAY_NUM
    /\ mac = "TX_FRAME" => pending > 0 /\ tx_due = PACKED_ACK_DELAY_NUM
    /\ \/ /\ caller = "mac_engine" /\ ms = {}
          /\ \/ radio = "TX" /\ timer["rlc"] = Off /\ rs = {"TX_START"}
             \/ radio = "TX" /\ timer["rlc"] = "TX_RAND_WAIT_TIMEOUT" /\ rs = {}
             \/ radio = "TX" /\ timer["rlc"] = Off /\ rs = {"TX_RAND_WAIT_TIMEOUT"}
             \/ /\ radio = "TX_CCA" /\ timer["rlc"] = Off
                /\ rs \in {{}, {"RX_OK"}, {"RX_CRC_ERROR"}, {"RX_TIMEOUT"}}
             \/ radio = "TX_ING" /\ timer["rlc"] = Off /\ rs \in {{}, {"TX_OK"}, {"TX_TIMEOUT"}}
       \/ RadioRests /\ \E r \in Results : ms = {r}

\* A signal that is too late for the state of its process: the next step stops
\* the device.
Doomed ==
    /\ ~calm /\ RadioRests
    /\ timer["tracker"] \notin Timeout /\ timer["mac"] \notin Timeout
    /\ \/ ts # {} /\ ~Known(tracker_order[tracker], ts)
       \/ ts = {} /\ ms # {} /\ ~Known(mac_order[mac], ms)

Phases ==
    \/ Booting \/ Starting \/ Searching \/ Searched \/ AwaitsBeacon \/ Tracking \/ Lost
    \/ Failed \/ Delaying \/ AwaitsFrame \/ Sends \/ Doomed

\* Calm: one signal is pending, or none.
OneAtATime ==
    calm => /\ Running
            /\ ~Booting => \A p, q \in Process : \A s \in sig[p], u \in sig[q] : p = q /\ s = u

\* The frame buffers.
NoneMissed ==
    /\ -1 \notin waiting
    /\ join_req.has_join_req /\ join_req.has_been_tx => join_req.due >= 0
Stored ==
    /\ IsFiniteSet(waiting) /\ pending + Cardinality(waiting) <= MaxMsgs
    /\ mac \in {"INITED"} \cup Joining => waiting = {}
    /\ mac \in Joined => ~join_req.has_join_req
Buffers ==
    /\ IsFiniteSet(waiting) /\ pending + Cardinality(waiting) <= MaxMsgs
    /\ NoneMissed
    /\ mac \in {"INITED"} \cup Joining => waiting = {}
    /\ mac \in Joined => ~join_req.has_join_req

\* The types, one by one.
RlcSignals == RadioEvent \cup {"INITED", "TX_START", "TX_RAND_WAIT_TIMEOUT", "RX_DURATION_TIMEOUT"}
TrackerSignals ==
    {"INIT_FINISHED", "SEARCH_TIMEOUT", "RLC_RX_DURATION_TIMEOUT", "RLC_RX_OK",
     "BEGIN_BEACON_TRACKING", "TRACK_BEACON", "TRACK_TIMEOUT", "BEGIN_TRACK_SEARCH",
     "TRACK_SEARCH_TIMEOUT"}
MacSignals ==
    {"INIT_FINISHED", "START_JOINING", "SEARCH_BEACON", "BEACON_NOT_FOUND", "BEACON_FOUND",
     "SEND_FRAME", "RECV_FRAME", "RLC_RX_OK", "RLC_RX_DURATION_TIMEOUT", "RECV_TIMEOUT"}
    \cup Reports \cup Results

Typed ==
    /\ sig = [q \in Process |-> sig[q]]
    /\ rs \subseteq RlcSignals /\ ts \subseteq TrackerSignals /\ ms \subseteq MacSignals
    /\ timer = [t \in Timer |-> timer[t]]
    /\ timer["rlc"] \in {Off} \cup RlcSignals
    /\ timer["tracker"] \in
          {Off, "SEARCH_TIMEOUT", "TRACK_TIMEOUT", "BEGIN_TRACK_SEARCH", "TRACK_SEARCH_TIMEOUT"}
    /\ timer["periodic"] \in {Off, "TRACK_BEACON"}
    /\ timer["mac"] \in {Off, "START_JOINING", "SEND_FRAME", "RECV_FRAME", "RECV_TIMEOUT"}
    /\ mac \in {"INITED"} \cup Joining \cup Joined
    /\ tracker \in TrackerState /\ radio \in RadioState
    /\ caller \in {"none", "mac_engine", "btracker"}
    /\ rx_buffer \in Frame /\ bcn \in Beacon /\ expected \in Expected
    /\ join_req \in JoinReq /\ pending \in 0..MaxMsgs /\ waiting \subseteq Due \cup {-1}
    /\ halted \in Reason /\ calm \in BOOLEAN

IInv == Typed /\ OneAtATime /\ Buffers /\ (Running => Phases)
----------------------------------------------------------------------------
(* The signals an entry knows, in each state                              *)

LEMMA TrackerKnows ==
    /\ Range(tracker_order["INITED"]) = {"INIT_FINISHED"}
    /\ Range(tracker_order["SEARCH_BEACON"]) =
          {"SEARCH_TIMEOUT", "RLC_RX_DURATION_TIMEOUT", "RLC_RX_OK"}
    /\ Range(tracker_order["BEACON_FOUND"]) = {"BEGIN_BEACON_TRACKING"}
    /\ Range(tracker_order["BCN_TRACKING"]) =
          {"TRACK_BEACON", "RLC_RX_OK", "RLC_RX_DURATION_TIMEOUT", "TRACK_TIMEOUT"}
    /\ Range(tracker_order["BCN_TRACKING_SEARCH"]) =
          {"BEGIN_TRACK_SEARCH", "RLC_RX_OK", "RLC_RX_DURATION_TIMEOUT", "TRACK_SEARCH_TIMEOUT"}
BY DEF tracker_order, Range

LEMMA MacKnows ==
    /\ Range(mac_order["INITED"]) = {"INIT_FINISHED", "START_JOINING"}
    /\ Range(mac_order["SEARCH_BEACON"]) = {"SEARCH_BEACON", "BEACON_NOT_FOUND", "BEACON_FOUND"}
    /\ \A state \in {"BEACON_FOUND", "IDLE"} : Range(mac_order[state]) = Reports
    /\ \A state \in Transmitting : Range(mac_order[state]) = {"SEND_FRAME"} \cup Results
    /\ \A state \in Receiving :
          Range(mac_order[state]) =
              {"RECV_FRAME", "RLC_RX_OK", "RLC_RX_DURATION_TIMEOUT", "RECV_TIMEOUT"}
<1> DEFINE o == <<"SEND_FRAME", "RLC_TX_OK">> \o TxFailed
<1>1. /\ DOMAIN o = 1..5 /\ o[1] = "SEND_FRAME" /\ o[2] = "RLC_TX_OK"
      /\ o[3] = "RLC_TX_CCA_FAILED" /\ o[4] = "RLC_TX_CCA_CRC_FAIL" /\ o[5] = "RLC_TX_TIMEOUT"
  BY DEF TxFailed
<1>2. mac_order["TX_JOIN_REQ"] = o /\ mac_order["TX_FRAME"] = o
  BY DEF mac_order
<1> HIDE DEF o
<1>3. \A state \in Transmitting : Range(mac_order[state]) = {"SEND_FRAME"} \cup Results
  <2>1. Range(o) = {o[1], o[2], o[3], o[4], o[5]}
    BY <1>1 DEF Range
  <2> QED
    BY <1>1, <1>2, <2>1 DEF Transmitting, Results
<1>4. /\ Range(mac_order["INITED"]) = {"INIT_FINISHED", "START_JOINING"}
      /\ Range(mac_order["SEARCH_BEACON"]) = {"SEARCH_BEACON", "BEACON_NOT_FOUND", "BEACON_FOUND"}
      /\ \A state \in {"BEACON_FOUND", "IDLE"} : Range(mac_order[state]) = Reports
  BY DEF mac_order, Range, Reports
<1>5. \A state \in Receiving :
          mac_order[state] =
              <<"RECV_FRAME", "RLC_RX_OK", "RLC_RX_DURATION_TIMEOUT", "RECV_TIMEOUT">>
  BY DEF mac_order, Receiving
<1>6. \A state \in Receiving :
          Range(mac_order[state]) =
              {"RECV_FRAME", "RLC_RX_OK", "RLC_RX_DURATION_TIMEOUT", "RECV_TIMEOUT"}
  BY <1>5 DEF Range
<1> QED
  BY <1>3, <1>4, <1>6

LEMMA RadioKnows ==
    /\ Range(radio_order["RX"]) = {"RX_OK", "RX_CRC_ERROR", "RX_TIMEOUT"}
    /\ Range(radio_order["TX_CCA"]) = {"RX_OK", "RX_CRC_ERROR", "RX_TIMEOUT"}
    /\ Range(radio_order["TX_ING"]) = {"TX_OK", "TX_TIMEOUT"}
    /\ Range(own_order) = {"INITED", "TX_START", "TX_RAND_WAIT_TIMEOUT", "RX_DURATION_TIMEOUT"}
BY DEF radio_order, own_order, Range

LEMMA SignalSets ==
    /\ SignalOf["rlc"] = RlcSignals
    /\ SignalOf["btracker"] = TrackerSignals
    /\ SignalOf["mac_engine"] = MacSignals
<1>1. SignalOf["rlc"] = RlcSignals
  BY RadioKnows DEF SignalOf, RlcSignals
<1>2. SignalOf["btracker"] = UNION {Range(tracker_order[s]) : s \in TrackerState}
  BY DEF SignalOf
<1>3. SignalOf["btracker"] = TrackerSignals
  BY <1>2, TrackerKnows DEF TrackerSignals, TrackerState
<1>4. DOMAIN mac_order = {"INITED", "SEARCH_BEACON", "BEACON_FOUND", "IDLE"} \cup Transmitting \cup Receiving
  BY DEF mac_order, Transmitting, Receiving
<1>5. SignalOf["mac_engine"] = UNION {Range(mac_order[s]) : s \in DOMAIN mac_order}
  BY DEF SignalOf
<1>6. SignalOf["mac_engine"] = MacSignals
  <2>1. SignalOf["mac_engine"] \subseteq MacSignals
    BY <1>4, <1>5, MacKnows DEF MacSignals
  <2>2. "TX_FRAME" \in Transmitting /\ "RX_FRAME" \in Receiving
    BY DEF Transmitting, Receiving
  <2>3. /\ Range(mac_order["INITED"]) \subseteq SignalOf["mac_engine"]
        /\ Range(mac_order["SEARCH_BEACON"]) \subseteq SignalOf["mac_engine"]
        /\ Range(mac_order["IDLE"]) \subseteq SignalOf["mac_engine"]
        /\ Range(mac_order["TX_FRAME"]) \subseteq SignalOf["mac_engine"]
        /\ Range(mac_order["RX_FRAME"]) \subseteq SignalOf["mac_engine"]
    BY <1>4, <1>5, <2>2
  <2>4. MacSignals \subseteq SignalOf["mac_engine"]
    BY <2>2, <2>3, MacKnows DEF MacSignals
  <2> QED
    BY <2>1, <2>4
<1> QED
  BY <1>1, <1>3, <1>6

LEMMA TypedIsTypeOK == Typed /\ tx_due \in Due \cup {-1} /\ overtaken \in BOOLEAN => TypeOK
<1> SUFFICES ASSUME Typed, tx_due \in Due \cup {-1}, overtaken \in BOOLEAN PROVE TypeOK
  OBVIOUS
<1>1. \A p \in Process : SignalOf[p] \subseteq UNION Range(SignalOf)
  <2>1. DOMAIN SignalOf = Process
    BY DEF SignalOf, Process
  <2> QED
    BY <2>1 DEF Range
<1>2. \A p \in Process : sig[p] \subseteq SignalOf[p]
  BY SignalSets DEF Typed, Process, rs, ts, ms
<1>3. sig \in [Process -> SUBSET UNION Range(SignalOf)]
  BY <1>1, <1>2 DEF Typed
<1>4. \A t \in Timer : timer[t] \in {Off} \cup SignalOf[Owner[t]] /\ Owner[t] \in Process
  BY SignalSets DEF Typed, Timer, Owner, Process, TrackerSignals, MacSignals
<1>5. timer \in [Timer -> {Off} \cup UNION Range(SignalOf)]
  BY <1>1, <1>4 DEF Typed
<1> QED
  BY <1>2, <1>3, <1>4, <1>5 DEF Typed, TypeOK

----------------------------------------------------------------------------
(* What a call of an entry does to signals and timers                     *)

Sigs(r, t, m) ==
    /\ sig' = [q \in Process |-> sig'[q]]
    /\ rs' = r /\ ts' = t /\ ms' = m

Timers(m, t, p, r) ==
    /\ timer' = [x \in Timer |-> timer'[x]]
    /\ timer'["mac"] = m /\ timer'["tracker"] = t /\ timer'["periodic"] = p /\ timer'["rlc"] = r

\* Signals(p, s, raised), with one signal raised or none.
LEMMA NoneIsRaised ==
    ASSUME NEW p \in Process, NEW s, Signals(p, s, NoneRaised)
    PROVE  sig' = [q \in Process |-> IF q = p THEN sig[q] \ {s} ELSE sig[q]]
<1>1. \A q \in Process : q \notin DOMAIN NoneRaised
  BY DEF NoneRaised
<1>2. \A S : S \cup {} = S
  OBVIOUS
<1>3. sig' = [q \in Process |-> (IF q = p THEN sig[q] \ {s} ELSE sig[q]) \cup {}]
  BY <1>1 DEF Signals
<1> QED
  BY <1>2, <1>3

LEMMA AllProcesses ==
    /\ "rlc" \in Process /\ "btracker" \in Process /\ "mac_engine" \in Process
    /\ \A p \in Process : p = "rlc" \/ p = "btracker" \/ p = "mac_engine"
BY DEF Process

\* p has taken s, and u is raised for r.
RaisedOne(p, s, r, u) ==
    /\ sig' = [q \in Process |-> sig'[q]]
    /\ \A q \in Process :
          /\ q = p /\ q = r => sig'[q] = (sig[q] \ {s}) \cup {u}
          /\ q = p /\ q # r => sig'[q] = sig[q] \ {s}
          /\ q # p /\ q = r => sig'[q] = sig[q] \cup {u}
          /\ q # p /\ q # r => sig'[q] = sig[q]

LEMMA OneIsRaised ==
    ASSUME NEW p \in Process, NEW s, NEW r, NEW u, NEW raised,
           DOMAIN raised = {r}, raised[r] = {u}, Signals(p, s, raised)
    PROVE  RaisedOne(p, s, r, u)
<1>1. sig' = [q \in Process |-> sig'[q]]
  BY DEF Signals
<1>2. ASSUME NEW q \in Process
      PROVE  sig'[q] = (IF q = p THEN sig[q] \ {s} ELSE sig[q])
                       \cup (IF q \in DOMAIN raised THEN raised[q] ELSE {})
  BY <1>2 DEF Signals
<1>3. \A S : S \cup {} = S
  OBVIOUS
<1>4. ASSUME NEW q \in Process
      PROVE  /\ q = p /\ q = r => sig'[q] = (sig[q] \ {s}) \cup {u}
             /\ q = p /\ q # r => sig'[q] = sig[q] \ {s}
             /\ q # p /\ q = r => sig'[q] = sig[q] \cup {u}
             /\ q # p /\ q # r => sig'[q] = sig[q]
  <2>1. CASE q = p /\ q = r
    BY <1>2, <2>1
  <2>2. CASE q = p /\ q # r
    BY <1>2, <1>3, <2>2
  <2>3. CASE q # p /\ q = r
    BY <1>2, <2>3
  <2>4. CASE q # p /\ q # r
    BY <1>2, <1>3, <2>4
  <2> QED
    BY <2>1, <2>2, <2>3, <2>4
<1> QED
  BY <1>1, <1>4 DEF RaisedOne

LEMMA RlcTakesIt ==
    ASSUME NEW s
    PROVE  /\ Signals("rlc", s, NoneRaised) => Sigs(rs \ {s}, ts, ms)
           /\ \A u : caller = "btracker" /\ Signals("rlc", s, ToCaller(u))
                         => Sigs(rs \ {s}, ts \cup {u}, ms)
           /\ \A u : caller = "mac_engine" /\ Signals("rlc", s, ToCaller(u))
                         => Sigs(rs \ {s}, ts, ms \cup {u})
<1>1. ASSUME Signals("rlc", s, NoneRaised) PROVE Sigs(rs \ {s}, ts, ms)
  BY <1>1, NoneIsRaised DEF Sigs, Process, rs, ts, ms
<1>2. ASSUME NEW u, caller = "btracker", Signals("rlc", s, ToCaller(u))
      PROVE  Sigs(rs \ {s}, ts \cup {u}, ms)
  <2> DEFINE raised == ToCaller(u)
  <2>1. DOMAIN raised = {"btracker"} /\ raised["btracker"] = {u}
    BY <1>2 DEF ToCaller
  <2>2. Signals("rlc", s, raised)
    BY <1>2
  <2> HIDE DEF raised
  <2>3. "rlc" \in Process
    BY AllProcesses
  <2>4. RaisedOne("rlc", s, "btracker", u)
    BY ONLY <2>1, <2>2, <2>3, OneIsRaised
  <2> QED
    BY <2>4, AllProcesses DEF RaisedOne, Sigs, rs, ts, ms
<1>3. ASSUME NEW u, caller = "mac_engine", Signals("rlc", s, ToCaller(u))
      PROVE  Sigs(rs \ {s}, ts, ms \cup {u})
  <2> DEFINE raised == ToCaller(u)
  <2>1. DOMAIN raised = {"mac_engine"} /\ raised["mac_engine"] = {u}
    BY <1>3 DEF ToCaller
  <2>2. Signals("rlc", s, raised)
    BY <1>3
  <2> HIDE DEF raised
  <2>3. "rlc" \in Process
    BY AllProcesses
  <2>4. RaisedOne("rlc", s, "mac_engine", u)
    BY ONLY <2>1, <2>2, <2>3, OneIsRaised
  <2> QED
    BY <2>4, AllProcesses DEF RaisedOne, Sigs, rs, ts, ms
<1> QED
  BY <1>1, <1>2, <1>3

LEMMA TrackerTakesIt ==
    ASSUME NEW s
    PROVE  /\ Signals("btracker", s, NoneRaised) => Sigs(rs, ts \ {s}, ms)
           /\ \A u : Signals("btracker", s, ToMac(u)) => Sigs(rs, ts \ {s}, ms \cup {u})
<1>1. ASSUME Signals("btracker", s, NoneRaised) PROVE Sigs(rs, ts \ {s}, ms)
  BY <1>1, NoneIsRaised DEF Sigs, Process, rs, ts, ms
<1>2. ASSUME NEW u, Signals("btracker", s, ToMac(u))
      PROVE  Sigs(rs, ts \ {s}, ms \cup {u})
  <2> DEFINE raised == ToMac(u)
  <2>1. DOMAIN raised = {"mac_engine"} /\ raised["mac_engine"] = {u}
    BY DEF ToMac
  <2>2. Signals("btracker", s, raised)
    BY <1>2
  <2> HIDE DEF raised
  <2>3. "btracker" \in Process
    BY AllProcesses
  <2>4. RaisedOne("btracker", s, "mac_engine", u)
    BY ONLY <2>1, <2>2, <2>3, OneIsRaised
  <2> QED
    BY <2>4, AllProcesses DEF RaisedOne, Sigs, rs, ts, ms
<1> QED
  BY <1>1, <1>2

LEMMA MacTakesIt ==
    ASSUME NEW s
    PROVE  /\ Signals("mac_engine", s, NoneRaised) => Sigs(rs, ts, ms \ {s})
           /\ \A u : Signals("mac_engine", s, ToTracker(u)) => Sigs(rs, ts \cup {u}, ms \ {s})
           /\ \A u : Signals("mac_engine", s, ToRlc(u)) => Sigs(rs \cup {u}, ts, ms \ {s})
           /\ \A u : Signals("mac_engine", s, [q \in {"mac_engine"} |-> {u}])
                         => Sigs(rs, ts, (ms \ {s}) \cup {u})
<1>1. ASSUME Signals("mac_engine", s, NoneRaised) PROVE Sigs(rs, ts, ms \ {s})
  BY <1>1, NoneIsRaised DEF Sigs, Process, rs, ts, ms
<1>2. ASSUME NEW u, Signals("mac_engine", s, ToTracker(u))
      PROVE  Sigs(rs, ts \cup {u}, ms \ {s})
  <2> DEFINE raised == ToTracker(u)
  <2>1. DOMAIN raised = {"btracker"} /\ raised["btracker"] = {u}
    BY DEF ToTracker
  <2>2. Signals("mac_engine", s, raised)
    BY <1>2
  <2> HIDE DEF raised
  <2>3. "mac_engine" \in Process
    BY AllProcesses
  <2>4. RaisedOne("mac_engine", s, "btracker", u)
    BY ONLY <2>1, <2>2, <2>3, OneIsRaised
  <2> QED
    BY <2>4, AllProcesses DEF RaisedOne, Sigs, rs, ts, ms
<1>3. ASSUME NEW u, Signals("mac_engine", s, ToRlc(u))
      PROVE  Sigs(rs \cup {u}, ts, ms \ {s})
  <2> DEFINE raised == ToRlc(u)
  <2>1. DOMAIN raised = {"rlc"} /\ raised["rlc"] = {u}
    BY DEF ToRlc
  <2>2. Signals("mac_engine", s, raised)
    BY <1>3
  <2> HIDE DEF raised
  <2>3. "mac_engine" \in Process
    BY AllProcesses
  <2>4. RaisedOne("mac_engine", s, "rlc", u)
    BY ONLY <2>1, <2>2, <2>3, OneIsRaised
  <2> QED
    BY <2>4, AllProcesses DEF RaisedOne, Sigs, rs, ts, ms
<1>4. ASSUME NEW u, Signals("mac_engine", s, [q \in {"mac_engine"} |-> {u}])
      PROVE  Sigs(rs, ts, (ms \ {s}) \cup {u})
  <2> DEFINE raised == [q \in {"mac_engine"} |-> {u}]
  <2>1. DOMAIN raised = {"mac_engine"} /\ raised["mac_engine"] = {u}
    OBVIOUS
  <2>2. Signals("mac_engine", s, raised)
    BY <1>4
  <2> HIDE DEF raised
  <2>3. "mac_engine" \in Process
    BY AllProcesses
  <2>4. RaisedOne("mac_engine", s, "mac_engine", u)
    BY ONLY <2>1, <2>2, <2>3, OneIsRaised
  <2> QED
    BY <2>4, AllProcesses DEF RaisedOne, Sigs, rs, ts, ms
<1> QED
  BY <1>1, <1>2, <1>3, <1>4

LEMMA TimersNow ==
    ASSUME Typed
    PROVE  /\ UNCHANGED timer
                 => Timers(timer["mac"], timer["tracker"], timer["periodic"], timer["rlc"])
           /\ \A s : timer' = Started(timer, "mac", s)
                 => Timers(s, timer["tracker"], timer["periodic"], timer["rlc"])
           /\ \A s : timer' = Started(timer, "rlc", s)
                 => Timers(timer["mac"], timer["tracker"], timer["periodic"], s)
           /\ NextBeacon(timer)
                 => Timers(timer["mac"], timer["tracker"], "TRACK_BEACON", timer["rlc"])
           /\ timer' = Stopped(timer, {"mac"})
                 => Timers(Off, timer["tracker"], timer["periodic"], timer["rlc"])
           /\ timer' = Stopped(timer, {"tracker", "periodic", "rlc"})
                 => Timers(timer["mac"], Off, Off, Off)
           /\ \A s : timer' = Started(Stopped(timer, {"tracker", "periodic", "rlc"}), "mac", s)
                 => Timers(s, Off, Off, Off)
<1> USE DEF Typed, Timers, Timer
<1>1. UNCHANGED timer
          => Timers(timer["mac"], timer["tracker"], timer["periodic"], timer["rlc"])
  OBVIOUS
<1>2. \A s : timer' = Started(timer, "mac", s)
          => Timers(s, timer["tracker"], timer["periodic"], timer["rlc"])
  BY DEF Started
<1>3. \A s : timer' = Started(timer, "rlc", s)
          => Timers(timer["mac"], timer["tracker"], timer["periodic"], s)
  BY DEF Started
<1>4. NextBeacon(timer)
          => Timers(timer["mac"], timer["tracker"], "TRACK_BEACON", timer["rlc"])
  BY DEF NextBeacon, Started
<1>5. timer' = Stopped(timer, {"mac"})
          => Timers(Off, timer["tracker"], timer["periodic"], timer["rlc"])
  BY DEF Stopped
<1>6. timer' = Stopped(timer, {"tracker", "periodic", "rlc"}) => Timers(timer["mac"], Off, Off, Off)
  BY DEF Stopped
<1>7. \A s : timer' = Started(Stopped(timer, {"tracker", "periodic", "rlc"}), "mac", s)
          => Timers(s, Off, Off, Off)
  BY DEF Stopped, Started
<1> QED
  BY <1>1, <1>2, <1>3, <1>4, <1>5, <1>6, <1>7

\* The controller's timer once the radio has been stopped.
RlcStopped == IF radio = "RX" THEN Off ELSE timer["rlc"]

LEMMA TimersAfterStop ==
    ASSUME Typed
    PROVE  /\ timer' = AfterStop
                 => Timers(timer["mac"], timer["tracker"], timer["periodic"], RlcStopped)
           /\ timer' = Stopped(AfterStop, {"mac"})
                 => Timers(Off, timer["tracker"], timer["periodic"], RlcStopped)
           /\ \A s : timer' = Started(Stopped(AfterStop, {"mac"}), "mac", s)
                 => Timers(s, timer["tracker"], timer["periodic"], RlcStopped)
           /\ timer' = Stopped(AfterStop, {"tracker"})
                 => Timers(timer["mac"], Off, timer["periodic"], RlcStopped)
           /\ NextBeacon(Stopped(AfterStop, {"tracker"}))
                 => Timers(timer["mac"], Off, "TRACK_BEACON", RlcStopped)
           /\ \A s : timer' = Started(Stopped(AfterStop, {"periodic"}), "tracker", s)
                 => Timers(timer["mac"], s, Off, RlcStopped)
           /\ \A p, s : Listening(p, AfterStop, "tracker", s)
                 => Timers(timer["mac"], s, timer["periodic"], "RX_DURATION_TIMEOUT")
           /\ \A p, s : Listening(p, timer, "mac", s)
                 => Timers(s, timer["tracker"], timer["periodic"], "RX_DURATION_TIMEOUT")
<1> DEFINE a == AfterStop
<1>1. /\ a = [x \in Timer |-> a[x]]
      /\ a["mac"] = timer["mac"] /\ a["tracker"] = timer["tracker"]
      /\ a["periodic"] = timer["periodic"] /\ a["rlc"] = RlcStopped
  BY DEF Typed, AfterStop, Stopped, Timer, RlcStopped
<1> HIDE DEF a
<1> USE <1>1 DEF Timers, Timer
<1>2. timer' = a
          => Timers(timer["mac"], timer["tracker"], timer["periodic"], RlcStopped)
  OBVIOUS
<1>3. timer' = Stopped(a, {"mac"})
          => Timers(Off, timer["tracker"], timer["periodic"], RlcStopped)
  BY DEF Stopped
<1>4. \A s : timer' = Started(Stopped(a, {"mac"}), "mac", s)
          => Timers(s, timer["tracker"], timer["periodic"], RlcStopped)
  BY DEF Stopped, Started
<1>5. timer' = Stopped(a, {"tracker"})
          => Timers(timer["mac"], Off, timer["periodic"], RlcStopped)
  BY DEF Stopped
<1>6. NextBeacon(Stopped(a, {"tracker"}))
          => Timers(timer["mac"], Off, "TRACK_BEACON", RlcStopped)
  BY DEF Stopped, Started, NextBeacon
<1>7. \A s : timer' = Started(Stopped(a, {"periodic"}), "tracker", s)
          => Timers(timer["mac"], s, Off, RlcStopped)
  BY DEF Stopped, Started
<1>8. \A p, s : Listening(p, a, "tracker", s)
          => Timers(timer["mac"], s, timer["periodic"], "RX_DURATION_TIMEOUT")
  BY DEF Listening, Started
<1>9. \A p, s : Listening(p, timer, "mac", s)
          => Timers(s, timer["tracker"], timer["periodic"], "RX_DURATION_TIMEOUT")
  BY DEF Typed, Listening, Started
<1> QED
  BY <1>2, <1>3, <1>4, <1>5, <1>6, <1>7, <1>8, <1>9 DEF a

----------------------------------------------------------------------------
(* Whose turn it is                                                       *)

\* One signal of one process, or none.
Few(r, t, m) ==
    \/ r = {} /\ t = {} /\ m = {}
    \/ \E s : \/ r = {s} /\ t = {} /\ m = {}
              \/ r = {} /\ t = {s} /\ m = {}
              \/ r = {} /\ t = {} /\ m = {s}

LEMMA FewSignals ==
    /\ Few(rs, ts, ms) => \A p, q \in Process : \A s \in sig[p], u \in sig[q] : p = q /\ s = u
    /\ (\A p, q \in Process : \A s \in sig[p], u \in sig[q] : p = q /\ s = u) => Few(rs, ts, ms)
<1>1. ASSUME Few(rs, ts, ms), NEW p \in Process, NEW q \in Process,
             NEW s \in sig[p], NEW u \in sig[q]
      PROVE  p = q /\ s = u
  BY <1>1, AllProcesses DEF Few, rs, ts, ms
<1>2. ASSUME \A p, q \in Process : \A s \in sig[p], u \in sig[q] : p = q /\ s = u
      PROVE  Few(rs, ts, ms)
  <2>1. CASE rs # {}
    <3>1. PICK s : s \in rs
      BY <2>1
    <3> QED
      BY <1>2, <3>1, AllProcesses DEF Few, rs, ts, ms
  <2>2. CASE rs = {} /\ ts # {}
    <3>1. PICK s : s \in ts
      BY <2>2
    <3> QED
      BY <1>2, <2>2, <3>1, AllProcesses DEF Few, rs, ts, ms
  <2>3. CASE rs = {} /\ ts = {} /\ ms # {}
    <3>1. PICK s : s \in ms
      BY <2>3
    <3> QED
      BY <1>2, <2>3, <3>1, AllProcesses DEF Few, rs, ts, ms
  <2>4. CASE rs = {} /\ ts = {} /\ ms = {}
    BY <2>4 DEF Few
  <2> QED
    BY <2>1, <2>2, <2>3, <2>4
<1> QED
  BY <1>1, <1>2

LEMMA StaysCalm ==
    ASSUME calm' => Running' /\ (Booting' \/ Few(rs', ts', ms'))
    PROVE  OneAtATime'
<1>1. Few(rs, ts, ms)' => (\A p, q \in Process : \A s \in sig[p], u \in sig[q] : p = q /\ s = u)'
  BY FewSignals, PTL
<1> QED
  BY <1>1 DEF OneAtATime, Few

LEMMA Halts ==
    ASSUME IInv, NEW reason \in Reason \ {"no"}, Halt(reason), ~calm
    PROVE  IInv'
<1>1. /\ halted' = reason
      /\ UNCHANGED <<mac, tracker, radio, caller, sig, timer, rx_buffer, bcn, expected, calm>>
      /\ UNCHANGED <<join_req, pending, waiting>>
  BY DEF Halt, frames
<1>2. Typed'
  BY <1>1 DEF IInv, Typed, rs, ts, ms
<1>3. OneAtATime'
  BY <1>1 DEF OneAtATime
<1>4. Buffers'
  BY <1>1 DEF IInv, Buffers, NoneMissed
<1>5. ~Running'
  BY <1>1 DEF Running
<1> QED
  BY <1>2, <1>3, <1>4, <1>5 DEF IInv

LEMMA First ==
    ASSUME NEW s, NEW order, NEW signals, IsFirst(s, order, signals)
    PROVE  s \in signals /\ s \in Range(order) /\ Known(order, signals)
BY DEF IsFirst, Known, Range

\* What is pending when p takes s.
Alone(p, s) ==
    \/ p = "rlc" /\ rs = {s} /\ ts = {} /\ ms = {}
    \/ p = "btracker" /\ rs = {} /\ ts = {s} /\ ms = {}
    \/ p = "mac_engine" /\ rs = {} /\ ts = {} /\ ms = {s}

LEMMA OnlyOne ==
    ASSUME IInv, calm, ~Booting, NEW p \in Process, NEW s \in sig[p]
    PROVE  Alone(p, s)
<1>1. Few(rs, ts, ms)
  BY FewSignals DEF IInv, OneAtATime
<1> QED
  BY <1>1, AllProcesses DEF Few, Alone, rs, ts, ms

LEMMA TrackerTakesTurn ==
    ASSUME IInv, NEW state, NEW s, TrackerTakes(state, s)
    PROVE  /\ Typed /\ Running /\ Phases /\ ~Doomed
           /\ tracker = state /\ rs = {} /\ s \in ts
           /\ calm => Booting \/ (ts = {s} /\ ms = {})
<1>1. /\ Running /\ rs = {} /\ tracker = state /\ s \in ts
      /\ Known(tracker_order[tracker], ts)
  BY First DEF TrackerTakes, Runs, Before, rs, ts
<1>2. calm => Booting \/ (ts = {s} /\ ms = {})
  BY <1>1, OnlyOne, AllProcesses DEF Alone, ts
<1> QED
  BY <1>1, <1>2 DEF IInv, Doomed

LEMMA MacTakesTurn ==
    ASSUME IInv, NEW state, NEW s, MacTakes(state, s)
    PROVE  /\ Typed /\ Running /\ Phases /\ ~Doomed
           /\ mac = state /\ rs = {} /\ ts = {} /\ s \in ms
           /\ calm => Booting \/ ms = {s}
<1>1. /\ Running /\ rs = {} /\ ts = {} /\ mac = state /\ s \in ms
      /\ Known(mac_order[mac], ms)
  BY First DEF MacTakes, Runs, Before, rs, ts, ms
<1>2. calm => Booting \/ ms = {s}
  BY <1>1, OnlyOne, AllProcesses DEF Alone, ms
<1> QED
  BY <1>1, <1>2 DEF IInv, Doomed

LEMMA TrackerOrder ==
    ASSUME NEW S
    PROVE  /\ IsFirst("RLC_RX_OK", tracker_order["SEARCH_BEACON"], S) =>
                 "SEARCH_TIMEOUT" \notin S /\ DUR \notin S
           /\ IsFirst(DUR, tracker_order["SEARCH_BEACON"], S) => "SEARCH_TIMEOUT" \notin S
           /\ IsFirst(DUR, tracker_order["BCN_TRACKING"], S) => "RLC_RX_OK" \notin S
           /\ IsFirst("TRACK_TIMEOUT", tracker_order["BCN_TRACKING"], S) =>
                 "RLC_RX_OK" \notin S /\ DUR \notin S
           /\ IsFirst(DUR, tracker_order["BCN_TRACKING_SEARCH"], S) => "RLC_RX_OK" \notin S
           /\ IsFirst("TRACK_SEARCH_TIMEOUT", tracker_order["BCN_TRACKING_SEARCH"], S) =>
                 "RLC_RX_OK" \notin S /\ DUR \notin S
<1>1. /\ tracker_order["SEARCH_BEACON"] =
            <<"SEARCH_TIMEOUT", "RLC_RX_DURATION_TIMEOUT", "RLC_RX_OK">>
      /\ tracker_order["BCN_TRACKING"] =
            <<"TRACK_BEACON", "RLC_RX_OK", "RLC_RX_DURATION_TIMEOUT", "TRACK_TIMEOUT">>
      /\ tracker_order["BCN_TRACKING_SEARCH"] =
            <<"BEGIN_TRACK_SEARCH", "RLC_RX_OK", "RLC_RX_DURATION_TIMEOUT", "TRACK_SEARCH_TIMEOUT">>
  BY DEF tracker_order
<1>2. IsFirst("RLC_RX_OK", tracker_order["SEARCH_BEACON"], S) =>
          "SEARCH_TIMEOUT" \notin S /\ DUR \notin S
  BY <1>1 DEF IsFirst, DUR
<1>3. IsFirst(DUR, tracker_order["SEARCH_BEACON"], S) => "SEARCH_TIMEOUT" \notin S
  BY <1>1 DEF IsFirst, DUR
<1>4. IsFirst(DUR, tracker_order["BCN_TRACKING"], S) => "RLC_RX_OK" \notin S
  BY <1>1 DEF IsFirst, DUR
<1>5. IsFirst("TRACK_TIMEOUT", tracker_order["BCN_TRACKING"], S) => "RLC_RX_OK" \notin S /\ DUR \notin S
  BY <1>1 DEF IsFirst, DUR
<1>6. IsFirst(DUR, tracker_order["BCN_TRACKING_SEARCH"], S) => "RLC_RX_OK" \notin S
  BY <1>1 DEF IsFirst, DUR
<1>7. IsFirst("TRACK_SEARCH_TIMEOUT", tracker_order["BCN_TRACKING_SEARCH"], S) =>
          "RLC_RX_OK" \notin S /\ DUR \notin S
  BY <1>1 DEF IsFirst, DUR
<1> QED
  BY <1>2, <1>3, <1>4, <1>5, <1>6, <1>7

LEMMA MacOrder ==
    ASSUME NEW S, NEW state
    PROVE  /\ state \in Receiving =>
                 /\ IsFirst(DUR, mac_order[state], S) => "RLC_RX_OK" \notin S
                 /\ IsFirst("RECV_TIMEOUT", mac_order[state], S) => "RLC_RX_OK" \notin S /\ DUR \notin S
           /\ state \in {"BEACON_FOUND", "IDLE"} =>
                 /\ IsFirst("TRACK_LOST_BEACON", mac_order[state], S) => "BEACON_TRACKED" \notin S
                 /\ IsFirst("TRACK_FAILED", mac_order[state], S) =>
                       "BEACON_TRACKED" \notin S /\ "TRACK_LOST_BEACON" \notin S
<1>1. /\ state \in Receiving => mac_order[state] =
            <<"RECV_FRAME", "RLC_RX_OK", "RLC_RX_DURATION_TIMEOUT", "RECV_TIMEOUT">>
      /\ state \in {"BEACON_FOUND", "IDLE"} => mac_order[state] =
            <<"BEACON_TRACKED", "TRACK_LOST_BEACON", "TRACK_FAILED">>
  BY DEF mac_order, Receiving
<1>2. state \in Receiving =>
          /\ IsFirst(DUR, mac_order[state], S) => "RLC_RX_OK" \notin S
          /\ IsFirst("RECV_TIMEOUT", mac_order[state], S) => "RLC_RX_OK" \notin S /\ DUR \notin S
  BY <1>1 DEF IsFirst, DUR
<1>3. state \in {"BEACON_FOUND", "IDLE"} =>
          /\ IsFirst("TRACK_LOST_BEACON", mac_order[state], S) => "BEACON_TRACKED" \notin S
          /\ IsFirst("TRACK_FAILED", mac_order[state], S) =>
                "BEACON_TRACKED" \notin S /\ "TRACK_LOST_BEACON" \notin S
  BY <1>1 DEF IsFirst
<1> QED
  BY <1>2, <1>3

----------------------------------------------------------------------------
(* The phases by the states of the processes                              *)

LEMMA TrackerPhases ==
    ASSUME Phases, ~Doomed
    PROVE  /\ tracker = "INITED" => Booting \/ Starting \/ Searched \/ Failed
           /\ tracker = "SEARCH_BEACON" => Searching
           /\ tracker = "BEACON_FOUND" => Searched
           /\ tracker = "BCN_TRACKING" => AwaitsBeacon \/ Tracking \/ Delaying \/ AwaitsFrame \/ Sends
           /\ tracker = "BCN_TRACKING_SEARCH" => AwaitsBeacon \/ Lost
BY DEF Phases, Booting, Starting, Searching, Searched, AwaitsBeacon, Tracking, Lost, Failed,
       Delaying, AwaitsFrame, Sends, BetweenBeacons

LEMMA MacPhases ==
    ASSUME Phases, ~Doomed
    PROVE  /\ mac = "INITED" => Booting \/ Starting \/ AwaitsBeacon \/ Tracking \/ Lost
           /\ mac = "SEARCH_BEACON" =>
                 Starting \/ Searching \/ Searched \/ AwaitsBeacon \/ Tracking \/ Lost
           /\ mac \in {"BEACON_FOUND", "IDLE"} =>
                 Searched \/ AwaitsBeacon \/ Tracking \/ Lost \/ Failed
           /\ mac \in Transmitting => Delaying \/ Sends
           /\ mac \in Receiving => Delaying \/ AwaitsFrame
<1> USE DEF Transmitting, Receiving, Attends, Denied
<1>1. Booting => mac = "INITED"
  BY DEF Booting
<1>2. Starting => mac \in {"INITED", "SEARCH_BEACON"}
  BY DEF Starting
<1>3. Searching => mac = "SEARCH_BEACON"
  BY DEF Searching
<1>4. Searched => mac \in {"SEARCH_BEACON", "BEACON_FOUND"}
  BY DEF Searched
<1>5. AwaitsBeacon \/ Tracking \/ Lost => mac \in {"INITED", "SEARCH_BEACON", "BEACON_FOUND", "IDLE"}
  BY DEF AwaitsBeacon, Tracking, Lost
<1>6. Failed => mac \in {"BEACON_FOUND", "IDLE"}
  BY DEF Failed
<1>7. Delaying => mac \in Transmitting \cup Receiving
  BY DEF Delaying
<1>8. AwaitsFrame => mac \in Receiving
  BY DEF AwaitsFrame
<1>9. Sends => mac \in Transmitting
  BY DEF Sends
<1> QED
  BY <1>1, <1>2, <1>3, <1>4, <1>5, <1>6, <1>7, <1>8, <1>9 DEF Phases

----------------------------------------------------------------------------
(* The tracker                                                            *)

LEMMA SearchTimeoutKeeps ==
    ASSUME IInv, SearchTimeout
    PROVE  IInv'
<1> DEFINE s == "SEARCH_TIMEOUT"
<1>1. /\ Typed /\ Buffers /\ Searching /\ Running /\ tracker = "SEARCH_BEACON"
      /\ rs = {} /\ s \in ts /\ (calm => ts = {s})
  BY TrackerTakesTurn, TrackerPhases DEF SearchTimeout, Searching, Booting, IInv
<1>2. /\ mac = "SEARCH_BEACON" /\ ms = {} /\ timer["mac"] = Off /\ timer["periodic"] = Off
      /\ MayStop /\ ts \subseteq {s, DUR, "RLC_RX_OK"}
  BY <1>1 DEF Searching, Reception, Receives, BothBounds, RadioRests, MayStop
<1>3. /\ GivesUp(s, "BEACON_NOT_FOUND") /\ UNCHANGED <<halted, calm>>
  BY <1>2 DEF SearchTimeout, Asserting
<1>4. /\ Sigs({}, ts \ {s}, {"BEACON_NOT_FOUND"}) /\ Timers(Off, Off, Off, Off)
      /\ tracker' = "INITED" /\ radio' = "IDLE"
      /\ UNCHANGED <<mac, caller, rx_buffer, bcn, expected, join_req, pending, waiting, halted, calm>>
  <2>1. Signals("btracker", s, ToMac("BEACON_NOT_FOUND")) /\ btracker_reset
    BY <1>3 DEF GivesUp
  <2>2. Sigs(rs, ts \ {s}, ms \cup {"BEACON_NOT_FOUND"})
    BY <2>1, TrackerTakesIt
  <2> QED
    BY <1>1, <1>2, <1>3, <2>1, <2>2, TimersNow DEF GivesUp, btracker_reset, frames
<1>5. Typed'
  BY <1>1, <1>2, <1>4 DEF Typed, Sigs, Timers, TrackerState, RadioState, MacSignals
<1>6. OneAtATime'
  BY <1>1, <1>4, StaysCalm DEF Few, Sigs, Running
<1>7. Buffers'
  BY <1>1, <1>4 DEF Buffers, NoneMissed
<1>8. Searched' \/ Doomed'
  <2>1. CASE ts \ {s} = {}
    BY <1>2, <1>4, <2>1 DEF Searched, Sigs, Timers, RadioRests
  <2>2. CASE ts \ {s} # {}
    BY <1>1, <1>2, <1>4, <2>2, TrackerKnows DEF Doomed, Sigs, Timers, RadioRests, Known, Timeout, Off, DUR
  <2> QED
    BY <2>1, <2>2
<1> QED
  BY <1>5, <1>6, <1>7, <1>8 DEF IInv, Phases

LEMMA TrackerWrongSignalKeeps ==
    ASSUME IInv, TrackerWrongSignal
    PROVE  IInv'
<1>1. /\ Running /\ Phases /\ rs = {} /\ ts # {} /\ ~Known(tracker_order[tracker], ts)
      /\ Halt("WrongSignal")
  BY DEF TrackerWrongSignal, Runs, Before, rs, ts, IInv
<1>2. Booting => Known(tracker_order[tracker], ts)
  BY <1>1, TrackerKnows DEF Booting, Known
<1>3. Searching /\ calm => Known(tracker_order[tracker], ts)
  BY <1>1, TrackerKnows DEF Searching, Reception, Receives, BothBounds, Known, DUR
<1>4. Searched => Known(tracker_order[tracker], ts)
  BY <1>1, TrackerKnows DEF Searched, Known
<1>5. AwaitsBeacon /\ calm => Known(tracker_order[tracker], ts)
  BY <1>1, TrackerKnows DEF AwaitsBeacon, Bound, Reception, Receives, BothBounds, Known
<1>6. Tracking /\ calm => Known(tracker_order[tracker], ts)
  BY <1>1, TrackerKnows DEF Tracking, Known
<1>7. Lost /\ calm => Known(tracker_order[tracker], ts)
  BY <1>1, TrackerKnows DEF Lost, Known
<1>8. ~calm
  BY <1>1, <1>2, <1>3, <1>4, <1>5, <1>6, <1>7
     DEF Phases, Starting, Failed, Delaying, AwaitsFrame, Sends, BetweenBeacons, Doomed
<1> QED
  BY <1>1, <1>8, Halts DEF Reason

LEMMA BtrackerInitFinishedKeeps ==
    ASSUME IInv, BtrackerInitFinished
    PROVE  IInv'
<1>1. /\ Typed /\ Buffers /\ Running /\ tracker = "INITED" /\ "INIT_FINISHED" \in ts
      /\ Booting \/ Starting \/ Searched \/ Failed
  BY TrackerTakesTurn, TrackerPhases DEF BtrackerInitFinished, IInv
<1>2. Booting
  BY <1>1 DEF Starting, Searched, Failed
<1>3. /\ Sigs(rs, {}, ms) /\ UNCHANGED timer
      /\ UNCHANGED <<mac, tracker, radio, caller, rx_buffer, bcn, expected,
                     join_req, pending, waiting, halted, calm>>
  <2>1. ts \ {"INIT_FINISHED"} = {}
    BY <1>2 DEF Booting
  <2> QED
    BY <2>1, TrackerTakesIt DEF BtrackerInitFinished, frames
<1>4. Typed'
  BY <1>1, <1>3 DEF Typed, Sigs
<1>5. Booting'
  BY <1>2, <1>3 DEF Booting, Sigs
<1>6. OneAtATime'
  BY <1>1, <1>3, <1>5, StaysCalm DEF Running
<1>7. Buffers'
  BY <1>1, <1>3 DEF Buffers, NoneMissed
<1> QED
  BY <1>4, <1>5, <1>6, <1>7 DEF IInv, Phases

LEMMA TrackSearchTimeoutKeeps ==
    ASSUME IInv, TrackSearchTimeout
    PROVE  IInv'
<1> DEFINE s == "TRACK_SEARCH_TIMEOUT"
<1>1. /\ Typed /\ Buffers /\ Running /\ tracker = "BCN_TRACKING_SEARCH"
      /\ rs = {} /\ s \in ts /\ (calm => ts = {s} /\ ms = {})
      /\ "RLC_RX_OK" \notin ts /\ DUR \notin ts
      /\ AwaitsBeacon \/ Lost
  BY TrackerTakesTurn, TrackerPhases, TrackerOrder DEF TrackSearchTimeout, TrackerTakes, Booting, IInv, ts
<1>2. /\ ts = {s} /\ Attends /\ MayStop /\ timer["periodic"] = Off
  <2>1. CASE AwaitsBeacon
    BY <1>1, <2>1 DEF AwaitsBeacon, Denied, Bound, Reception, Receives, BothBounds, RadioRests, MayStop
  <2>2. CASE Lost
    BY <1>1, <2>2 DEF Lost, RadioRests, MayStop
  <2> QED
    BY <1>1, <2>1, <2>2
<1>3. GivesUp(s, "TRACK_FAILED") /\ UNCHANGED <<halted, calm>>
  BY <1>2 DEF TrackSearchTimeout, Asserting
<1>4. /\ Sigs({}, {}, ms \cup {"TRACK_FAILED"}) /\ Timers(Off, Off, Off, Off)
      /\ tracker' = "INITED" /\ radio' = "IDLE"
      /\ UNCHANGED <<mac, caller, rx_buffer, bcn, expected, join_req, pending, waiting, halted, calm>>
  <2>1. Signals("btracker", s, ToMac("TRACK_FAILED")) /\ btracker_reset
    BY <1>3 DEF GivesUp
  <2>2. Sigs(rs, ts \ {s}, ms \cup {"TRACK_FAILED"})
    BY <2>1, TrackerTakesIt
  <2>3. ts \ {s} = {} /\ timer["mac"] = Off
    BY <1>2 DEF Attends
  <2> QED
    BY <1>1, <1>3, <2>1, <2>2, <2>3, TimersNow DEF GivesUp, btracker_reset, frames
<1>5. Typed'
  BY <1>1, <1>4 DEF Typed, Sigs, Timers, TrackerState, RadioState, MacSignals, Reports
<1>6. OneAtATime'
  BY <1>1, <1>4, StaysCalm DEF Few, Sigs, Running
<1>7. Buffers'
  BY <1>1, <1>4 DEF Buffers, NoneMissed
<1>8. Failed'
  BY <1>1, <1>2, <1>4 DEF Failed, Attends, Sigs, Timers, RadioRests, Reports
<1> QED
  BY <1>5, <1>6, <1>7, <1>8 DEF IInv, Phases

LEMMA SearchRxDurationTimeoutKeeps ==
    ASSUME IInv, SearchRxDurationTimeout
    PROVE  IInv'
<1>1. PICK state \in {"SEARCH_BEACON", "BCN_TRACKING_SEARCH"} : TrackerTakes(state, DUR)
  BY DEF SearchRxDurationTimeout, DUR
<1>2. /\ Typed /\ Buffers /\ Running /\ tracker = state /\ Phases /\ ~Doomed
      /\ rs = {} /\ DUR \in ts
  BY <1>1, TrackerTakesTurn DEF IInv
<1>3. state # "SEARCH_BEACON"
  <2> SUFFICES ASSUME state = "SEARCH_BEACON" PROVE FALSE
    OBVIOUS
  <2>1. Searching /\ "SEARCH_TIMEOUT" \notin ts
    BY <1>1, <1>2, TrackerPhases, TrackerOrder DEF TrackerTakes, ts
  <2> QED
    BY <1>2, <2>1 DEF Searching, Reception, Receives, BothBounds, DUR
<1>4. state = "BCN_TRACKING_SEARCH" /\ "RLC_RX_OK" \notin ts /\ (AwaitsBeacon \/ Lost)
  BY <1>1, <1>2, <1>3, TrackerPhases, TrackerOrder DEF TrackerTakes, ts
<1>5. /\ ~calm /\ ts = {"TRACK_SEARCH_TIMEOUT", DUR} /\ Attends
  BY <1>2, <1>4 DEF AwaitsBeacon, Denied, Bound, Reception, Receives, BothBounds, Lost, DUR
<1>6. /\ Sigs({}, {"TRACK_SEARCH_TIMEOUT"}, ms \cup {"TRACK_FAILED"}) /\ Timers(Off, Off, Off, Off)
      /\ tracker' = "INITED" /\ radio' = "IDLE"
      /\ UNCHANGED <<mac, caller, rx_buffer, bcn, expected, join_req, pending, waiting, halted, calm>>
  <2>1. Signals("btracker", DUR, ToMac("TRACK_FAILED")) /\ btracker_reset
    BY <1>2, <1>4 DEF SearchRxDurationTimeout, GivesUp, DUR
  <2>2. Sigs(rs, ts \ {DUR}, ms \cup {"TRACK_FAILED"})
    BY <2>1, TrackerTakesIt
  <2>3. ts \ {DUR} = {"TRACK_SEARCH_TIMEOUT"} /\ timer["mac"] = Off
    BY <1>5 DEF Attends, DUR
  <2> QED
    BY <1>2, <2>1, <2>2, <2>3, TimersNow
       DEF SearchRxDurationTimeout, GivesUp, btracker_reset, frames
<1>7. Typed'
  BY <1>2, <1>6 DEF Typed, Sigs, Timers, TrackerState, RadioState, MacSignals, Reports, TrackerSignals
<1>8. OneAtATime'
  BY <1>5, <1>6, StaysCalm
<1>9. Buffers'
  BY <1>2, <1>6 DEF Buffers, NoneMissed
<1>10. Doomed'
  BY <1>5, <1>6, TrackerKnows DEF Doomed, Sigs, Timers, RadioRests, Known, Timeout, Off
<1> QED
  BY <1>7, <1>8, <1>9, <1>10 DEF IInv, Phases

LEMMA SearchRxOkKeeps ==
    ASSUME IInv, SearchRxOk
    PROVE  IInv'
<1> DEFINE s == "RLC_RX_OK"
<1>1. /\ Typed /\ Buffers /\ Searching /\ Running /\ tracker = "SEARCH_BEACON"
      /\ rs = {} /\ s \in ts /\ "SEARCH_TIMEOUT" \notin ts /\ DUR \notin ts
  BY TrackerTakesTurn, TrackerPhases, TrackerOrder DEF SearchRxOk, RxOk, TrackerTakes, ts, IInv
<1>2. /\ mac = "SEARCH_BEACON" /\ ms = {} /\ timer["mac"] = Off /\ timer["periodic"] = Off
      /\ ts = {s} /\ radio = "RX" /\ caller = "btracker"
      /\ timer["tracker"] = "SEARCH_TIMEOUT" /\ timer["rlc"] = "RX_DURATION_TIMEOUT" /\ MayStop
  BY <1>1 DEF Searching, Reception, Receives, BothBounds, MayStop
<1>3. ts \ {s} = {}
  BY <1>2
<1>4. CASE rx_buffer # "beacon"
  <2>1. /\ Sigs({}, {}, {}) /\ UNCHANGED timer
        /\ UNCHANGED <<mac, tracker, radio, caller, rx_buffer, bcn, expected,
                       join_req, pending, waiting, halted, calm>>
    BY <1>1, <1>2, <1>3, <1>4, TrackerTakesIt DEF SearchRxOk, RxOk, frames
  <2>2. Typed'
    BY <1>1, <2>1 DEF Typed, Sigs
  <2>3. OneAtATime'
    BY <1>1, <2>1, StaysCalm DEF Few, Sigs, Running
  <2>4. Buffers'
    BY <1>1, <2>1 DEF Buffers, NoneMissed
  <2>5. Searching'
    BY <1>1, <1>2, <2>1 DEF Searching, Sigs, Reception, Receives
  <2> QED
    BY <2>2, <2>3, <2>4, <2>5 DEF IInv, Phases
<1>5. CASE rx_buffer = "beacon"
  <2>1. /\ Sigs({}, {}, {"BEACON_FOUND"}) /\ Timers(Off, Off, Off, Off)
        /\ tracker' = "BEACON_FOUND" /\ radio' = "IDLE" /\ bcn' \in Parsed
        /\ UNCHANGED <<mac, caller, rx_buffer, expected, join_req, pending, waiting, halted, calm>>
    BY <1>1, <1>2, <1>3, <1>5, TrackerTakesIt, TimersAfterStop
       DEF SearchRxOk, RxOk, Asserting, frames, rx_stop, RlcStopped
  <2>2. Typed'
    BY <1>1, <2>1 DEF Typed, Sigs, Timers, TrackerState, RadioState, MacSignals, Parsed
  <2>3. OneAtATime'
    BY <1>1, <2>1, StaysCalm DEF Few, Sigs, Running
  <2>4. Buffers'
    BY <1>1, <2>1 DEF Buffers, NoneMissed
  <2>5. Searched'
    BY <1>1, <1>2, <2>1 DEF Searched, Sigs, Timers, RadioRests
  <2> QED
    BY <2>2, <2>3, <2>4, <2>5 DEF IInv, Phases
<1> QED
  BY <1>4, <1>5

\* The tracker goes on listening after a frame that is not a beacon.
LEMMA OtherFrameKeeps ==
    ASSUME IInv, AwaitsBeacon, Running, rs = {}, "RLC_RX_OK" \in ts,
           calm => ts = {"RLC_RX_OK"} /\ ms = {},
           Signals("btracker", "RLC_RX_OK", NoneRaised),
           UNCHANGED <<mac, tracker, radio, caller, timer, rx_buffer, bcn, expected, frames,
                       halted, calm>>
    PROVE  IInv'
<1>1. /\ Sigs({}, ts \ {"RLC_RX_OK"}, ms) /\ Typed /\ Buffers
      /\ UNCHANGED <<join_req, pending, waiting>>
  BY TrackerTakesIt DEF IInv, frames
<1>2. Typed'
  BY <1>1 DEF Typed, Sigs
<1>3. OneAtATime'
  BY <1>1, StaysCalm DEF Few, Sigs, Running
<1>4. Buffers'
  BY <1>1 DEF Buffers, NoneMissed
<1>5. AwaitsBeacon'
  <2>1. Attends <=> Attends'
    BY <1>1 DEF Attends, Sigs
  <2>2. Denied <=> Denied'
    BY <1>1 DEF Denied, Sigs
  <2>3. Reported' = Reported
    BY <1>1 DEF Reported, Sigs
  <2>4. Bound[tracker] # "RLC_RX_OK" /\ DUR # "RLC_RX_OK"
    BY DEF AwaitsBeacon, Bound, DUR
  <2>5. Reception("btracker", "tracker", Bound[tracker], ts)'
    <3> DEFINE b == Bound[tracker]
    <3> HIDE DEF b
    <3>1. b' = b
      BY DEF b
    <3>2. Reception("btracker", "tracker", b, ts)
      BY DEF AwaitsBeacon, b
    <3>3. CASE Receives("btracker", "tracker", b, ts)
      BY <1>1, <2>4, <3>1, <3>3 DEF Reception, Receives, Sigs, b
    <3>4. CASE BothBounds("tracker", b, ts)
      BY <1>1, <2>4, <3>1, <3>4 DEF Reception, BothBounds, Sigs, b, RadioRests
    <3> QED
      BY <3>2, <3>3, <3>4 DEF Reception, b
  <2> QED
    BY <2>1, <2>2, <2>3, <2>5 DEF AwaitsBeacon
<1> QED
  BY <1>2, <1>3, <1>4, <1>5 DEF IInv, Phases

\* The beacon is received, and the next one scheduled.
LEMMA BeaconKeeps ==
    ASSUME IInv, AwaitsBeacon, Running, rs = {}, "RLC_RX_OK" \in ts,
           calm => ts = {"RLC_RX_OK"} /\ ms = {},
           rx_stop, Signals("btracker", "RLC_RX_OK", ToMac("BEACON_TRACKED")),
           bcn' \in Parsed, tracker' = "BCN_TRACKING",
           NextBeacon(Stopped(AfterStop, {"tracker"})),
           UNCHANGED <<mac, caller, rx_buffer, expected, frames, halted, calm>>
    PROVE  IInv'
<1> DEFINE b == Bound[tracker]
<1>1. \/ tracker = "BCN_TRACKING" /\ b = "TRACK_TIMEOUT"
      \/ tracker = "BCN_TRACKING_SEARCH" /\ b = "TRACK_SEARCH_TIMEOUT"
  BY DEF AwaitsBeacon, Bound
<1>2. /\ Reception("btracker", "tracker", b, ts)
      /\ timer["periodic"] = Off /\ Reported = {}
      /\ Attends \/ (Denied /\ tracker = "BCN_TRACKING")
  BY DEF AwaitsBeacon
<1> HIDE DEF b
<1>3. /\ RlcStopped = Off /\ timer["mac"] \notin Timeout
      /\ \/ ts \ {"RLC_RX_OK"} = {}
         \/ ts \ {"RLC_RX_OK"} = {b} /\ ~calm
         \/ ts \ {"RLC_RX_OK"} = {b, DUR} /\ ~calm
  <2>1. RlcStopped = Off
    BY <1>2 DEF Reception, Receives, BothBounds, RadioRests, RlcStopped
  <2>2. timer["mac"] \notin Timeout
    BY <1>2 DEF Attends, Denied, Timeout, Off
  <2>3. b # "RLC_RX_OK" /\ DUR # "RLC_RX_OK" /\ b # DUR
    BY <1>1 DEF DUR
  <2>4. CASE Receives("btracker", "tracker", b, ts)
    BY <2>1, <2>2, <2>3, <2>4 DEF Receives
  <2>5. CASE BothBounds("tracker", b, ts)
    BY <2>1, <2>2, <2>3, <2>5 DEF BothBounds
  <2> QED
    BY <1>2, <2>1, <2>2, <2>3, <2>4, <2>5 DEF Reception
<1>4. /\ Sigs({}, ts \ {"RLC_RX_OK"}, ms \cup {"BEACON_TRACKED"}) /\ Typed /\ Buffers
      /\ Timers(timer["mac"], Off, "TRACK_BEACON", Off) /\ radio' = "IDLE"
      /\ UNCHANGED <<join_req, pending, waiting>>
  BY <1>3, TrackerTakesIt, TimersAfterStop DEF IInv, frames, rx_stop
<1>5. Typed'
  BY <1>4 DEF Typed, Sigs, Timers, TrackerState, RadioState, MacSignals, Reports, Parsed
<1>6. OneAtATime'
  BY <1>4, StaysCalm DEF Few, Sigs, Running
<1>7. Buffers'
  BY <1>4 DEF Buffers, NoneMissed
<1>8. Attends \/ Denied => Attends' \/ Denied'
  <2>1. Attends => Attends'
    BY <1>4 DEF Attends, Sigs, Timers, Reports
  <2>2. Denied => Denied'
    BY <1>4 DEF Denied, Sigs, Timers, Reports
  <2> QED
    BY <2>1, <2>2
<1>9. Attends => Attends'
  BY <1>4 DEF Attends, Sigs, Timers, Reports
<1>10. Reported' = {"BEACON_TRACKED"}
  BY <1>2, <1>4 DEF Reported, Sigs, Reports
<1>11. CASE ts \ {"RLC_RX_OK"} = {}
  <2>1. Tracking'
    BY <1>2, <1>4, <1>8, <1>10, <1>11 DEF Tracking, Sigs, Timers, RadioRests
  <2> QED
    BY <1>5, <1>6, <1>7, <2>1 DEF IInv, Phases
<1>12. CASE ts \ {"RLC_RX_OK"} = {b} /\ ~calm
  <2>1. CASE b = "TRACK_TIMEOUT"
    BY <1>2, <1>4, <1>5, <1>6, <1>7, <1>8, <1>10, <1>12, <2>1
       DEF Tracking, Sigs, Timers, RadioRests, IInv, Phases
  <2>2. CASE b = "TRACK_SEARCH_TIMEOUT"
    <3>1. Doomed'
      BY <1>3, <1>4, <1>12, <2>2, TrackerKnows DEF Doomed, Sigs, Timers, RadioRests, Timeout, Off, Known
    <3> QED
      BY <1>5, <1>6, <1>7, <3>1 DEF IInv, Phases
  <2> QED
    BY <1>1, <2>1, <2>2
<1>13. CASE ts \ {"RLC_RX_OK"} = {b, DUR} /\ ~calm
  <2>1. Tracking'
    <3>1. CASE tracker = "BCN_TRACKING"
      BY <1>1, <1>2, <1>4, <1>8, <1>10, <1>13, <3>1 DEF Tracking, Sigs, Timers, RadioRests
    <3>2. CASE tracker = "BCN_TRACKING_SEARCH"
      BY <1>1, <1>2, <1>4, <1>9, <1>10, <1>13, <3>2 DEF Tracking, Sigs, Timers, RadioRests
    <3> QED
      BY <1>1, <3>1, <3>2
  <2> QED
    BY <1>5, <1>6, <1>7, <2>1 DEF IInv, Phases
<1> QED
  BY <1>3, <1>11, <1>12, <1>13

LEMMA TrackedKeeps ==
    ASSUME IInv, NEW state \in {"BCN_TRACKING", "BCN_TRACKING_SEARCH"},
           RxOk(state, "BEACON_TRACKED", "BCN_TRACKING")
    PROVE  IInv'
<1>1. /\ Running /\ tracker = state /\ Phases /\ ~Doomed
      /\ rs = {} /\ "RLC_RX_OK" \in ts /\ (calm => ts = {"RLC_RX_OK"} /\ ms = {})
  BY TrackerTakesTurn DEF RxOk, Booting
<1>2. AwaitsBeacon
  BY <1>1, TrackerPhases DEF Tracking, Delaying, AwaitsFrame, Sends, BetweenBeacons, Lost, DUR
<1>3. MayStop /\ timer["periodic"] = Off
  BY <1>2 DEF AwaitsBeacon, Reception, Receives, BothBounds, RadioRests, MayStop
<1>4. CASE rx_buffer # "beacon"
  BY <1>1, <1>2, <1>4, OtherFrameKeeps DEF RxOk
<1>5. CASE rx_buffer = "beacon"
  <2>1. /\ rx_stop /\ Signals("btracker", "RLC_RX_OK", ToMac("BEACON_TRACKED"))
        /\ bcn' \in Parsed /\ tracker' = "BCN_TRACKING"
        /\ NextBeacon(Stopped(AfterStop, {"tracker"}))
        /\ UNCHANGED <<mac, caller, rx_buffer, expected, frames, halted, calm>>
    BY <1>3, <1>5 DEF RxOk, Asserting
  <2> QED
    BY <1>1, <1>2, <2>1, BeaconKeeps
<1> QED
  BY <1>4, <1>5

LEMMA TrackRxOkKeeps ==
    ASSUME IInv, TrackRxOk
    PROVE  IInv'
BY TrackedKeeps DEF TrackRxOk

LEMMA TrackSearchRxOkKeeps ==
    ASSUME IInv, TrackSearchRxOk
    PROVE  IInv'
BY TrackedKeeps DEF TrackSearchRxOk

LEMMA BeginBeaconTrackingKeeps ==
    ASSUME IInv, BeginBeaconTracking
    PROVE  IInv'
<1>1. /\ Typed /\ Buffers /\ Running /\ tracker = "BEACON_FOUND" /\ Searched
      /\ rs = {} /\ "BEGIN_BEACON_TRACKING" \in ts
  BY TrackerTakesTurn, TrackerPhases DEF BeginBeaconTracking, IInv
<1>2. /\ mac = "BEACON_FOUND" /\ ts = {"BEGIN_BEACON_TRACKING"} /\ ms = {} /\ ~join_req.has_been_tx
      /\ RadioRests /\ timer["mac"] = Off /\ timer["tracker"] = Off /\ timer["periodic"] = Off
  BY <1>1 DEF Searched
<1>3. /\ Sigs({}, {}, {}) /\ Timers(Off, Off, "TRACK_BEACON", Off)
      /\ tracker' = "BCN_TRACKING"
      /\ UNCHANGED <<mac, radio, caller, rx_buffer, bcn, expected, join_req, pending, waiting, halted, calm>>
  <2>1. ts \ {"BEGIN_BEACON_TRACKING"} = {}
    BY <1>2
  <2> QED
    BY <1>1, <1>2, <2>1, TrackerTakesIt, TimersNow DEF BeginBeaconTracking, Asserting, frames, RadioRests
<1>4. Typed'
  BY <1>1, <1>3 DEF Typed, Sigs, Timers, TrackerState
<1>5. OneAtATime'
  BY <1>1, <1>3, StaysCalm DEF Few, Sigs, Running
<1>6. Buffers'
  BY <1>1, <1>3 DEF Buffers, NoneMissed
<1>7. ~Owing
  BY <1>1, <1>2 DEF Owing, has_waiting_join_confirm, Buffers, Joining
<1>8. Tracking'
  BY <1>2, <1>3, <1>7
     DEF Tracking, Attends, Sigs, Timers, RadioRests, Owing, has_waiting_join_confirm, Reported
<1> QED
  BY <1>4, <1>5, <1>6, <1>8 DEF IInv, Phases

LEMMA NearerFrames ==
    ASSUME IsFiniteSet(waiting)
    PROVE  /\ IsFiniteSet({Nearer(d) : d \in waiting})
           /\ Cardinality({Nearer(d) : d \in waiting}) <= Cardinality(waiting)
<1> DEFINE T == {Nearer(d) : d \in waiting}
           f == [d \in waiting |-> Nearer(d)]
<1>1. f \in Surjection(waiting, T)
  BY DEF Surjection
<1> HIDE DEF T, f
<1>2. IsFiniteSet(T) /\ Cardinality(T) <= Cardinality(waiting)
  BY <1>1, FS_Surjection
<1> QED
  BY <1>2 DEF T

LEMMA TrackBeaconKeeps ==
    ASSUME IInv, TrackBeacon
    PROVE  IInv'
<1> DEFINE s == "TRACK_BEACON"
<1>1. /\ Typed /\ Buffers /\ Running /\ tracker = "BCN_TRACKING" /\ Phases /\ ~Doomed
      /\ rs = {} /\ s \in ts /\ (calm => ts = {s} /\ ms = {})
  BY TrackerTakesTurn DEF TrackBeacon, Booting, IInv
<1>2. Tracking /\ ts = {s} /\ timer["periodic"] = Off /\ Reported = {} /\ ~Owing
  BY <1>1, TrackerPhases
     DEF AwaitsBeacon, Bound, Reception, Receives, BothBounds, Delaying, AwaitsFrame, Sends,
         BetweenBeacons, Tracking, DUR
<1>3. RadioRests /\ timer["tracker"] = Off /\ (Attends \/ Denied)
  BY <1>2 DEF Tracking
<1>4. /\ MayListen("tracker")
      /\ LooksAtJoinReq => mac \in Joining
  <2>1. MayListen("tracker")
    BY <1>3 DEF MayListen, MayStop, AfterStop, RadioRests
  <2>2. LooksAtJoinReq => mac \in Joining
    BY <1>1, <1>3 DEF LooksAtJoinReq, Attends, Denied, Buffers, Joining, Joined
  <2> QED
    BY <2>1, <2>2
<1>5. PICK allow_tx \in BOOLEAN :
        /\ ticktock /\ UNCHANGED <<halted, calm>>
        /\ expected' = [is_check_packed_ack |-> has_waiting_ack_next]
        /\ Signals("btracker", s, NoneRaised)
        /\ IF MustReceive(allow_tx)
           THEN Listening("btracker", AfterStop, "tracker", "TRACK_TIMEOUT")
           ELSE NextBeacon(timer) /\ UNCHANGED <<radio, caller>>
        /\ UNCHANGED <<mac, tracker, rx_buffer, bcn>>
  BY <1>2, <1>4 DEF TrackBeacon, Asserting
<1>6. Sigs({}, {}, ms)
  <2>1. Sigs(rs, ts \ {s}, ms)
    BY <1>5, TrackerTakesIt
  <2>2. ts \ {s} = {}
    BY <1>2
  <2> QED
    BY <1>1, <2>1, <2>2
<1>7. Buffers' /\ waiting' \subseteq Due /\ join_req' \in JoinReq /\ pending' = pending
  <2>1. /\ waiting' = {Nearer(d) : d \in waiting} /\ pending' = pending
        /\ join_req' = [join_req EXCEPT !.due = Nearer(@)]
    BY <1>5 DEF ticktock
  <2>2. /\ IsFiniteSet(waiting') /\ Cardinality(waiting') <= Cardinality(waiting)
        /\ Cardinality(waiting) \in Nat /\ Cardinality(waiting') \in Nat
    BY <1>1, <2>1, NearerFrames, FS_CardinalityType DEF Buffers
  <2>3. /\ waiting \subseteq Due \cup {-1} /\ 0 \notin waiting /\ -1 \notin waiting
        /\ join_req \in JoinReq
        /\ join_req.has_join_req /\ join_req.has_been_tx => join_req.due # 0 /\ join_req.due >= 0
    BY <1>1, <1>2 DEF Typed, Owing, has_waiting_join_confirm, Buffers, NoneMissed
  <2>4. waiting' \subseteq Due /\ -1 \notin waiting'
    BY <2>1, <2>3, DeviceMacAssumption DEF Nearer, Due
  <2>5. /\ join_req' \in JoinReq
        /\ join_req'.has_join_req = join_req.has_join_req
        /\ join_req'.has_been_tx = join_req.has_been_tx
        /\ join_req'.due = Nearer(join_req.due)
    <3>1. join_req.due \in Due \cup {-1} => Nearer(join_req.due) \in Due \cup {-1}
      BY DeviceMacAssumption DEF Nearer, Due
    <3> QED
      BY <2>1, <2>3, <3>1 DEF JoinReq
  <2>6. NoneMissed'
    <3>1. join_req.due \in Int /\ join_req.due # 0 /\ join_req.due >= 0 => Nearer(join_req.due) >= 0
      BY DEF Nearer
    <3>2. join_req.due \in Int
      BY <2>3, DeviceMacAssumption DEF JoinReq, Due
    <3> QED
      BY <2>3, <2>4, <2>5, <3>1, <3>2 DEF NoneMissed
  <2>7. /\ pending + Cardinality(waiting) <= MaxMsgs
        /\ mac \in {"INITED"} \cup Joining => waiting = {}
        /\ mac \in Joined => ~join_req.has_join_req
        /\ pending \in Nat /\ mac' = mac
    BY <1>1, <1>5 DEF Buffers, Typed
  <2>8. pending' + Cardinality(waiting') <= MaxMsgs
    BY <2>1, <2>2, <2>7, DeviceMacAssumption
  <2>9. /\ mac' \in {"INITED"} \cup Joining => waiting' = {}
        /\ mac' \in Joined => ~join_req'.has_join_req
    BY <2>1, <2>5, <2>7
  <2> QED
    BY <2>1, <2>2, <2>4, <2>5, <2>6, <2>8, <2>9 DEF Buffers
<1>8. OneAtATime'
  <2>1. halted' = halted /\ calm' = calm
    BY <1>5
  <2>2. calm => ms = {}
    BY <1>1
  <2> QED
    BY <1>1, <1>6, <2>1, <2>2, StaysCalm DEF Few, Sigs, Running
<1>9. expected' \in Expected
  BY <1>5 DEF Expected, has_waiting_ack_next
<1>10. CASE MustReceive(allow_tx)
  <2>1. /\ Timers(timer["mac"], "TRACK_TIMEOUT", Off, "RX_DURATION_TIMEOUT")
        /\ caller' = "btracker" /\ radio' = "RX"
        /\ UNCHANGED <<mac, tracker, rx_buffer, bcn, halted, calm>>
    BY <1>1, <1>2, <1>5, <1>10, TimersAfterStop DEF Listening
  <2>2. Typed'
    BY <1>1, <1>6, <1>7, <1>9, <2>1 DEF Typed, Sigs, Timers, RadioState, TrackerSignals, RlcSignals
  <2>3. Attends' \/ Denied'
    <3>1. Attends => Attends'
      BY <1>6, <2>1 DEF Attends, Sigs, Timers
    <3>2. Denied => Denied'
      <4>1. join_req'.has_join_req = join_req.has_join_req
        BY <1>1, <1>5 DEF ticktock, Typed, JoinReq
      <4> QED
        BY <1>6, <2>1, <4>1 DEF Denied, Sigs, Timers
    <3> QED
      BY <1>3, <3>1, <3>2
  <2>4. Receives("btracker", "tracker", "TRACK_TIMEOUT", ts)'
    BY <1>6, <2>1 DEF Receives, Sigs, Timers
  <2>5. AwaitsBeacon'
    BY <1>1, <1>2, <1>6, <2>1, <2>3, <2>4
       DEF AwaitsBeacon, Reception, Bound, Sigs, Timers, Reported
  <2> QED
    BY <1>7, <1>8, <2>2, <2>5 DEF IInv, Phases
<1>11. CASE ~MustReceive(allow_tx)
  <2>1. /\ Timers(timer["mac"], Off, "TRACK_BEACON", Off)
        /\ UNCHANGED <<mac, tracker, radio, caller, rx_buffer, bcn, halted, calm>>
    BY <1>1, <1>3, <1>5, <1>11, TimersNow DEF RadioRests
  <2>2. Typed'
    BY <1>1, <1>6, <1>7, <1>9, <2>1 DEF Typed, Sigs, Timers
  <2>3. Attends' \/ Denied'
    <3>1. Attends => Attends'
      BY <1>6, <2>1 DEF Attends, Sigs, Timers
    <3>2. Denied => Denied'
      <4>1. join_req'.has_join_req = join_req.has_join_req
        BY <1>1, <1>5 DEF ticktock, Typed, JoinReq
      <4> QED
        BY <1>6, <2>1, <4>1 DEF Denied, Sigs, Timers
    <3> QED
      BY <1>3, <3>1, <3>2
  <2>4. ~Owing'
    <3>1. 1 \notin waiting /\ ~(join_req.has_join_req /\ join_req.has_been_tx /\ join_req.due = 1)
      BY <1>11 DEF MustReceive, has_waiting_ack_next
    <3>2. 0 \notin waiting'
      BY <1>1, <1>5, <3>1, DeviceMacAssumption DEF ticktock, Nearer, Typed, Due
    <3>3. ~has_waiting_join_confirm'
      <4>1. /\ join_req'.has_join_req = join_req.has_join_req
            /\ join_req'.has_been_tx = join_req.has_been_tx
            /\ join_req'.due = Nearer(join_req.due) /\ join_req.due \in Due \cup {-1}
        BY <1>1, <1>5 DEF ticktock, Typed, JoinReq
      <4>2. Nearer(join_req.due) = 0 => join_req.due = 1
        BY <4>1, DeviceMacAssumption DEF Nearer, Due
      <4> QED
        BY <3>1, <4>1, <4>2 DEF has_waiting_join_confirm
    <3> QED
      BY <3>2, <3>3 DEF Owing
  <2>5. Tracking'
    BY <1>1, <1>2, <1>3, <1>6, <2>1, <2>3, <2>4 DEF Tracking, Sigs, Timers, Reported, RadioRests
  <2> QED
    BY <1>7, <1>8, <2>2, <2>5 DEF IInv, Phases
<1> QED
  BY <1>10, <1>11

LEMMA TrackTimeoutKeeps ==
    ASSUME IInv, TrackTimeout
    PROVE  IInv'
<1> DEFINE s == "TRACK_TIMEOUT"
<1>1. /\ Typed /\ Buffers /\ Running /\ tracker = "BCN_TRACKING" /\ Phases /\ ~Doomed
      /\ rs = {} /\ s \in ts /\ (calm => ts = {s} /\ ms = {})
      /\ "RLC_RX_OK" \notin ts /\ DUR \notin ts
  BY TrackerTakesTurn, TrackerOrder DEF TrackTimeout, TrackerTakes, Booting, IInv, ts
<1>2. AwaitsBeacon \/ Tracking
  BY <1>1, TrackerPhases DEF Delaying, AwaitsFrame, Sends, BetweenBeacons
<1>3. /\ ts = {s} /\ timer["tracker"] = Off /\ MayStop /\ RlcStopped = Off
      /\ Attends \/ Denied
      /\ Reported = {} \/ (~calm /\ Reported = {"BEACON_TRACKED"})
  <2>1. CASE AwaitsBeacon
    BY <1>1, <2>1 DEF AwaitsBeacon, Bound, Reception, Receives, BothBounds, RadioRests, MayStop, RlcStopped
  <2>2. CASE Tracking
    BY <1>1, <2>2 DEF Tracking, RadioRests, MayStop, RlcStopped
  <2> QED
    BY <1>2, <2>1, <2>2
<1>4. /\ Sigs({}, {}, ms \cup {"TRACK_LOST_BEACON"})
      /\ Timers(timer["mac"], "BEGIN_TRACK_SEARCH", Off, Off)
      /\ tracker' = "BCN_TRACKING_SEARCH" /\ radio' = "IDLE"
      /\ UNCHANGED <<mac, caller, rx_buffer, bcn, expected, join_req, pending, waiting, halted, calm>>
  <2>1. TrackingLost(s) /\ UNCHANGED <<halted, calm>>
    BY <1>3 DEF TrackTimeout, Asserting
  <2>2. Sigs(rs, ts \ {s}, ms \cup {"TRACK_LOST_BEACON"})
    BY <2>1, TrackerTakesIt DEF TrackingLost
  <2>3. ts \ {s} = {}
    BY <1>3
  <2> QED
    BY <1>1, <1>3, <2>1, <2>2, <2>3, TimersAfterStop DEF TrackingLost, frames
<1>5. Typed'
  BY <1>1, <1>4 DEF Typed, Sigs, Timers, TrackerState, RadioState, MacSignals, Reports, TrackerSignals
<1>6. OneAtATime'
  BY <1>1, <1>4, StaysCalm DEF Few, Sigs, Running
<1>7. Buffers'
  BY <1>1, <1>4 DEF Buffers, NoneMissed
<1>8. Lost'
  <2>1. Attends => Attends'
    BY <1>4 DEF Attends, Sigs, Timers, Reports
  <2>2. Denied => Denied'
    BY <1>4 DEF Denied, Sigs, Timers, Reports
  <2>3. Reported' = Reported \cup {"TRACK_LOST_BEACON"}
    BY <1>4 DEF Reported, Sigs, Reports
  <2> QED
    BY <1>3, <1>4, <2>1, <2>2, <2>3 DEF Lost, Sigs, Timers, RadioRests
<1> QED
  BY <1>5, <1>6, <1>7, <1>8 DEF IInv, Phases

LEMMA TrackRxDurationTimeoutKeeps ==
    ASSUME IInv, TrackRxDurationTimeout
    PROVE  IInv'
<1>1. /\ Typed /\ Buffers /\ Running /\ tracker = "BCN_TRACKING" /\ Phases /\ ~Doomed
      /\ rs = {} /\ DUR \in ts /\ "RLC_RX_OK" \notin ts
  BY TrackerTakesTurn, TrackerOrder DEF TrackRxDurationTimeout, TrackerTakes, IInv, ts, DUR
<1>2. AwaitsBeacon \/ Tracking
  BY <1>1, TrackerPhases DEF Delaying, AwaitsFrame, Sends, BetweenBeacons
<1>3. /\ ~calm /\ RadioRests /\ RlcStopped = Off
      /\ \/ ts \ {DUR} = {"TRACK_TIMEOUT"} /\ (Attends \/ Denied)
         \/ ts \ {DUR} = {"TRACK_SEARCH_TIMEOUT"} /\ Attends /\ Reported = {"BEACON_TRACKED"}
  <2>1. CASE AwaitsBeacon
    BY <1>1, <2>1
       DEF AwaitsBeacon, Bound, Reception, Receives, BothBounds, RadioRests, RlcStopped, DUR
  <2>2. CASE Tracking
    BY <1>1, <2>2 DEF Tracking, RadioRests, RlcStopped, DUR
  <2> QED
    BY <1>2, <2>1, <2>2
<1>4. /\ Sigs({}, ts \ {DUR}, ms \cup {"TRACK_LOST_BEACON"})
      /\ Timers(timer["mac"], "BEGIN_TRACK_SEARCH", Off, Off)
      /\ tracker' = "BCN_TRACKING_SEARCH" /\ radio' = "IDLE"
      /\ UNCHANGED <<mac, caller, rx_buffer, bcn, expected, join_req, pending, waiting, halted, calm>>
  <2>1. TrackingLost(DUR) /\ UNCHANGED <<halted, calm>>
    BY DEF TrackRxDurationTimeout, DUR
  <2>2. Sigs(rs, ts \ {DUR}, ms \cup {"TRACK_LOST_BEACON"})
    BY <2>1, TrackerTakesIt DEF TrackingLost
  <2> QED
    BY <1>1, <1>3, <2>1, <2>2, TimersAfterStop DEF TrackingLost, frames
<1>5. Typed'
  BY <1>1, <1>4 DEF Typed, Sigs, Timers, TrackerState, RadioState, MacSignals, Reports, TrackerSignals
<1>6. OneAtATime'
  BY <1>3, <1>4, StaysCalm
<1>7. Buffers'
  BY <1>1, <1>4 DEF Buffers, NoneMissed
<1>8. CASE ts \ {DUR} = {"TRACK_TIMEOUT"}
  <2>1. timer["mac"] \notin Timeout
    BY <1>3 DEF Attends, Denied, Timeout, Off
  <2>2. ~Known(tracker_order["BCN_TRACKING_SEARCH"], {"TRACK_TIMEOUT"})
    BY TrackerKnows DEF Known
  <2>3. Doomed'
    BY <1>3, <1>4, <1>8, <2>1, <2>2 DEF Doomed, Sigs, Timers, RadioRests, Timeout
  <2> QED
    BY <1>5, <1>6, <1>7, <2>3 DEF IInv, Phases
<1>9. CASE ts \ {DUR} # {"TRACK_TIMEOUT"}
  <2>1. /\ ts \ {DUR} = {"TRACK_SEARCH_TIMEOUT"} /\ Attends /\ Reported = {"BEACON_TRACKED"}
    BY <1>3, <1>9
  <2>2. Attends'
    BY <1>4, <2>1 DEF Attends, Sigs, Timers, Reports
  <2>3. Reported' = {"BEACON_TRACKED", "TRACK_LOST_BEACON"}
    BY <1>4, <2>1 DEF Reported, Sigs, Reports
  <2>4. Lost'
    BY <1>3, <1>4, <2>1, <2>2, <2>3 DEF Lost, Sigs, Timers, RadioRests
  <2> QED
    BY <1>5, <1>6, <1>7, <2>4 DEF IInv, Phases
<1> QED
  BY <1>8, <1>9

LEMMA BeginTrackSearchKeeps ==
    ASSUME IInv, BeginTrackSearch
    PROVE  IInv'
<1> DEFINE s == "BEGIN_TRACK_SEARCH"
<1>1. /\ Typed /\ Buffers /\ Running /\ tracker = "BCN_TRACKING_SEARCH"
      /\ rs = {} /\ s \in ts /\ (AwaitsBeacon \/ Lost)
  BY TrackerTakesTurn, TrackerPhases DEF BeginTrackSearch, IInv
<1>2. /\ Attends /\ ts = {s} /\ ms = {} /\ timer["tracker"] = Off /\ timer["periodic"] = Off
      /\ RadioRests
  BY <1>1 DEF AwaitsBeacon, Bound, Reception, Receives, BothBounds, Lost, DUR
<1>3. MayListen("tracker") /\ ts \ {s} = {}
  BY <1>2 DEF MayListen, MayStop, AfterStop, RadioRests
<1>4. /\ Sigs({}, {}, {})
      /\ Timers(Off, "TRACK_SEARCH_TIMEOUT", Off, "RX_DURATION_TIMEOUT")
      /\ caller' = "btracker" /\ radio' = "RX"
      /\ UNCHANGED <<mac, tracker, rx_buffer, bcn, expected, join_req, pending, waiting, halted, calm>>
  <2>1. /\ Signals("btracker", s, NoneRaised)
        /\ Listening("btracker", AfterStop, "tracker", "TRACK_SEARCH_TIMEOUT")
        /\ UNCHANGED <<mac, tracker, rx_buffer, bcn, expected, frames, halted, calm>>
    BY <1>3 DEF BeginTrackSearch, Asserting
  <2>2. Sigs(rs, ts \ {s}, ms)
    BY <2>1, TrackerTakesIt
  <2> QED
    BY <1>1, <1>2, <1>3, <2>1, <2>2, TimersAfterStop DEF Listening, Attends, frames
<1>5. Typed'
  BY <1>1, <1>4 DEF Typed, Sigs, Timers, RadioState, TrackerSignals, RlcSignals
<1>6. OneAtATime'
  BY <1>1, <1>4, StaysCalm DEF Few, Sigs, Running
<1>7. Buffers'
  BY <1>1, <1>4 DEF Buffers, NoneMissed
<1>8. Attends'
  BY <1>2, <1>4 DEF Attends, Sigs, Timers
<1>9. Receives("btracker", "tracker", "TRACK_SEARCH_TIMEOUT", ts)'
  BY <1>4 DEF Receives, Sigs, Timers
<1>10. AwaitsBeacon'
  BY <1>1, <1>4, <1>8, <1>9 DEF AwaitsBeacon, Reception, Bound, Sigs, Timers, Reported
<1> QED
  BY <1>5, <1>6, <1>7, <1>10 DEF IInv, Phases

LEMMA BeaconTrackerKeeps ==
    ASSUME IInv, BeaconTracker
    PROVE  IInv'
BY TrackerWrongSignalKeeps, BtrackerInitFinishedKeeps, SearchTimeoutKeeps,
   SearchRxDurationTimeoutKeeps, SearchRxOkKeeps, BeginBeaconTrackingKeeps, TrackBeaconKeeps,
   TrackRxOkKeeps, TrackRxDurationTimeoutKeeps, TrackTimeoutKeeps, BeginTrackSearchKeeps,
   TrackSearchRxOkKeeps, TrackSearchTimeoutKeeps DEF BeaconTracker

----------------------------------------------------------------------------
(* The MAC engine                                                         *)

LEMMA MacWrongSignalKeeps ==
    ASSUME IInv, MacWrongSignal
    PROVE  IInv'
<1>1. /\ Running /\ Phases /\ rs = {} /\ ts = {} /\ ms # {} /\ ~Known(mac_order[mac], ms)
      /\ Halt("WrongSignal")
  BY DEF MacWrongSignal, Runs, Before, rs, ts, ms, IInv
<1>2. Booting \/ Starting \/ Searched => Known(mac_order[mac], ms)
  BY <1>1, MacKnows DEF Booting, Starting, Searched, Known
<1>3. ms # {} /\ ms \subseteq Reports /\ mac \in {"BEACON_FOUND", "IDLE"} => Known(mac_order[mac], ms)
  BY MacKnows DEF Known
<1>4. (AwaitsBeacon \/ Tracking \/ Lost \/ Failed) /\ calm => Known(mac_order[mac], ms)
  BY <1>1, <1>3 DEF AwaitsBeacon, Tracking, Lost, Failed, Attends, Denied
<1>5. Delaying => Known(mac_order[mac], ms)
  BY <1>1, MacKnows DEF Delaying, Known
<1>6. AwaitsFrame /\ calm => Known(mac_order[mac], ms)
  BY <1>1, MacKnows DEF AwaitsFrame, Reception, Receives, BothBounds, Known
<1>7. Sends => Known(mac_order[mac], ms)
  BY <1>1, MacKnows DEF Sends, Known
<1>8. ~calm
  BY <1>1, <1>2, <1>4, <1>5, <1>6, <1>7 DEF Phases, Searching, Doomed
<1> QED
  BY <1>1, <1>8, Halts DEF Reason

LEMMA MacInitFinishedKeeps ==
    ASSUME IInv, MacInitFinished
    PROVE  IInv'
<1> DEFINE s == "INIT_FINISHED"
<1>1. /\ Typed /\ Buffers /\ Running /\ mac = "INITED" /\ Phases /\ ~Doomed
      /\ rs = {} /\ ts = {} /\ s \in ms
  BY MacTakesTurn DEF MacInitFinished, IInv
<1>2. Booting
  <2>1. ~Starting
    BY <1>1 DEF Starting
  <2>2. ~AwaitsBeacon /\ ~Tracking /\ ~Lost
    BY <1>1 DEF AwaitsBeacon, Tracking, Lost, Attends, Denied, Reports
  <2> QED
    BY <1>1, <2>1, <2>2, MacPhases
<1>3. timer["mac"] = Off /\ timer["tracker"] = Off /\ timer["periodic"] = Off /\ timer["rlc"] = Off
  BY <1>2 DEF Booting, Timer
<1>4. /\ Sigs({}, {}, {}) /\ Timers("START_JOINING", Off, Off, Off) /\ mac' = "INITED"
      /\ UNCHANGED <<tracker, radio, caller, rx_buffer, bcn, expected, join_req, pending,
                     waiting, halted, calm>>
  <2>1. ms \ {s} = {}
    BY <1>2 DEF Booting
  <2>2. Signals("mac_engine", s, NoneRaised) /\ DelayedStartJoining(timer)
    BY <1>3 DEF MacInitFinished, Asserting
  <2>3. Sigs(rs, ts, ms \ {s})
    BY <2>2, MacTakesIt
  <2> QED
    BY <1>1, <1>3, <2>1, <2>2, <2>3, TimersNow DEF MacInitFinished, Asserting, DelayedStartJoining, frames
<1>5. Typed'
  BY <1>1, <1>4 DEF Typed, Sigs, Timers, MacSignals
<1>6. OneAtATime'
  BY <1>1, <1>4, StaysCalm DEF Few, Sigs, Running
<1>7. Buffers'
  BY <1>1, <1>4 DEF Buffers, NoneMissed
<1>8. Starting'
  BY <1>2, <1>4 DEF Booting, Starting, Sigs, Timers, RadioRests
<1> QED
  BY <1>5, <1>6, <1>7, <1>8 DEF IInv, Phases

LEMMA StartJoiningKeeps ==
    ASSUME IInv, StartJoining
    PROVE  IInv'
<1> DEFINE s == "START_JOINING"
<1>1. /\ Typed /\ Buffers /\ Running /\ mac = "INITED" /\ Phases /\ ~Doomed
      /\ rs = {} /\ ts = {} /\ s \in ms /\ (calm => Booting \/ ms = {s})
  BY MacTakesTurn DEF StartJoining, IInv
<1>2. /\ Starting \/ AwaitsBeacon \/ Tracking \/ Lost
      /\ calm => ms = {s}
  BY <1>1, MacPhases DEF Booting
<1>3. /\ Sigs({}, {}, (ms \ {s}) \cup {"SEARCH_BEACON"}) /\ mac' = "SEARCH_BEACON"
      /\ Timers(timer["mac"], timer["tracker"], timer["periodic"], timer["rlc"])
      /\ UNCHANGED <<tracker, radio, caller, timer, rx_buffer, bcn, expected, join_req, pending,
                     waiting, halted, calm>>
  BY <1>1, MacTakesIt, TimersNow DEF StartJoining, frames
<1>4. Typed'
  BY <1>1, <1>3 DEF Typed, Sigs, Timers, MacSignals, Joining
<1>5. OneAtATime'
  <2>1. calm => (ms \ {s}) \cup {"SEARCH_BEACON"} = {"SEARCH_BEACON"}
    BY <1>2
  <2> QED
    BY <1>1, <1>3, <2>1, StaysCalm DEF Few, Sigs, Running
<1>6. Buffers'
  BY <1>1, <1>3 DEF Buffers, NoneMissed, Joining, Joined
<1>7. CASE Starting
  <2>1. Starting'
    BY <1>1, <1>3, <1>7 DEF Starting, Sigs, Timers, RadioRests
  <2> QED
    BY <1>4, <1>5, <1>6, <2>1 DEF IInv, Phases
<1>8. CASE AwaitsBeacon \/ Tracking \/ Lost
  <2>1. Denied /\ timer["mac"] = Off /\ ~Attends
    BY <1>1, <1>8 DEF AwaitsBeacon, Tracking, Lost, Denied, Attends, Reports
  <2>2. Denied'
    BY <1>1, <1>3, <2>1 DEF Denied, Sigs, Timers, Reports
  <2>3. Reported' = Reported
    BY <1>3 DEF Reported, Sigs, Reports
  <2>4. AwaitsBeacon => AwaitsBeacon'
    <3> SUFFICES ASSUME AwaitsBeacon PROVE AwaitsBeacon'
      OBVIOUS
    <3>1. tracker = "BCN_TRACKING" /\ Receives("btracker", "tracker", "TRACK_TIMEOUT", {})
      BY <1>1, <2>1 DEF AwaitsBeacon, Reception, BothBounds, Bound
    <3>2. Receives("btracker", "tracker", "TRACK_TIMEOUT", ts)'
      BY <1>1, <1>3, <3>1 DEF Receives, Sigs
    <3> QED
      BY <1>3, <2>2, <2>3, <3>1, <3>2 DEF AwaitsBeacon, Reception, Bound
  <2>5. Tracking => Tracking'
    BY <1>1, <1>3, <2>2, <2>3 DEF Tracking, Sigs, RadioRests, Owing, has_waiting_join_confirm
  <2>6. Lost => Lost'
    BY <1>1, <1>3, <2>1, <2>2, <2>3 DEF Lost, Sigs, RadioRests
  <2> QED
    BY <1>4, <1>5, <1>6, <1>8, <2>4, <2>5, <2>6 DEF IInv, Phases
<1> QED
  BY <1>2, <1>7, <1>8

LEMMA SearchBeaconKeeps ==
    ASSUME IInv, SearchBeacon
    PROVE  IInv'
<1> DEFINE s == "SEARCH_BEACON"
<1>1. /\ Typed /\ Buffers /\ Running /\ mac = "SEARCH_BEACON" /\ Phases /\ ~Doomed
      /\ rs = {} /\ ts = {} /\ s \in ms
  BY MacTakesTurn DEF SearchBeacon, IInv
<1>2. Starting \/ AwaitsBeacon \/ Tracking \/ Lost
  BY <1>1, MacPhases DEF Searching, Searched
<1>3. CASE AwaitsBeacon \/ Tracking \/ Lost
  <2>1. tracker # "INITED" /\ ~calm
    BY <1>1, <1>3 DEF AwaitsBeacon, Tracking, Lost, Denied, Attends
  <2> QED
    BY <2>1, Halts DEF SearchBeacon, Reason
<1>4. CASE Starting
  <2>1. /\ ms = {s} /\ ms \ {s} = {} /\ timer["mac"] = Off /\ timer["tracker"] = Off
        /\ timer["periodic"] = Off /\ tracker = "INITED" /\ RadioRests
    BY <1>1, <1>4 DEF Starting
  <2>2. MayListen("tracker")
    BY <2>1 DEF MayListen, MayStop, AfterStop, RadioRests
  <2>3. /\ Signals("mac_engine", s, NoneRaised)
        /\ Listening("btracker", AfterStop, "tracker", "SEARCH_TIMEOUT")
        /\ tracker' = "SEARCH_BEACON"
        /\ UNCHANGED <<mac, rx_buffer, bcn, expected, frames, halted, calm>>
    BY <2>1, <2>2 DEF SearchBeacon, Asserting
  <2>4. Sigs(rs, ts, ms \ {s})
    BY <2>3, MacTakesIt
  <2>5. /\ Sigs({}, {}, {}) /\ Timers(Off, "SEARCH_TIMEOUT", Off, "RX_DURATION_TIMEOUT")
        /\ caller' = "btracker" /\ radio' = "RX" /\ tracker' = "SEARCH_BEACON"
        /\ UNCHANGED <<mac, rx_buffer, bcn, expected, join_req, pending, waiting, halted, calm>>
    BY <1>1, <2>1, <2>3, <2>4, TimersAfterStop DEF Listening, frames
  <2>6. Typed'
    BY <1>1, <2>5 DEF Typed, Sigs, Timers, TrackerState, RadioState, TrackerSignals, RlcSignals
  <2>7. OneAtATime'
    BY <1>1, <2>5, StaysCalm DEF Few, Sigs, Running
  <2>8. Buffers'
    BY <1>1, <2>5 DEF Buffers, NoneMissed
  <2>9. Receives("btracker", "tracker", "SEARCH_TIMEOUT", ts)'
    BY <2>5 DEF Receives, Sigs, Timers
  <2>10. Searching'
    BY <1>1, <2>5, <2>9 DEF Searching, Sigs, Timers, Reception
  <2> QED
    BY <2>6, <2>7, <2>8, <2>10 DEF IInv, Phases
<1> QED
  BY <1>2, <1>3, <1>4

LEMMA BeaconNotFoundKeeps ==
    ASSUME IInv, BeaconNotFound
    PROVE  IInv'
<1> DEFINE s == "BEACON_NOT_FOUND"
<1>1. /\ Typed /\ Buffers /\ Running /\ mac = "SEARCH_BEACON" /\ Phases /\ ~Doomed
      /\ rs = {} /\ ts = {} /\ s \in ms
  BY MacTakesTurn DEF BeaconNotFound, IInv
<1>2. Searched
  BY <1>1, MacPhases
     DEF Starting, Searching, AwaitsBeacon, Tracking, Lost, Attends, Denied, Reports
<1>3. /\ ms = {s} /\ ms \ {s} = {} /\ tracker = "INITED" /\ RadioRests
      /\ timer["mac"] = Off /\ timer["tracker"] = Off /\ timer["periodic"] = Off
  BY <1>1, <1>2 DEF Searched
<1>4. /\ Sigs({}, {}, {}) /\ Timers("START_JOINING", Off, Off, Off) /\ mac' = "INITED"
      /\ UNCHANGED <<tracker, radio, caller, rx_buffer, bcn, expected, join_req, pending,
                     waiting, halted, calm>>
  <2>1. /\ Signals("mac_engine", s, NoneRaised) /\ DelayedStartJoining(timer)
        /\ UNCHANGED <<tracker, radio, caller, rx_buffer, bcn, expected, frames, halted, calm>>
    BY <1>3 DEF BeaconNotFound, Asserting
  <2>2. Sigs(rs, ts, ms \ {s})
    BY <2>1, MacTakesIt
  <2> QED
    BY <1>1, <1>3, <2>1, <2>2, TimersNow DEF DelayedStartJoining, frames, RadioRests
<1>5. Typed'
  BY <1>1, <1>4 DEF Typed, Sigs, Timers, MacSignals
<1>6. OneAtATime'
  BY <1>1, <1>4, StaysCalm DEF Few, Sigs, Running
<1>7. Buffers'
  BY <1>1, <1>4 DEF Buffers, NoneMissed, Joining, Joined
<1>8. Starting'
  BY <1>3, <1>4 DEF Starting, Sigs, Timers, RadioRests
<1> QED
  BY <1>5, <1>6, <1>7, <1>8 DEF IInv, Phases

LEMMA BeaconFoundKeeps ==
    ASSUME IInv, BeaconFound
    PROVE  IInv'
<1> DEFINE s == "BEACON_FOUND"
<1>1. /\ Typed /\ Buffers /\ Running /\ mac = "SEARCH_BEACON" /\ Phases /\ ~Doomed
      /\ rs = {} /\ ts = {} /\ s \in ms
  BY MacTakesTurn DEF BeaconFound, IInv
<1>2. Searched
  BY <1>1, MacPhases
     DEF Starting, Searching, AwaitsBeacon, Tracking, Lost, Attends, Denied, Reports
<1>3. /\ ms = {s} /\ ms \ {s} = {} /\ tracker = "BEACON_FOUND" /\ RadioRests
      /\ timer["mac"] = Off /\ timer["tracker"] = Off /\ timer["periodic"] = Off
  BY <1>1, <1>2 DEF Searched
<1>4. CASE bcn.is_join_allowed
  <2>1. /\ Signals("mac_engine", s, ToTracker("BEGIN_BEACON_TRACKING"))
        /\ mac' = "BEACON_FOUND"
        /\ join_req' = [has_join_req |-> TRUE, has_been_tx |-> FALSE, due |-> 0]
        /\ UNCHANGED <<tracker, radio, caller, timer, rx_buffer, bcn, expected,
                       pending, waiting, halted, calm>>
    BY <1>4 DEF BeaconFound
  <2>2. Sigs(rs, ts \cup {"BEGIN_BEACON_TRACKING"}, ms \ {s})
    BY <2>1, MacTakesIt
  <2>3. Sigs({}, {"BEGIN_BEACON_TRACKING"}, {})
    <3>1. ts \cup {"BEGIN_BEACON_TRACKING"} = {"BEGIN_BEACON_TRACKING"}
      BY <1>1
    <3> QED
      BY <1>1, <1>3, <2>2, <3>1
  <2>4. join_req' \in JoinReq
    BY <2>1, DeviceMacAssumption DEF JoinReq, Due
  <2>5. Typed'
    BY <1>1, <2>1, <2>3, <2>4 DEF Typed, Sigs, TrackerSignals, Joining
  <2>6. OneAtATime'
    BY <1>1, <2>1, <2>3, StaysCalm DEF Few, Sigs, Running
  <2>7. Buffers'
    BY <1>1, <2>1 DEF Buffers, NoneMissed, Joining, Joined
  <2>8. Searched'
    BY <1>3, <2>1, <2>3 DEF Searched, Sigs, RadioRests
  <2> QED
    BY <2>5, <2>6, <2>7, <2>8 DEF IInv, Phases
<1>5. CASE ~bcn.is_join_allowed
  <2>1. /\ Signals("mac_engine", s, NoneRaised)
        /\ tracker' = "INITED" /\ radio' = "IDLE"
        /\ DelayedStartJoining(Stopped(timer, {"tracker", "periodic", "rlc"}))
        /\ UNCHANGED <<caller, rx_buffer, bcn, expected, frames, halted, calm>>
    BY <1>3, <1>5 DEF BeaconFound, Asserting
  <2>2. Sigs(rs, ts, ms \ {s})
    BY <2>1, MacTakesIt
  <2>3. /\ Sigs({}, {}, {}) /\ Timers("START_JOINING", Off, Off, Off) /\ mac' = "INITED"
        /\ UNCHANGED <<join_req, pending, waiting>>
    BY <1>1, <1>3, <2>1, <2>2, TimersNow DEF DelayedStartJoining, frames
  <2>4. Typed'
    BY <1>1, <2>1, <2>3 DEF Typed, Sigs, Timers, MacSignals, TrackerState, RadioState
  <2>5. OneAtATime'
    BY <1>1, <2>1, <2>3, StaysCalm DEF Few, Sigs, Running
  <2>6. Buffers'
    BY <1>1, <2>3 DEF Buffers, NoneMissed, Joining, Joined
  <2>7. Starting'
    BY <2>1, <2>3 DEF Starting, Sigs, Timers, RadioRests
  <2> QED
    BY <2>4, <2>5, <2>6, <2>7 DEF IInv, Phases
<1> QED
  BY <1>4, <1>5

\* Where the engine is when it takes the report of a tracked beacon.
LEMMA TrackedTurn ==
    ASSUME IInv, NEW state \in {"BEACON_FOUND", "IDLE"}, MacTakes(state, "BEACON_TRACKED")
    PROVE  /\ Typed /\ Buffers /\ Running /\ mac = state
           /\ rs = {} /\ ts = {} /\ "BEACON_TRACKED" \in ms /\ (calm => ms = {"BEACON_TRACKED"})
           /\ Attends /\ RadioRests
           /\ \/ Tracking /\ ms = {"BEACON_TRACKED"}
              \/ Lost /\ ~calm /\ ms = {"BEACON_TRACKED", "TRACK_LOST_BEACON"}
              \/ Failed /\ ~calm
<1>1. /\ Typed /\ Buffers /\ Running /\ mac = state /\ Phases /\ ~Doomed
      /\ rs = {} /\ ts = {} /\ "BEACON_TRACKED" \in ms /\ (calm => ms = {"BEACON_TRACKED"})
  BY MacTakesTurn DEF Booting, IInv
<1>2. AwaitsBeacon \/ Tracking \/ Lost \/ Failed
  BY <1>1, MacPhases DEF Searched
<1>3. Attends /\ ms \subseteq Reports /\ Reported = ms
  BY <1>1, <1>2 DEF AwaitsBeacon, Tracking, Lost, Failed, Attends, Denied, Reported
<1>4. ~AwaitsBeacon
  BY <1>1, <1>3 DEF AwaitsBeacon
<1>5. Tracking => RadioRests /\ ms = {"BEACON_TRACKED"}
  BY <1>1, <1>3 DEF Tracking
<1>6. Lost => RadioRests /\ ~calm /\ ms = {"BEACON_TRACKED", "TRACK_LOST_BEACON"}
  BY <1>1, <1>3 DEF Lost
<1>7. Failed => RadioRests /\ ~calm
  BY <1>1 DEF Failed
<1> QED
  BY <1>1, <1>2, <1>3, <1>4, <1>5, <1>6, <1>7

\* What the engine does about it: it goes on, or has a delayed use for the radio.
AnswersBeacon ==
    \/ mac' = mac /\ mac \in {"BEACON_FOUND", "IDLE"} /\ UNCHANGED timer
    \/ mac' \in Receiving /\ timer' = Started(timer, "mac", "RECV_FRAME")
    \/ /\ mac' \in Transmitting /\ timer' = Started(timer, "mac", "SEND_FRAME")
       /\ (mac' = "TX_JOIN_REQ" => has_pending_join_req')

LEMMA AnsweredKeeps ==
    ASSUME IInv, NEW state \in {"BEACON_FOUND", "IDLE"}, MacTakes(state, "BEACON_TRACKED"),
           Signals("mac_engine", "BEACON_TRACKED", NoneRaised),
           AnswersBeacon, ~Owing', Buffers', join_req' \in JoinReq, pending' \in 0..MaxMsgs,
           waiting' \subseteq Due \cup {-1},
           UNCHANGED <<tracker, radio, caller, rx_buffer, bcn, expected, halted, calm>>
    PROVE  IInv'
<1> DEFINE s == "BEACON_TRACKED"
<1>1. /\ Typed /\ Buffers /\ Running /\ mac = state
      /\ rs = {} /\ ts = {} /\ s \in ms /\ (calm => ms = {s})
      /\ Attends /\ RadioRests
      /\ \/ Tracking /\ ms = {s}
         \/ Lost /\ ~calm /\ ms = {s, "TRACK_LOST_BEACON"}
         \/ Failed /\ ~calm
  BY TrackedTurn
<1>2. Sigs({}, {}, ms \ {s})
  BY <1>1, MacTakesIt
<1>3. /\ timer["mac"] = Off /\ ms \subseteq Reports
      /\ timer["tracker"] \notin Timeout
  BY <1>1 DEF Attends, Tracking, Lost, Failed, Off, Timeout
<1>4. OneAtATime'
  <2>1. calm => ms \ {s} = {}
    BY <1>1
  <2> QED
    BY <1>1, <1>2, <2>1, StaysCalm DEF Few, Sigs, Running
<1>5. /\ Tracking => /\ tracker = "BCN_TRACKING" /\ timer["tracker"] = Off
                     /\ timer["periodic"] = "TRACK_BEACON"
      /\ Lost => /\ tracker = "BCN_TRACKING_SEARCH" /\ timer["periodic"] = Off
                 /\ timer["tracker"] = "BEGIN_TRACK_SEARCH"
      /\ Failed => /\ tracker = "INITED" /\ timer["tracker"] = Off
                   /\ timer["periodic"] = Off /\ "TRACK_FAILED" \in ms
  BY <1>1, <1>3 DEF Tracking, Lost, Failed, Reported
<1>6. CASE mac' = mac /\ mac \in {"BEACON_FOUND", "IDLE"} /\ UNCHANGED timer
  <2>1. Timers(Off, timer["tracker"], timer["periodic"], timer["rlc"])
    BY <1>1, <1>3, <1>6, TimersNow
  <2>2. Typed'
    BY <1>1, <1>2, <1>6, <2>1 DEF Typed, Sigs, Timers
  <2>3. Attends'
    BY <1>2, <1>3, <1>6, <2>1 DEF Attends, Sigs, Timers
  <2>4. RadioRests'
    BY <1>1, <1>2, <2>1 DEF RadioRests, Sigs, Timers
  <2>5. CASE Tracking /\ ms = {s}
    <3>1. ms \ {s} = {}
      BY <2>5
    <3>2. Tracking'
      BY <1>2, <1>5, <2>1, <2>3, <2>4, <2>5, <3>1 DEF Tracking, Sigs, Timers, Reported
    <3> QED
      BY <1>4, <2>2, <3>2 DEF IInv, Phases
  <2>6. CASE Lost /\ ~calm /\ ms = {s, "TRACK_LOST_BEACON"}
    <3>1. ms \ {s} = {"TRACK_LOST_BEACON"}
      BY <2>6
    <3>2. Reported' = {"TRACK_LOST_BEACON"}
      BY <1>2, <3>1 DEF Reported, Sigs, Reports
    <3>3. Lost'
      BY <1>2, <1>5, <2>1, <2>3, <2>4, <2>6, <3>2 DEF Lost, Sigs, Timers
    <3> QED
      BY <1>4, <2>2, <3>3 DEF IInv, Phases
  <2>7. CASE Failed /\ ~calm
    <3>1. Failed'
      BY <1>2, <1>5, <2>1, <2>3, <2>4, <2>7 DEF Failed, Sigs, Timers
    <3> QED
      BY <1>4, <2>2, <3>1 DEF IInv, Phases
  <2> QED
    BY <1>1, <2>5, <2>6, <2>7
<1>7. ASSUME NEW x \in {"RECV_FRAME", "SEND_FRAME"},
             timer' = Started(timer, "mac", x),
             mac' \in Receiving \cup Transmitting, mac' \in Receiving <=> x = "RECV_FRAME",
             mac' = "TX_JOIN_REQ" => has_pending_join_req'
      PROVE  IInv'
  <2>1. Timers(x, timer["tracker"], timer["periodic"], timer["rlc"])
    BY <1>1, <1>7, TimersNow
  <2>2. Typed'
    BY <1>1, <1>2, <1>7, <2>1 DEF Typed, Sigs, Timers, MacSignals, Receiving, Transmitting, Joining, Joined
  <2>3. RadioRests'
    BY <1>1, <1>2, <2>1 DEF RadioRests, Sigs, Timers
  <2>4. CASE Tracking /\ ms = {s}
    <3>1. ms \ {s} = {}
      BY <2>4
    <3>2. BetweenBeacons'
      BY <1>2, <1>5, <2>1, <2>4, <3>1 DEF BetweenBeacons, Sigs, Timers
    <3>3. mac' \in Transmitting <=> x = "SEND_FRAME"
      BY <1>7 DEF Receiving, Transmitting
    <3>4. Delaying'
      BY <1>2, <1>7, <2>1, <2>3, <3>1, <3>2, <3>3 DEF Delaying, Sigs, Timers
    <3> QED
      BY <1>4, <2>2, <3>4 DEF IInv, Phases
  <2>5. CASE ~(Tracking /\ ms = {s})
    <3>1. ~calm /\ ms \ {s} # {} /\ ms \ {s} \subseteq Reports
      BY <1>1, <1>3, <1>5, <2>5
    <3>2. ~Known(mac_order[mac'], ms \ {s})
      BY <1>7, <3>1, MacKnows DEF Known, Reports, Results
    <3>3. Doomed'
      BY <1>2, <1>3, <1>7, <2>1, <2>3, <3>1, <3>2 DEF Doomed, Sigs, Timers, Timeout
    <3> QED
      BY <1>4, <2>2, <3>3 DEF IInv, Phases
  <2> QED
    BY <2>4, <2>5
<1>8. CASE mac' \in Receiving /\ timer' = Started(timer, "mac", "RECV_FRAME")
  <2>1. mac' # "TX_JOIN_REQ"
    BY <1>8 DEF Receiving
  <2> QED
    BY <1>7, <1>8, <2>1
<1>9. CASE /\ mac' \in Transmitting /\ timer' = Started(timer, "mac", "SEND_FRAME")
           /\ (mac' = "TX_JOIN_REQ" => has_pending_join_req')
  <2>1. mac' \notin Receiving
    BY <1>9 DEF Receiving, Transmitting
  <2> QED
    BY <1>7, <1>9, <2>1
<1> QED
  BY <1>6, <1>8, <1>9 DEF AnswersBeacon

LEMMA TrackedWhileJoiningKeeps ==
    ASSUME IInv, TrackedWhileJoining
    PROVE  IInv'
<1>1. /\ Typed /\ Buffers /\ mac = "BEACON_FOUND" /\ MacTakes("BEACON_FOUND", "BEACON_TRACKED")
      /\ timer["mac"] = Off
  BY TrackedTurn DEF TrackedWhileJoining, Attends
<1>2. /\ waiting = {} /\ join_req \in JoinReq /\ mac \in Joining
  BY <1>1 DEF Buffers, Typed, Joining
<1>3. /\ Signals("mac_engine", "BEACON_TRACKED", NoneRaised)
      /\ UNCHANGED <<tracker, radio, caller, rx_buffer, bcn, expected, pending, waiting, halted, calm>>
      /\ \/ /\ has_waiting_join_confirm
            /\ join_req' = [join_req EXCEPT !.has_been_tx = FALSE]
            /\ DelayedTo("RX_JOIN_CONFIRM", "RECV_FRAME") \/ StaysIn(mac)
         \/ /\ ~has_waiting_join_confirm /\ UNCHANGED join_req
            /\ \/ has_pending_join_req /\ DelayedTo("TX_JOIN_REQ", "SEND_FRAME")
               \/ StaysIn(mac)
  BY <1>1 DEF TrackedWhileJoining, Asserting
<1>4. AnswersBeacon
  BY <1>1, <1>3
     DEF AnswersBeacon, DelayedTo, StaysIn, Receiving, Transmitting, has_pending_join_req
<1>5. join_req' \in JoinReq /\ ~has_waiting_join_confirm'
  BY <1>2, <1>3 DEF JoinReq, has_waiting_join_confirm
<1>6. ~Owing'
  BY <1>2, <1>3, <1>5 DEF Owing
<1>7. Buffers'
  <2>1. NoneMissed'
    BY <1>1, <1>2, <1>3 DEF Buffers, NoneMissed, JoinReq
  <2>2. mac' \in Joining
    BY <1>1, <1>3 DEF DelayedTo, StaysIn, Joining
  <2> QED
    BY <1>1, <1>2, <1>3, <2>1, <2>2 DEF Buffers, Joining, Joined
<1> QED
  BY <1>1, <1>2, <1>3, <1>4, <1>5, <1>6, <1>7, AnsweredKeeps DEF Typed

LEMMA CheckedFrames ==
    ASSUME Typed, IsFiniteSet(waiting), pending + Cardinality(waiting) <= MaxMsgs, check_ack
    PROVE  /\ 0 \notin waiting' /\ waiting' \subseteq waiting /\ IsFiniteSet(waiting')
           /\ pending' \in Nat /\ pending' + Cardinality(waiting') <= MaxMsgs
           /\ Cardinality(waiting') \in Nat
<1>1. /\ pending \in Nat /\ waiting \subseteq Due \cup {-1} /\ Cardinality(waiting) \in Nat
      /\ IsFiniteSet(waiting) /\ pending + Cardinality(waiting) <= MaxMsgs
  BY FS_CardinalityType DEF Typed
<1>2. CASE 0 \in waiting
  <2>1. waiting' = waiting \ {0} /\ pending' \in pending..(pending + 1)
    BY <1>2 DEF check_ack, SentAgain
  <2>2. IsFiniteSet(waiting \ {0}) /\ Cardinality(waiting \ {0}) = Cardinality(waiting) - 1
    BY <1>1, <1>2, FS_RemoveElement
  <2>3. Cardinality(waiting \ {0}) \in Nat
    BY <2>2, FS_CardinalityType
  <2>4. pending' \in Nat /\ pending' <= pending + 1
    BY <1>1, <2>1
  <2>5. pending' + Cardinality(waiting \ {0}) <= MaxMsgs
    BY <1>1, <2>2, <2>3, <2>4, DeviceMacAssumption
  <2> QED
    BY <2>1, <2>2, <2>3, <2>4, <2>5
<1>3. CASE 0 \notin waiting
  BY <1>1, <1>3 DEF check_ack
<1> QED
  BY <1>2, <1>3

LEMMA TrackedWhileJoinedKeeps ==
    ASSUME IInv, TrackedWhileJoined
    PROVE  IInv'
<1>1. /\ Typed /\ Buffers /\ mac = "IDLE" /\ MacTakes("IDLE", "BEACON_TRACKED")
      /\ timer["mac"] = Off
  BY TrackedTurn DEF TrackedWhileJoined, Attends
<1>2. /\ -1 \notin waiting /\ join_req \in JoinReq /\ ~join_req.has_join_req
      /\ IsFiniteSet(waiting) /\ pending + Cardinality(waiting) <= MaxMsgs
      /\ pending \in Nat /\ waiting \subseteq Due \cup {-1} /\ Cardinality(waiting) \in Nat
  BY <1>1, FS_CardinalityType DEF Buffers, Typed, Joined, NoneMissed
<1>3. /\ Signals("mac_engine", "BEACON_TRACKED", NoneRaised) /\ check_ack
      /\ UNCHANGED <<tracker, radio, caller, rx_buffer, bcn, expected, join_req, halted, calm>>
      /\ \/ DelayedTo("RX_FRAME", "RECV_FRAME")
         \/ DelayedTo("TX_FRAME", "SEND_FRAME")
         \/ StaysIn(mac)
  BY <1>1, <1>2 DEF TrackedWhileJoined, Asserting
<1>4. AnswersBeacon
  BY <1>1, <1>3 DEF AnswersBeacon, DelayedTo, StaysIn, Receiving, Transmitting
<1>5. /\ 0 \notin waiting' /\ waiting' \subseteq waiting /\ IsFiniteSet(waiting')
      /\ pending' \in Nat /\ pending' + Cardinality(waiting') <= MaxMsgs
      /\ Cardinality(waiting') \in Nat
  BY <1>1, <1>2, <1>3, CheckedFrames
<1>6. ~Owing'
  BY <1>2, <1>3, <1>5 DEF Owing, has_waiting_join_confirm
<1>7. mac' \in Joined
  BY <1>1, <1>3 DEF DelayedTo, StaysIn, Joined
<1>8. Buffers'
  BY <1>2, <1>3, <1>5, <1>7 DEF Buffers, NoneMissed, Joined, Joining
<1>9. pending' \in 0..MaxMsgs
  BY <1>5, DeviceMacAssumption
<1> QED
  BY <1>1, <1>2, <1>3, <1>4, <1>5, <1>6, <1>8, <1>9, AnsweredKeeps

LEMMA LostStored ==
    ASSUME Typed, Stored, mac \in {"BEACON_FOUND", "IDLE"}, handle_lost_beacon
    PROVE  /\ waiting' = {} /\ IsFiniteSet(waiting') /\ pending' \in 0..MaxMsgs
           /\ pending' + Cardinality(waiting') <= MaxMsgs
           /\ join_req' \in JoinReq
           /\ join_req' = join_req \/ join_req' = [join_req EXCEPT !.has_been_tx = FALSE]
           /\ tx_due' = tx_due
<1>1. /\ join_req \in JoinReq /\ pending \in Nat /\ pending + Cardinality(waiting) <= MaxMsgs
      /\ IsFiniteSet(waiting) /\ Cardinality(waiting) \in Nat
  BY FS_CardinalityType DEF Typed, Stored
<1>2. CASE mac = "BEACON_FOUND"
  <2>1. waiting = {} /\ join_req' = [join_req EXCEPT !.has_been_tx = FALSE]
        /\ UNCHANGED <<pending, waiting, tx_due>>
    BY <1>2 DEF handle_lost_beacon, Stored, Joining
  <2>2. join_req' \in JoinReq
    BY <1>1, <2>1 DEF JoinReq
  <2> QED
    BY <1>1, <2>1, <2>2, DeviceMacAssumption
<1>3. CASE mac = "IDLE"
  <2>1. /\ waiting' = {} /\ pending' \in pending..(pending + Cardinality(waiting))
        /\ UNCHANGED <<join_req, tx_due>>
    BY <1>3 DEF handle_lost_beacon, Joining, SentAgain
  <2>2. IsFiniteSet(waiting') /\ Cardinality(waiting') = 0
    BY <2>1, FS_EmptySet
  <2>3. pending' \in Nat /\ pending' <= MaxMsgs
    BY <1>1, <2>1, DeviceMacAssumption
  <2> QED
    BY <1>1, <2>1, <2>2, <2>3, DeviceMacAssumption
<1> QED
  BY <1>2, <1>3

LEMMA LostFrames ==
    ASSUME Typed, Buffers, mac \in {"BEACON_FOUND", "IDLE"}, handle_lost_beacon
    PROVE  /\ waiting' = {} /\ IsFiniteSet(waiting') /\ pending' \in 0..MaxMsgs
           /\ pending' + Cardinality(waiting') <= MaxMsgs
           /\ join_req' \in JoinReq /\ NoneMissed'
           /\ join_req'.has_join_req = join_req.has_join_req
<1>1. Stored /\ NoneMissed /\ join_req \in JoinReq
  BY DEF Buffers, Stored, Typed
<1>2. /\ waiting' = {} /\ IsFiniteSet(waiting') /\ pending' \in 0..MaxMsgs
      /\ pending' + Cardinality(waiting') <= MaxMsgs /\ join_req' \in JoinReq
      /\ join_req' = join_req \/ join_req' = [join_req EXCEPT !.has_been_tx = FALSE]
  BY <1>1, LostStored
<1>3. NoneMissed' /\ join_req'.has_join_req = join_req.has_join_req
  BY <1>1, <1>2 DEF NoneMissed, JoinReq
<1> QED
  BY <1>2, <1>3

LEMMA LostBeaconKeeps ==
    ASSUME IInv, LostBeacon
    PROVE  IInv'
<1> DEFINE s == "TRACK_LOST_BEACON"
<1>1. PICK state \in {"BEACON_FOUND", "IDLE"} : MacTakes(state, s)
  BY DEF LostBeacon
<1>2. /\ Typed /\ Buffers /\ Running /\ mac = state /\ Phases /\ ~Doomed
      /\ rs = {} /\ ts = {} /\ s \in ms /\ "BEACON_TRACKED" \notin ms
      /\ calm => ms = {s}
  BY <1>1, MacTakesTurn, MacOrder DEF MacTakes, ms, Booting, IInv
<1>3. (Lost /\ ms = {s}) \/ Failed
  <2>1. AwaitsBeacon \/ Tracking \/ Lost \/ Failed
    BY <1>2, MacPhases DEF Searched
  <2>2. Attends /\ ms \subseteq Reports /\ Reported = ms
    BY <1>2, <2>1 DEF AwaitsBeacon, Tracking, Lost, Failed, Attends, Denied, Reported
  <2> QED
    BY <1>2, <2>1, <2>2 DEF AwaitsBeacon, Tracking, Lost
<1>4. /\ Sigs({}, {}, ms \ {s}) /\ handle_lost_beacon
      /\ Timers(timer["mac"], timer["tracker"], timer["periodic"], timer["rlc"])
      /\ UNCHANGED <<mac, tracker, radio, caller, timer, rx_buffer, bcn, expected, halted, calm>>
  BY <1>2, MacTakesIt, TimersNow DEF LostBeacon
<1>5. /\ waiting' = {} /\ IsFiniteSet(waiting') /\ pending' \in 0..MaxMsgs
      /\ pending' + Cardinality(waiting') <= MaxMsgs
      /\ join_req' \in JoinReq /\ NoneMissed'
      /\ join_req'.has_join_req = join_req.has_join_req
  BY <1>2, <1>4, LostFrames
<1>6. Typed'
  BY <1>2, <1>4, <1>5 DEF Typed, Sigs, Timers
<1>7. OneAtATime'
  <2>1. calm => ms \ {s} = {}
    BY <1>2
  <2> QED
    BY <1>2, <1>4, <2>1, StaysCalm DEF Few, Sigs, Running
<1>8. Buffers'
  BY <1>2, <1>4, <1>5 DEF Buffers
<1>9. Attends => Attends'
  BY <1>4 DEF Attends, Sigs, Timers
<1>10. CASE Lost /\ ms = {s}
  <2>1. Attends /\ timer["tracker"] = "BEGIN_TRACK_SEARCH"
    BY <1>2, <1>10 DEF Lost, Denied, Attends
  <2>2. Lost'
    BY <1>4, <1>9, <1>10, <2>1 DEF Lost, Sigs, Timers, RadioRests
  <2> QED
    BY <1>6, <1>7, <1>8, <2>2 DEF IInv, Phases
<1>11. CASE Failed
  <2>1. Failed'
    BY <1>2, <1>4, <1>9, <1>11 DEF Failed, Sigs, Timers, RadioRests
  <2> QED
    BY <1>6, <1>7, <1>8, <2>1 DEF IInv, Phases
<1> QED
  BY <1>3, <1>10, <1>11

LEMMA TrackFailedKeeps ==
    ASSUME IInv, TrackFailed
    PROVE  IInv'
<1> DEFINE s == "TRACK_FAILED"
<1>1. PICK state \in {"BEACON_FOUND", "IDLE"} : MacTakes(state, s)
  BY DEF TrackFailed
<1>2. /\ Typed /\ Buffers /\ Running /\ mac = state /\ Phases /\ ~Doomed
      /\ rs = {} /\ ts = {} /\ s \in ms
      /\ "BEACON_TRACKED" \notin ms /\ "TRACK_LOST_BEACON" \notin ms
  BY <1>1, MacTakesTurn, MacOrder DEF MacTakes, ms, IInv
<1>3. Failed
  <2>1. AwaitsBeacon \/ Tracking \/ Lost \/ Failed
    BY <1>2, MacPhases DEF Searched
  <2>2. Attends /\ ms \subseteq Reports /\ Reported = ms
    BY <1>2, <2>1 DEF AwaitsBeacon, Tracking, Lost, Failed, Attends, Denied, Reported
  <2> QED
    BY <1>2, <2>1, <2>2 DEF AwaitsBeacon, Tracking, Lost
<1>4. /\ ms \ {s} = {} /\ timer["mac"] = Off /\ timer["tracker"] = Off /\ timer["periodic"] = Off
      /\ RadioRests /\ tracker = "INITED"
  BY <1>2, <1>3 DEF Failed, Attends, Reports
<1>5. /\ Signals("mac_engine", s, NoneRaised) /\ handle_lost_beacon /\ DelayedStartJoining(timer)
      /\ UNCHANGED <<tracker, radio, caller, rx_buffer, bcn, expected, halted, calm>>
  BY <1>4 DEF TrackFailed, Asserting
<1>6. /\ Sigs({}, {}, {}) /\ Timers("START_JOINING", Off, Off, Off) /\ mac' = "INITED"
  <2>1. Sigs(rs, ts, ms \ {s})
    BY <1>5, MacTakesIt
  <2> QED
    BY <1>2, <1>4, <1>5, <2>1, TimersNow DEF DelayedStartJoining, RadioRests
<1>7. /\ waiting' = {} /\ IsFiniteSet(waiting') /\ pending' \in 0..MaxMsgs
      /\ pending' + Cardinality(waiting') <= MaxMsgs
      /\ join_req' \in JoinReq /\ NoneMissed'
  BY <1>2, <1>5, LostFrames
<1>8. Typed'
  BY <1>2, <1>5, <1>6, <1>7 DEF Typed, Sigs, Timers, MacSignals
<1>9. OneAtATime'
  BY <1>2, <1>5, <1>6, StaysCalm DEF Few, Sigs, Running
<1>10. Buffers'
  BY <1>6, <1>7 DEF Buffers, Joined
<1>11. Starting'
  BY <1>4, <1>5, <1>6 DEF Starting, Sigs, Timers, RadioRests
<1> QED
  BY <1>8, <1>9, <1>10, <1>11 DEF IInv, Phases

\* The engine is done with the radio, and between two beacons.
LEMMA DoneKeeps ==
    ASSUME Typed, BetweenBeacons, RadioRests', Typed', OneAtATime', Buffers',
           UNCHANGED <<tracker, calm>>, ts' = {}, ms' = {},
           Timers(Off, timer["tracker"], timer["periodic"], Off),
           mac' \in {"BEACON_FOUND", "IDLE"}, ~Owing'
    PROVE  IInv'
<1>1. Attends'
  BY DEF Attends, Timers
<1>2. Tracking'
  BY <1>1 DEF Tracking, BetweenBeacons, Timers, Reported
<1> QED
  BY <1>2 DEF IInv, Phases

LEMMA SendFrameKeeps ==
    ASSUME IInv, SendFrame
    PROVE  IInv'
<1> DEFINE s == "SEND_FRAME"
<1>1. PICK state \in Transmitting : MacTakes(state, s)
  BY DEF SendFrame
<1>2. /\ Typed /\ Buffers /\ Running /\ mac = state /\ Phases /\ ~Doomed
      /\ rs = {} /\ ts = {} /\ s \in ms
  BY <1>1, MacTakesTurn DEF IInv
<1>3. /\ BetweenBeacons /\ RadioRests /\ timer["mac"] = Off /\ ms \ {s} = {}
      /\ mac = "TX_JOIN_REQ" => has_pending_join_req
  <2>1. Delaying
    BY <1>2, MacPhases DEF Sends, Results
  <2>2. ms = {s} /\ timer["mac"] = Off
    BY <1>2, <2>1 DEF Delaying
  <2> QED
    BY <2>1, <2>2 DEF Delaying
<1>4. tracker = "BCN_TRACKING" /\ timer["periodic"] = "TRACK_BEACON" /\ timer["tracker"] = Off /\ ~Owing
  BY <1>3 DEF BetweenBeacons
<1>5. CASE mac = "TX_FRAME" /\ pending = 0
  <2>1. /\ Sigs({}, {}, {}) /\ mac' = "IDLE"
        /\ Timers(Off, timer["tracker"], timer["periodic"], Off)
        /\ UNCHANGED <<tracker, radio, caller, rx_buffer, bcn, expected, join_req, pending,
                       waiting, halted, calm>>
    BY <1>2, <1>3, <1>5, MacTakesIt, TimersNow DEF SendFrame, frames, RadioRests
  <2>2. Typed'
    BY <1>2, <2>1 DEF Typed, Sigs, Timers, Joined
  <2>3. OneAtATime'
    BY <1>2, <2>1, StaysCalm DEF Few, Sigs, Running
  <2>4. Buffers'
    BY <1>2, <1>5, <2>1 DEF Buffers, NoneMissed, Joining, Joined
  <2>5. RadioRests' /\ ts' = {} /\ ms' = {} /\ ~Owing'
    BY <1>3, <1>4, <2>1 DEF RadioRests, Sigs, Timers, Owing, has_waiting_join_confirm
  <2> QED
    BY <1>2, <1>3, <2>1, <2>2, <2>3, <2>4, <2>5, DoneKeeps
<1>6. CASE ~(mac = "TX_FRAME" /\ pending = 0)
  <2>1. /\ radio = "IDLE"
        /\ mac = "TX_JOIN_REQ" => has_pending_join_req /\ ~has_waiting_join_confirm
    BY <1>3 DEF RadioRests, has_pending_join_req, has_waiting_join_confirm
  <2>2. /\ Signals("mac_engine", s, ToRlc("TX_START"))
        /\ caller' = "mac_engine" /\ radio' = "TX"
        /\ join_req' = IF mac = "TX_FRAME" THEN join_req
                       ELSE [join_req EXCEPT !.due = PACKED_ACK_DELAY_NUM]
        /\ mac = "TX_FRAME" => tx_due' = PACKED_ACK_DELAY_NUM
        /\ UNCHANGED <<mac, tracker, timer, rx_buffer, bcn, expected, pending, waiting, halted, calm>>
    BY <1>6, <2>1 DEF SendFrame, Asserting
  <2>3. Sigs({"TX_START"}, {}, {})
    <3>1. Sigs(rs \cup {"TX_START"}, ts, ms \ {s})
      BY <2>2, MacTakesIt
    <3>2. rs \cup {"TX_START"} = {"TX_START"}
      BY <1>2
    <3> QED
      BY <1>2, <1>3, <3>1, <3>2
  <2>4. Timers(Off, timer["tracker"], timer["periodic"], Off)
    BY <1>2, <1>3, <2>2, TimersNow DEF RadioRests
  <2>5. join_req' \in JoinReq /\ ~has_waiting_join_confirm'
    <3>1. join_req \in JoinReq /\ PACKED_ACK_DELAY_NUM \in Due
      BY <1>2, DeviceMacAssumption DEF Typed, Due
    <3>2. CASE mac = "TX_FRAME"
      BY <1>4, <2>2, <3>1, <3>2 DEF Owing, has_waiting_join_confirm
    <3>3. CASE mac # "TX_FRAME"
      <4>1. /\ join_req' \in JoinReq /\ join_req'.due = PACKED_ACK_DELAY_NUM
        BY <2>2, <3>1, <3>3 DEF JoinReq
      <4> QED
        BY <4>1, DeviceMacAssumption DEF has_waiting_join_confirm
    <3> QED
      BY <3>2, <3>3
  <2>6. Typed'
    BY <1>2, <2>2, <2>3, <2>4, <2>5 DEF Typed, Sigs, Timers, RadioState, Sending, RlcSignals
  <2>7. OneAtATime'
    BY <1>2, <2>2, <2>3, StaysCalm DEF Few, Sigs, Running
  <2>8. /\ mac = "TX_FRAME" => pending > 0 /\ tx_due' = PACKED_ACK_DELAY_NUM /\ UNCHANGED join_req
        /\ mac = "TX_JOIN_REQ" => /\ has_pending_join_req'
                                  /\ join_req'.due = PACKED_ACK_DELAY_NUM
                                  /\ join_req'.has_join_req /\ ~join_req'.has_been_tx
    <3>1. pending \in Nat /\ join_req \in JoinReq
      BY <1>2 DEF Typed
    <3> QED
      BY <1>3, <1>6, <2>2, <3>1 DEF JoinReq, has_pending_join_req
  <2>9. mac = "TX_FRAME" \/ mac = "TX_JOIN_REQ"
    BY <1>2 DEF Transmitting
  <2>10. Buffers'
    BY <1>2, <2>2, <2>8, <2>9 DEF Buffers, NoneMissed, Joined, Joining
  <2>11. BetweenBeacons'
    BY <1>4, <2>2, <2>3, <2>4, <2>5 DEF BetweenBeacons, Owing, Sigs, Timers
  <2>12. Sends'
    BY <1>2, <2>2, <2>3, <2>4, <2>8, <2>11 DEF Sends, Sigs, Timers
  <2> QED
    BY <2>6, <2>7, <2>10, <2>12 DEF IInv, Phases
<1> QED
  BY <1>5, <1>6

\* The engine learns what has become of its frame.
LEMMA SentTurn ==
    ASSUME IInv, NEW state \in Transmitting, NEW s \in Results, MacTakes(state, s)
    PROVE  /\ Typed /\ Buffers /\ Running /\ mac = state /\ rs = {} /\ ts = {} /\ ms \ {s} = {}
           /\ BetweenBeacons /\ RadioRests /\ timer["mac"] = Off
           /\ mac = "TX_JOIN_REQ" => has_pending_join_req /\ join_req.due = PACKED_ACK_DELAY_NUM
           /\ mac = "TX_FRAME" => pending > 0 /\ tx_due = PACKED_ACK_DELAY_NUM
<1>1. /\ Typed /\ Buffers /\ Running /\ mac = state /\ Phases /\ ~Doomed
      /\ rs = {} /\ ts = {} /\ s \in ms
  BY MacTakesTurn DEF IInv
<1>2. Sends
  BY <1>1, MacPhases DEF Delaying, Results, Transmitting, Receiving
<1>3. RadioRests /\ ms = {s}
  BY <1>1, <1>2 DEF Sends
<1> QED
  BY <1>1, <1>2, <1>3 DEF Sends

LEMMA TxOkKeeps ==
    ASSUME IInv, TxOk
    PROVE  IInv'
<1> DEFINE s == "RLC_TX_OK"
<1>1. PICK state \in Transmitting : MacTakes(state, s)
  BY DEF TxOk, Transmitting
<1>2. /\ Typed /\ Buffers /\ Running /\ mac = state /\ rs = {} /\ ts = {} /\ ms \ {s} = {}
      /\ BetweenBeacons /\ RadioRests /\ timer["mac"] = Off
      /\ mac = "TX_JOIN_REQ" => has_pending_join_req /\ join_req.due = PACKED_ACK_DELAY_NUM
      /\ mac = "TX_FRAME" => pending > 0 /\ tx_due = PACKED_ACK_DELAY_NUM
  BY <1>1, SentTurn DEF Results
<1>3. /\ Sigs({}, {}, {}) /\ Timers(Off, timer["tracker"], timer["periodic"], Off)
      /\ UNCHANGED <<tracker, radio, caller, rx_buffer, bcn, expected, halted, calm>>
  BY <1>2, MacTakesIt, TimersNow DEF TxOk, RadioRests
<1>4. OneAtATime'
  BY <1>2, <1>3, StaysCalm DEF Few, Sigs, Running
<1>5. RadioRests' /\ ts' = {} /\ ms' = {}
  BY <1>2, <1>3 DEF RadioRests, Sigs, Timers
<1>6. /\ ~Owing /\ join_req \in JoinReq /\ pending \in Nat /\ IsFiniteSet(waiting)
      /\ Cardinality(waiting) \in Nat /\ pending + Cardinality(waiting) <= MaxMsgs
      /\ waiting \subseteq Due \cup {-1} /\ PACKED_ACK_DELAY_NUM \in Due
      /\ PACKED_ACK_DELAY_NUM # 0 /\ PACKED_ACK_DELAY_NUM # -1 /\ PACKED_ACK_DELAY_NUM >= 0
      /\ NoneMissed
  BY <1>2, FS_CardinalityType, DeviceMacAssumption DEF BetweenBeacons, Typed, Buffers, Due
<1>7. CASE mac = "TX_JOIN_REQ"
  <2>1. /\ mac' = "BEACON_FOUND" /\ join_req' = [join_req EXCEPT !.has_been_tx = TRUE]
        /\ UNCHANGED <<pending, waiting>>
    BY <1>7 DEF TxOk, MacTakes
  <2>2. join_req' \in JoinReq /\ join_req'.due = PACKED_ACK_DELAY_NUM
    BY <1>2, <1>6, <1>7, <2>1 DEF JoinReq
  <2>3. ~Owing'
    BY <1>6, <2>1, <2>2 DEF Owing, has_waiting_join_confirm
  <2>4. Buffers'
    BY <1>2, <1>6, <1>7, <2>1, <2>2 DEF Buffers, NoneMissed, Joining, Joined
  <2>5. Typed'
    BY <1>2, <1>3, <2>1, <2>2 DEF Typed, Sigs, Timers, Joining
  <2> QED
    BY <1>2, <1>3, <1>4, <1>5, <2>1, <2>3, <2>4, <2>5, DoneKeeps
<1>8. CASE mac = "TX_FRAME"
  <2>1. /\ mac' = "IDLE" /\ pending' = pending - 1
        /\ waiting' = waiting \cup {PACKED_ACK_DELAY_NUM} /\ UNCHANGED join_req
    BY <1>2, <1>8 DEF TxOk, MacTakes
  <2>2. /\ IsFiniteSet(waiting') /\ Cardinality(waiting') <= Cardinality(waiting) + 1
        /\ Cardinality(waiting') \in Nat
    <3>1. /\ IsFiniteSet(waiting') /\ Cardinality(waiting') =
                IF PACKED_ACK_DELAY_NUM \in waiting THEN Cardinality(waiting) ELSE Cardinality(waiting) + 1
      BY <1>6, <2>1, FS_AddElement
    <3> QED
      BY <1>6, <3>1
  <2>3. pending' \in Nat /\ pending' + Cardinality(waiting') <= MaxMsgs /\ pending' \in 0..MaxMsgs
    BY <1>2, <1>6, <1>8, <2>1, <2>2, DeviceMacAssumption
  <2>4. ~Owing'
    BY <1>6, <2>1 DEF Owing, has_waiting_join_confirm
  <2>5. ~join_req'.has_join_req
    BY <1>2, <1>8, <2>1 DEF Buffers, Joined
  <2>6. Buffers'
    BY <1>6, <2>1, <2>2, <2>3, <2>5 DEF Buffers, NoneMissed, Joining, Joined
  <2>7. Typed'
    BY <1>2, <1>3, <1>6, <2>1, <2>3 DEF Typed, Sigs, Timers, Joined
  <2> QED
    BY <1>2, <1>3, <1>4, <1>5, <2>1, <2>4, <2>6, <2>7, DoneKeeps
<1> QED
  BY <1>2, <1>7, <1>8 DEF Transmitting

LEMMA TxFailureKeeps ==
    ASSUME IInv, TxFailure
    PROVE  IInv'
<1>1. PICK s \in Range(TxFailed) :
        /\ \/ MacTakes("TX_JOIN_REQ", s) /\ mac' = "BEACON_FOUND"
           \/ MacTakes("TX_FRAME", s) /\ mac' = "IDLE"
        /\ Signals("mac_engine", s, NoneRaised)
  BY DEF TxFailure
<1>2. s \in Results
  <2>1. Range(TxFailed) = {"RLC_TX_CCA_FAILED", "RLC_TX_CCA_CRC_FAIL", "RLC_TX_TIMEOUT"}
    BY DEF TxFailed, Range
  <2> QED
    BY <2>1 DEF Results
<1>3. /\ Typed /\ Buffers /\ Running /\ rs = {} /\ ts = {} /\ ms \ {s} = {}
      /\ BetweenBeacons /\ RadioRests /\ timer["mac"] = Off
      /\ \/ mac = "TX_JOIN_REQ" /\ mac' = "BEACON_FOUND"
         \/ mac = "TX_FRAME" /\ mac' = "IDLE"
  BY <1>1, <1>2, SentTurn DEF Transmitting
<1>4. /\ Sigs({}, {}, {}) /\ Timers(Off, timer["tracker"], timer["periodic"], Off)
      /\ UNCHANGED <<tracker, radio, caller, timer, rx_buffer, bcn, expected, join_req, pending,
                     waiting, halted, calm>>
  BY <1>1, <1>3, MacTakesIt, TimersNow DEF TxFailure, RadioRests, frames
<1>5. OneAtATime'
  BY <1>3, <1>4, StaysCalm DEF Few, Sigs, Running
<1>6. RadioRests' /\ ts' = {} /\ ms' = {} /\ ~Owing'
  BY <1>3, <1>4 DEF RadioRests, Sigs, Timers, Owing, has_waiting_join_confirm, BetweenBeacons
<1>7. Typed'
  BY <1>3, <1>4 DEF Typed, Sigs, Timers, Joining, Joined
<1>8. Buffers'
  BY <1>3, <1>4 DEF Buffers, NoneMissed, Joining, Joined
<1> QED
  BY <1>3, <1>4, <1>5, <1>6, <1>7, <1>8, DoneKeeps

LEMMA RecvFrameKeeps ==
    ASSUME IInv, RecvFrame
    PROVE  IInv'
<1> DEFINE s == "RECV_FRAME"
<1>1. PICK state \in Receiving : MacTakes(state, s)
  BY DEF RecvFrame
<1>2. /\ Typed /\ Buffers /\ Running /\ mac = state /\ Phases /\ ~Doomed
      /\ rs = {} /\ ts = {} /\ s \in ms
  BY <1>1, MacTakesTurn DEF IInv
<1>3. Delaying
  <2>1. ~AwaitsFrame
    BY <1>2 DEF AwaitsFrame, Reception, Receives, BothBounds, DUR
  <2> QED
    BY <1>2, <2>1, MacPhases
<1>4. /\ BetweenBeacons /\ RadioRests /\ timer["mac"] = Off /\ ms \ {s} = {}
  <2>1. ms = {s} /\ timer["mac"] = Off
    BY <1>2, <1>3 DEF Delaying
  <2> QED
    BY <1>3, <2>1 DEF Delaying
<1>5. /\ Signals("mac_engine", s, NoneRaised) /\ Listening("mac_engine", timer, "mac", "RECV_TIMEOUT")
      /\ UNCHANGED <<mac, tracker, rx_buffer, bcn, expected, join_req, pending, waiting, halted, calm>>
  BY <1>4 DEF RecvFrame, Asserting, RadioRests, frames
<1>6. /\ Sigs({}, {}, {}) /\ caller' = "mac_engine" /\ radio' = "RX"
      /\ Timers("RECV_TIMEOUT", timer["tracker"], timer["periodic"], "RX_DURATION_TIMEOUT")
  BY <1>2, <1>4, <1>5, MacTakesIt, TimersAfterStop DEF Listening
<1>7. Typed'
  BY <1>2, <1>5, <1>6 DEF Typed, Sigs, Timers, RadioState, MacSignals, RlcSignals
<1>8. OneAtATime'
  BY <1>2, <1>5, <1>6, StaysCalm DEF Few, Sigs, Running
<1>9. Buffers'
  BY <1>2, <1>5 DEF Buffers, NoneMissed
<1>10. BetweenBeacons'
  BY <1>4, <1>5, <1>6 DEF BetweenBeacons, Sigs, Timers, Owing, has_waiting_join_confirm
<1>11. Receives("mac_engine", "mac", "RECV_TIMEOUT", ms)'
  BY <1>6 DEF Receives, Sigs, Timers
<1>12. AwaitsFrame'
  BY <1>2, <1>5, <1>10, <1>11 DEF AwaitsFrame, Reception
<1> QED
  BY <1>7, <1>8, <1>9, <1>12 DEF IInv, Phases

\* The engine takes a signal while it waits for a frame.
LEMMA FrameTurn ==
    ASSUME IInv, NEW state \in Receiving,
           NEW s \in {"RLC_RX_OK", DUR, "RECV_TIMEOUT"}, MacTakes(state, s)
    PROVE  /\ Typed /\ Buffers /\ Running /\ mac = state /\ rs = {} /\ ts = {} /\ s \in ms
           /\ calm => ms = {s}
           /\ BetweenBeacons /\ AwaitsFrame /\ MayStop /\ RlcStopped = Off
           /\ s = DUR => ~calm /\ RadioRests /\ ms = {"RECV_TIMEOUT", DUR} /\ timer["mac"] = Off
           /\ s = "RECV_TIMEOUT" => ms = {s} /\ timer["mac"] = Off
<1>1. /\ Typed /\ Buffers /\ Running /\ mac = state /\ Phases /\ ~Doomed
      /\ rs = {} /\ ts = {} /\ s \in ms /\ (calm => Booting \/ ms = {s})
  BY MacTakesTurn DEF IInv
<1>2. AwaitsFrame /\ ~Booting
  BY <1>1, MacPhases DEF Delaying, DUR, Transmitting, Receiving, Booting
<1>3. BetweenBeacons /\ Reception("mac_engine", "mac", "RECV_TIMEOUT", ms)
  BY <1>2 DEF AwaitsFrame
<1>4. MayStop /\ RlcStopped = Off
  BY <1>3 DEF Reception, Receives, BothBounds, RadioRests, MayStop, RlcStopped
<1>5. /\ s = DUR => "RLC_RX_OK" \notin ms
      /\ s = "RECV_TIMEOUT" => "RLC_RX_OK" \notin ms /\ DUR \notin ms
  BY MacOrder DEF MacTakes, ms
<1>6. s = DUR => ~calm /\ RadioRests /\ ms = {"RECV_TIMEOUT", DUR} /\ timer["mac"] = Off
  BY <1>1, <1>3, <1>5 DEF Reception, Receives, BothBounds, DUR
<1>7. s = "RECV_TIMEOUT" => ms = {s} /\ timer["mac"] = Off
  BY <1>1, <1>3, <1>5 DEF Reception, Receives, BothBounds, DUR
<1> QED
  BY <1>1, <1>2, <1>3, <1>4, <1>6, <1>7

LEMMA RxOtherKeeps ==
    ASSUME IInv, RxOther
    PROVE  IInv'
<1> DEFINE s == "RLC_RX_OK"
<1>1. PICK state \in Receiving : MacTakes(state, s)
  BY DEF RxOther
<1>2. /\ Typed /\ Buffers /\ Running /\ mac = state /\ rs = {} /\ ts = {} /\ s \in ms
      /\ calm => ms = {s}
      /\ BetweenBeacons /\ AwaitsFrame
  BY <1>1, FrameTurn
<1>3. /\ Sigs({}, {}, ms \ {s})
      /\ UNCHANGED <<mac, tracker, radio, caller, timer, rx_buffer, bcn, expected,
                     join_req, pending, waiting, halted, calm>>
  BY <1>2, MacTakesIt DEF RxOther, frames
<1>4. Typed'
  BY <1>2, <1>3 DEF Typed, Sigs
<1>5. OneAtATime'
  <2>1. calm => ms \ {s} = {}
    BY <1>2
  <2> QED
    BY <1>2, <1>3, <2>1, StaysCalm DEF Few, Sigs, Running
<1>6. Buffers'
  BY <1>2, <1>3 DEF Buffers, NoneMissed
<1>7. BetweenBeacons'
  BY <1>2, <1>3 DEF BetweenBeacons, Sigs, Owing, has_waiting_join_confirm
<1>8. Reception("mac_engine", "mac", "RECV_TIMEOUT", ms)'
  <2>1. CASE Receives("mac_engine", "mac", "RECV_TIMEOUT", ms)
    BY <1>2, <1>3, <2>1 DEF Reception, Receives, Sigs
  <2>2. CASE BothBounds("mac", "RECV_TIMEOUT", ms)
    BY <1>3, <2>2 DEF Reception, BothBounds, Sigs, DUR, RadioRests
  <2> QED
    BY <1>2, <2>1, <2>2 DEF AwaitsFrame, Reception
<1>9. AwaitsFrame'
  BY <1>2, <1>3, <1>7, <1>8 DEF AwaitsFrame
<1> QED
  BY <1>4, <1>5, <1>6, <1>9 DEF IInv, Phases

\* The frame has come: what is still pending of its reception is too late.
LEMMA FrameComeKeeps ==
    ASSUME IInv, NEW state \in Receiving, MacTakes(state, "RLC_RX_OK"),
           Signals("mac_engine", "RLC_RX_OK", NoneRaised), rx_stop, mac' = "IDLE",
           timer' = Stopped(AfterStop, {"mac"}), Buffers', join_req' \in JoinReq,
           ~join_req'.has_join_req,
           UNCHANGED <<tracker, caller, rx_buffer, bcn, expected, pending, waiting, halted, calm>>
    PROVE  IInv'
<1> DEFINE s == "RLC_RX_OK"
<1>1. /\ Typed /\ Buffers /\ Running /\ mac = state /\ rs = {} /\ ts = {} /\ s \in ms
      /\ calm => ms = {s}
      /\ BetweenBeacons /\ AwaitsFrame /\ MayStop /\ RlcStopped = Off
  BY FrameTurn
<1>2. /\ Sigs({}, {}, ms \ {s}) /\ radio' = "IDLE"
      /\ Timers(Off, timer["tracker"], timer["periodic"], Off)
  BY <1>1, MacTakesIt, TimersAfterStop DEF rx_stop
<1>3. ms \ {s} \subseteq {"RECV_TIMEOUT", DUR}
  BY <1>1 DEF AwaitsFrame, Reception, Receives, BothBounds
<1>4. Typed'
  BY <1>1, <1>2 DEF Typed, Sigs, Timers, Joined, RadioState
<1>5. OneAtATime'
  <2>1. calm => ms \ {s} = {}
    BY <1>1
  <2> QED
    BY <1>1, <1>2, <2>1, StaysCalm DEF Few, Sigs, Running
<1>6. RadioRests'
  BY <1>2 DEF RadioRests, Sigs, Timers
<1>7. ~Owing'
  BY <1>1 DEF BetweenBeacons, Owing, has_waiting_join_confirm
<1>8. CASE ms \ {s} = {}
  BY <1>1, <1>2, <1>4, <1>5, <1>6, <1>7, <1>8, DoneKeeps DEF Sigs
<1>9. CASE ms \ {s} # {}
  <2>1. ~calm /\ timer["tracker"] \notin Timeout
    BY <1>1, <1>9 DEF BetweenBeacons, Timeout, Off
  <2>2. ~Known(mac_order["IDLE"], ms \ {s})
    BY <1>3, MacKnows DEF Known, Reports, DUR
  <2>3. Doomed'
    BY <1>2, <1>6, <1>9, <2>1, <2>2 DEF Doomed, Sigs, Timers, Timeout, Off
  <2> QED
    BY <1>4, <1>5, <2>3 DEF IInv, Phases
<1> QED
  BY <1>8, <1>9

LEMMA RxDownlinkKeeps ==
    ASSUME IInv, RxDownlink
    PROVE  IInv'
<1>1. MacTakes("RX_FRAME", "RLC_RX_OK") /\ "RX_FRAME" \in Receiving
  BY DEF RxDownlink, Receiving
<1>2. /\ MayStop /\ Typed /\ Buffers /\ mac = "RX_FRAME"
  BY <1>1, FrameTurn
<1>3. /\ Signals("mac_engine", "RLC_RX_OK", NoneRaised) /\ rx_stop /\ mac' = "IDLE"
      /\ timer' = Stopped(AfterStop, {"mac"})
      /\ UNCHANGED <<tracker, caller, rx_buffer, bcn, expected, join_req, pending, waiting, halted, calm>>
  BY <1>2 DEF RxDownlink, Asserting, frames
<1>4. Buffers' /\ join_req' \in JoinReq /\ ~join_req'.has_join_req
  BY <1>2, <1>3 DEF Buffers, NoneMissed, Joining, Joined, Typed
<1> QED
  BY <1>1, <1>3, <1>4, FrameComeKeeps

LEMMA RxJoinConfirmKeeps ==
    ASSUME IInv, RxJoinConfirm
    PROVE  IInv'
<1> DEFINE s == "RLC_RX_OK"
<1>1. MacTakes("RX_JOIN_CONFIRM", s) /\ "RX_JOIN_CONFIRM" \in Receiving
  BY DEF RxJoinConfirm, Receiving
<1>2. /\ Typed /\ Buffers /\ Running /\ mac = "RX_JOIN_CONFIRM" /\ rs = {} /\ ts = {} /\ s \in ms
      /\ BetweenBeacons /\ AwaitsFrame /\ MayStop /\ RlcStopped = Off
  BY <1>1, FrameTurn
<1>3. waiting = {} /\ join_req \in JoinReq
  BY <1>2 DEF Buffers, Joining, Typed
<1>4. /\ Signals("mac_engine", s, NoneRaised) /\ rx_stop /\ NoJoinReq
      /\ IF rx_buffer = "confirmed"
         THEN mac' = "IDLE" /\ timer' = Stopped(AfterStop, {"mac"}) /\ UNCHANGED calm
         ELSE DelayedStartJoining(Stopped(AfterStop, {"mac"})) /\ calm' = FALSE
      /\ UNCHANGED <<tracker, caller, rx_buffer, bcn, expected, pending, waiting, halted>>
  BY <1>2, <1>3 DEF RxJoinConfirm
<1>5. join_req' \in JoinReq /\ ~join_req'.has_join_req /\ ~join_req'.has_been_tx
  BY <1>3, <1>4 DEF NoJoinReq, JoinReq
<1>6. Buffers'
  BY <1>2, <1>3, <1>4, <1>5 DEF Buffers, NoneMissed, DelayedStartJoining
<1>7. CASE rx_buffer = "confirmed"
  BY <1>1, <1>4, <1>5, <1>6, <1>7, FrameComeKeeps
<1>8. CASE rx_buffer # "confirmed"
  <2>1. /\ Sigs({}, {}, ms \ {s}) /\ radio' = "IDLE" /\ mac' = "INITED" /\ ~calm'
        /\ Timers("START_JOINING", timer["tracker"], timer["periodic"], Off)
    BY <1>2, <1>4, <1>8, MacTakesIt, TimersAfterStop DEF rx_stop, DelayedStartJoining
  <2>2. ms \ {s} \subseteq {"RECV_TIMEOUT", DUR}
    BY <1>2 DEF AwaitsFrame, Reception, Receives, BothBounds
  <2>3. Typed'
    BY <1>2, <1>4, <1>5, <2>1 DEF Typed, Sigs, Timers, MacSignals, RadioState
  <2>4. OneAtATime'
    BY <2>1, StaysCalm
  <2>5. RadioRests'
    BY <2>1 DEF RadioRests, Sigs, Timers
  <2>6. ~Owing'
    BY <1>3, <1>4, <1>5 DEF Owing, has_waiting_join_confirm
  <2>7. CASE ms \ {s} = {}
    <3>1. Denied'
      BY <1>5, <2>1, <2>7 DEF Denied, Sigs, Timers
    <3>2. Tracking'
      BY <1>2, <1>4, <2>1, <2>5, <2>6, <2>7, <3>1
         DEF Tracking, BetweenBeacons, Sigs, Timers, Reported
    <3> QED
      BY <1>6, <2>3, <2>4, <3>2 DEF IInv, Phases
  <2>8. CASE ms \ {s} # {}
    <3>1. timer["tracker"] \notin Timeout
      BY <1>2 DEF BetweenBeacons, Timeout, Off
    <3>2. ~Known(mac_order["INITED"], ms \ {s})
      BY <2>2, MacKnows DEF Known, DUR
    <3>3. Doomed'
      BY <2>1, <2>5, <2>8, <3>1, <3>2 DEF Doomed, Sigs, Timers, Timeout
    <3> QED
      BY <1>6, <2>3, <2>4, <3>3 DEF IInv, Phases
  <2> QED
    BY <2>7, <2>8
<1> QED
  BY <1>7, <1>8

LEMMA RxDurationTimeoutKeeps ==
    ASSUME IInv, RxDurationTimeout
    PROVE  IInv'
<1>1. PICK state \in Receiving : MacTakes(state, DUR)
  BY DEF RxDurationTimeout, DUR
<1>2. /\ Typed /\ Buffers /\ Running /\ mac = state /\ rs = {} /\ ts = {}
      /\ BetweenBeacons /\ ~calm /\ RadioRests /\ ms = {"RECV_TIMEOUT", DUR}
  BY <1>1, FrameTurn
<1>3. /\ Sigs({}, {}, {"RECV_TIMEOUT"}) /\ mac' = AfterRx
      /\ Timers(Off, timer["tracker"], timer["periodic"], Off)
      /\ UNCHANGED <<tracker, radio, caller, rx_buffer, bcn, expected, join_req, pending,
                     waiting, halted, calm>>
  <2>1. ms \ {DUR} = {"RECV_TIMEOUT"}
    BY <1>2 DEF DUR
  <2>2. Signals("mac_engine", DUR, NoneRaised)
    BY DEF RxDurationTimeout, DUR
  <2>3. Sigs(rs, ts, ms \ {DUR})
    BY <2>2, MacTakesIt
  <2> QED
    BY <1>2, <2>1, <2>3, TimersNow DEF RxDurationTimeout, RadioRests, frames
<1>4. mac' \in {"BEACON_FOUND", "IDLE"}
  BY <1>3 DEF AfterRx
<1>5. Typed'
  BY <1>2, <1>3, <1>4 DEF Typed, Sigs, Timers, MacSignals, Joining, Joined
<1>6. OneAtATime'
  BY <1>2, <1>3, StaysCalm
<1>7. Buffers'
  BY <1>2, <1>3 DEF Buffers, NoneMissed, AfterRx, Receiving, Joining, Joined
<1>8. Doomed'
  <2>1. ~Known(mac_order[mac'], {"RECV_TIMEOUT"})
    BY <1>4, MacKnows DEF Known, Reports
  <2> QED
    BY <1>2, <1>3, <2>1 DEF Doomed, Sigs, Timers, RadioRests, BetweenBeacons, Timeout, Off
<1> QED
  BY <1>5, <1>6, <1>7, <1>8 DEF IInv, Phases

LEMMA RecvTimeoutKeeps ==
    ASSUME IInv, RecvTimeout
    PROVE  IInv'
<1> DEFINE s == "RECV_TIMEOUT"
<1>1. PICK state \in Receiving : MacTakes(state, s)
  BY DEF RecvTimeout
<1>2. /\ Typed /\ Buffers /\ Running /\ mac = state /\ rs = {} /\ ts = {} /\ ms \ {s} = {}
      /\ BetweenBeacons /\ MayStop /\ RlcStopped = Off /\ timer["mac"] = Off
  BY <1>1, FrameTurn
<1>3. /\ Sigs({}, {}, {}) /\ mac' = AfterRx /\ radio' = "IDLE"
      /\ Timers(Off, timer["tracker"], timer["periodic"], Off)
      /\ UNCHANGED <<tracker, caller, rx_buffer, bcn, expected, join_req, pending,
                     waiting, halted, calm>>
  <2>1. /\ Signals("mac_engine", s, NoneRaised) /\ rx_stop /\ timer' = AfterStop /\ mac' = AfterRx
        /\ UNCHANGED <<tracker, caller, rx_buffer, bcn, expected, frames, halted, calm>>
    BY <1>2 DEF RecvTimeout, Asserting
  <2>2. Sigs(rs, ts, ms \ {s})
    BY <2>1, MacTakesIt
  <2> QED
    BY <1>2, <2>1, <2>2, TimersAfterStop DEF rx_stop, frames
<1>4. mac' \in {"BEACON_FOUND", "IDLE"}
  BY <1>3 DEF AfterRx
<1>5. Typed'
  BY <1>2, <1>3, <1>4 DEF Typed, Sigs, Timers, RadioState, Joining, Joined
<1>6. OneAtATime'
  BY <1>2, <1>3, StaysCalm DEF Few, Sigs, Running
<1>7. Buffers'
  BY <1>2, <1>3 DEF Buffers, NoneMissed, AfterRx, Receiving, Joining, Joined
<1>8. RadioRests' /\ ts' = {} /\ ms' = {} /\ ~Owing'
  BY <1>2, <1>3 DEF RadioRests, Sigs, Timers, BetweenBeacons, Owing, has_waiting_join_confirm
<1> QED
  BY <1>2, <1>3, <1>4, <1>5, <1>6, <1>7, <1>8, DoneKeeps

LEMMA MacEngineKeeps ==
    ASSUME IInv, MacEngine
    PROVE  IInv'
BY MacWrongSignalKeeps, MacInitFinishedKeeps, StartJoiningKeeps, SearchBeaconKeeps,
   BeaconNotFoundKeeps, BeaconFoundKeeps, TrackedWhileJoiningKeeps, TrackedWhileJoinedKeeps,
   LostBeaconKeeps, TrackFailedKeeps, SendFrameKeeps, TxOkKeeps, TxFailureKeeps, RecvFrameKeeps,
   RxOtherKeeps, RxDownlinkKeeps, RxJoinConfirmKeeps, RxDurationTimeoutKeeps, RecvTimeoutKeeps
   DEF MacEngine

----------------------------------------------------------------------------
(* The radio controller                                                   *)

\* The reception that the phase is about.
ReceivesNow ==
    \/ Searching /\ Receives("btracker", "tracker", "SEARCH_TIMEOUT", ts)
    \/ AwaitsBeacon /\ Receives("btracker", "tracker", Bound[tracker], ts)
    \/ AwaitsFrame /\ Receives("mac_engine", "mac", "RECV_TIMEOUT", ms)

LEMMA ReceivingPhases ==
    ASSUME Phases, ~RadioRests
    PROVE  Booting \/ ReceivesNow \/ Sends
<1>1. Searching => ReceivesNow
  BY DEF Searching, ReceivesNow, Reception, BothBounds
<1>2. AwaitsBeacon => ReceivesNow
  BY DEF AwaitsBeacon, ReceivesNow, Reception, BothBounds
<1>3. AwaitsFrame => ReceivesNow
  BY DEF AwaitsFrame, ReceivesNow, Reception, BothBounds
<1> QED
  BY <1>1, <1>2, <1>3 DEF Phases, Starting, Searched, Tracking, Lost, Failed, Delaying, Doomed

\* What a reception leaves open: what is pending for the controller.
LEMMA ReceptionFacts ==
    ASSUME ReceivesNow
    PROVE  /\ radio = "RX" /\ ~Booting
           /\ rs \subseteq {"RX_OK", "RX_CRC_ERROR", "RX_TIMEOUT", "RX_DURATION_TIMEOUT"}
           /\ timer["rlc"] = IF "RX_DURATION_TIMEOUT" \in rs THEN Off ELSE "RX_DURATION_TIMEOUT"
           /\ "RX_DURATION_TIMEOUT" \in rs => ts # {} \/ ms # {}
<1>1. CASE Receives("btracker", "tracker", "SEARCH_TIMEOUT", ts) /\ Searching
  BY <1>1 DEF Receives, Searching, Booting
<1>2. CASE Receives("btracker", "tracker", Bound[tracker], ts) /\ AwaitsBeacon
  BY <1>2 DEF Receives, AwaitsBeacon, Booting
<1>3. CASE Receives("mac_engine", "mac", "RECV_TIMEOUT", ms) /\ AwaitsFrame
  BY <1>3 DEF Receives, AwaitsFrame, Booting, Receiving
<1> QED
  BY <1>1, <1>2, <1>3 DEF ReceivesNow

LEMMA RlcTurn ==
    ASSUME IInv, Runs("rlc")
    PROVE  /\ Typed /\ Buffers /\ Running /\ rs # {}
           /\ Booting \/ ReceivesNow \/ Sends
           /\ calm /\ ~Booting => \A s \in rs : rs = {s} /\ ts = {} /\ ms = {}
<1>1. Typed /\ Buffers /\ Running /\ rs # {} /\ Phases
  BY DEF IInv, Runs, rs
<1>2. Booting \/ ReceivesNow \/ Sends
  BY <1>1, ReceivingPhases DEF RadioRests
<1>3. calm /\ ~Booting => \A s \in rs : rs = {s} /\ ts = {} /\ ms = {}
  BY OnlyOne, AllProcesses DEF Alone, rs
<1> QED
  BY <1>1, <1>2, <1>3

\* A reception goes on, and its user may be told of a frame.
LEMMA GoesOn ==
    ASSUME IInv, ReceivesNow, Running, NEW s \in {"RX_OK", "RX_CRC_ERROR", "RX_TIMEOUT"}, s \in rs,
           calm => rs = {s} /\ ts = {} /\ ms = {},
           IF s = "RX_OK"
           THEN Signals("rlc", s, ToCaller("RLC_RX_OK")) /\ rx_buffer' \in Frame
           ELSE Signals("rlc", s, NoneRaised) /\ UNCHANGED rx_buffer,
           UNCHANGED <<mac, tracker, radio, caller, timer, bcn, expected, frames, halted, calm>>
    PROVE  IInv'
<1> DEFINE N(S) == IF s = "RX_OK" THEN S \cup {"RLC_RX_OK"} ELSE S
<1>1. /\ Typed /\ Buffers /\ rx_buffer' \in Frame
      /\ UNCHANGED <<join_req, pending, waiting>>
  BY DEF IInv, Typed, frames
<1>2. /\ caller = "btracker" => Sigs(rs \ {s}, N(ts), ms)
      /\ caller = "mac_engine" => Sigs(rs \ {s}, ts, N(ms))
  BY RlcTakesIt
<1>3. "RLC_RX_OK" \in TrackerSignals /\ "RLC_RX_OK" \in MacSignals
  BY DEF TrackerSignals, MacSignals
<1>4. ASSUME caller = "btracker" \/ caller = "mac_engine"
      PROVE  Typed' /\ OneAtATime' /\ Buffers'
  <2>1. Typed'
    <3>1. CASE caller = "btracker"
      BY <1>1, <1>2, <1>3, <3>1 DEF Typed, Sigs
    <3>2. CASE caller = "mac_engine"
      BY <1>1, <1>2, <1>3, <3>2 DEF Typed, Sigs
    <3> QED
      BY <1>4, <3>1, <3>2
  <2>2. OneAtATime'
    <3>1. calm => Few(rs', ts', ms')
      <4> SUFFICES ASSUME calm PROVE Few(rs', ts', ms')
        OBVIOUS
      <4>1. /\ rs \ {s} = {} /\ ts = {} /\ ms = {}
            /\ N(ts) = {} \/ N(ts) = {"RLC_RX_OK"}
            /\ N(ms) = {} \/ N(ms) = {"RLC_RX_OK"}
        OBVIOUS
      <4> QED
        BY <1>2, <1>4, <4>1 DEF Sigs, Few
    <3> QED
      BY <3>1, StaysCalm DEF Running
  <2>3. Buffers'
    BY <1>1 DEF Buffers, NoneMissed
  <2> QED
    BY <2>1, <2>2, <2>3
<1>5. CASE Searching /\ Receives("btracker", "tracker", "SEARCH_TIMEOUT", ts)
  <2>1. caller = "btracker" /\ Sigs(rs \ {s}, N(ts), ms)
    BY <1>2, <1>5 DEF Receives
  <2>2. Receives("btracker", "tracker", "SEARCH_TIMEOUT", ts)'
    BY <1>5, <2>1 DEF Receives, Sigs
  <2>3. Searching'
    BY <1>5, <2>1, <2>2 DEF Searching, Reception, Sigs
  <2> QED
    BY <1>4, <2>1, <2>3 DEF IInv, Phases
<1>6. CASE AwaitsBeacon /\ Receives("btracker", "tracker", Bound[tracker], ts)
  <2> DEFINE b == Bound[tracker]
  <2>1. b \in {"TRACK_TIMEOUT", "TRACK_SEARCH_TIMEOUT"} /\ b' = b
    BY <1>6 DEF AwaitsBeacon, Bound
  <2> HIDE DEF b
  <2>2. Receives("btracker", "tracker", b, ts)
    BY <1>6 DEF b
  <2>3. caller = "btracker" /\ Sigs(rs \ {s}, N(ts), ms)
    BY <1>2, <2>2 DEF Receives
  <2>4. Receives("btracker", "tracker", b, ts)'
    BY <2>1, <2>2, <2>3 DEF Receives, Sigs
  <2>5. /\ Attends <=> Attends'
        /\ Denied <=> Denied'
        /\ Reported' = Reported
    <3>1. ms' = ms
      BY <2>3 DEF Sigs
    <3> QED
      BY <1>1, <3>1 DEF Attends, Denied, Reported
  <2>6. AwaitsBeacon'
    BY <1>6, <2>4, <2>5 DEF AwaitsBeacon, Reception, b
  <2> QED
    BY <1>4, <2>3, <2>6 DEF IInv, Phases
<1>7. CASE AwaitsFrame /\ Receives("mac_engine", "mac", "RECV_TIMEOUT", ms)
  <2>1. caller = "mac_engine" /\ Sigs(rs \ {s}, ts, N(ms))
    BY <1>2, <1>7 DEF Receives
  <2>2. Receives("mac_engine", "mac", "RECV_TIMEOUT", ms)'
    BY <1>7, <2>1 DEF Receives, Sigs
  <2>3. BetweenBeacons'
    BY <1>1, <1>7, <2>1 DEF AwaitsFrame, BetweenBeacons, Sigs, Owing, has_waiting_join_confirm
  <2>4. AwaitsFrame'
    BY <1>7, <2>2, <2>3 DEF AwaitsFrame, Reception
  <2> QED
    BY <1>4, <2>1, <2>4 DEF IInv, Phases
<1> QED
  BY <1>5, <1>6, <1>7 DEF ReceivesNow

\* While the engine sends: signals rlc of the controller, or a result.
SendingNow ==
    \/ radio = "TX" /\ timer["rlc"] = Off /\ rs = {"TX_START"}
    \/ radio = "TX" /\ timer["rlc"] = "TX_RAND_WAIT_TIMEOUT" /\ rs = {}
    \/ radio = "TX" /\ timer["rlc"] = Off /\ rs = {"TX_RAND_WAIT_TIMEOUT"}
    \/ /\ radio = "TX_CCA" /\ timer["rlc"] = Off
       /\ rs \in {{}, {"RX_OK"}, {"RX_CRC_ERROR"}, {"RX_TIMEOUT"}}
    \/ radio = "TX_ING" /\ timer["rlc"] = Off /\ rs \in {{}, {"TX_OK"}, {"TX_TIMEOUT"}}

LEMMA SendsNow ==
    ASSUME Sends, ~RadioRests
    PROVE  SendingNow /\ caller = "mac_engine" /\ ms = {} /\ ts = {}
BY DEF Sends, SendingNow, BetweenBeacons

LEMMA SendingKeeps ==
    ASSUME IInv, Sends, Running,
           UNCHANGED <<mac, tracker, bcn, expected, frames, halted>>,
           rx_buffer' \in Frame, calm' => calm, calm' \in BOOLEAN, caller' = "mac_engine",
           radio' \in RadioState, ts' = {}, sig' = [q \in Process |-> sig'[q]],
           Timers(timer["mac"], timer["tracker"], timer["periodic"], timer'["rlc"]),
           \/ ms' = {} /\ SendingNow'
           \/ RadioRests' /\ \E r \in Results : ms' = {r}
    PROVE  IInv'
<1>1. Typed /\ Buffers /\ BetweenBeacons /\ UNCHANGED <<join_req, pending, waiting>>
  BY DEF IInv, Sends, frames
<1>2. /\ rs' \subseteq RlcSignals /\ timer'["rlc"] \in {Off} \cup RlcSignals
      /\ ms' \subseteq MacSignals
  <2>1. CASE ms' = {} /\ SendingNow'
    BY <2>1 DEF SendingNow, RlcSignals, RadioEvent
  <2>2. CASE RadioRests' /\ \E r \in Results : ms' = {r}
    BY <2>2 DEF RadioRests, MacSignals
  <2> QED
    BY <2>1, <2>2
<1>3. Typed'
  BY <1>1, <1>2 DEF Typed, Timers
<1>4. OneAtATime'
  <2>1. Few(rs', ts', ms')
    BY DEF SendingNow, RadioRests, Few
  <2> QED
    BY <2>1, StaysCalm DEF Running
<1>5. Buffers'
  BY <1>1 DEF Buffers, NoneMissed
<1>6. BetweenBeacons'
  BY <1>1 DEF BetweenBeacons, Timers, Owing, has_waiting_join_confirm
<1>7. /\ mac' = mac /\ mac \in Transmitting /\ timer'["mac"] = Off
      /\ mac = "TX_JOIN_REQ" => has_pending_join_req /\ join_req.due = PACKED_ACK_DELAY_NUM
      /\ mac = "TX_FRAME" => pending > 0 /\ tx_due = PACKED_ACK_DELAY_NUM
      /\ tx_due' = tx_due
      /\ has_pending_join_req' <=> has_pending_join_req
  BY <1>1 DEF Sends, Timers, has_pending_join_req, frames
<1>8. Sends'
  <2>1. CASE ms' = {} /\ SendingNow'
    BY <1>1, <1>6, <1>7, <2>1 DEF Sends, SendingNow
  <2>2. CASE RadioRests' /\ \E r \in Results : ms' = {r}
    BY <1>1, <1>6, <1>7, <2>2 DEF Sends
  <2> QED
    BY <2>1, <2>2
<1> QED
  BY <1>3, <1>4, <1>5, <1>8 DEF IInv, Phases

\* The engine is told what became of its frame.
LEMMA ResultKeeps ==
    ASSUME IInv, Sends, ~RadioRests, Running, NEW s, rs = {s}, NEW r \in Results, timer["rlc"] = Off,
           Result(s, r), rx_buffer' \in Frame,
           UNCHANGED <<mac, tracker, caller, timer, bcn, expected, frames, halted, calm>>
    PROVE  IInv'
<1>1. caller = "mac_engine" /\ ms = {} /\ ts = {} /\ Typed
  BY SendsNow DEF IInv
<1>2. Sigs({}, {}, {r})
  <2>1. Sigs(rs \ {s}, ts, ms \cup {r})
    BY <1>1, RlcTakesIt DEF Result
  <2>2. rs \ {s} = {} /\ ms \cup {r} = {r}
    BY <1>1
  <2> QED
    BY <1>1, <2>1, <2>2
<1>3. RadioRests' /\ ms' = {r} /\ ts' = {} /\ sig' = [q \in Process |-> sig'[q]]
  BY <1>2 DEF RadioRests, Sigs, Result
<1>4. Timers(timer["mac"], timer["tracker"], timer["periodic"], timer'["rlc"])
  BY <1>1, TimersNow
<1> QED
  BY <1>1, <1>3, <1>4, SendingKeeps DEF Result, RadioState, Typed

LEMMA RlcHandlesRadioKeeps ==
    ASSUME IInv, RlcHandlesRadio
    PROVE  IInv'
<1>1. /\ Typed /\ Buffers /\ Running /\ rs # {} /\ rs \cap RadioEvent # {}
      /\ Booting \/ ReceivesNow \/ Sends
      /\ calm /\ ~Booting => \A s \in rs : rs = {s} /\ ts = {} /\ ms = {}
  BY RlcTurn DEF RlcHandlesRadio, HasRadioEvent, rs
<1>2. ~Booting /\ ~RadioRests
  BY <1>1 DEF Booting, RadioEvent, RadioRests
<1>3. CASE ReceivesNow
  <2>1. /\ radio = "RX"
        /\ rs \subseteq {"RX_OK", "RX_CRC_ERROR", "RX_TIMEOUT", "RX_DURATION_TIMEOUT"}
    BY <1>3, ReceptionFacts
  <2>2. Known(radio_order[radio], sig["rlc"])
    BY <1>1, <2>1, RadioKnows DEF Known, RadioEvent, rs
  <2>3. PICK s \in RadioEvent :
          /\ IsFirst(s, radio_order[radio], rs)
          /\ RlcReceives(s) \/ RlcListens(s) \/ RlcHasSent(s)
          /\ UNCHANGED <<mac, tracker, caller, timer, bcn, expected, frames, halted, calm>>
    BY <2>1, <2>2 DEF RlcHandlesRadio, Asserting, rs
  <2>4. s \in rs /\ s \in {"RX_OK", "RX_CRC_ERROR", "RX_TIMEOUT"}
    BY <2>1, <2>3, First, RadioKnows
  <2>5. RlcReceives(s)
    BY <2>1, <2>3 DEF RlcListens, RlcHasSent
  <2>6. /\ UNCHANGED radio
        /\ IF s = "RX_OK"
           THEN Signals("rlc", s, ToCaller("RLC_RX_OK")) /\ rx_buffer' \in Frame
           ELSE Signals("rlc", s, NoneRaised) /\ UNCHANGED rx_buffer
    BY <2>5 DEF RlcReceives
  <2>7. calm => rs = {s} /\ ts = {} /\ ms = {}
    BY <1>1, <1>2, <2>4
  <2> QED
    BY <1>1, <1>3, <2>3, <2>4, <2>6, <2>7, GoesOn
<1>4. CASE Sends
  <2>1. SendingNow /\ caller = "mac_engine" /\ ms = {} /\ ts = {}
    BY <1>2, <1>4, SendsNow
  <2>2. /\ timer["rlc"] = Off
        /\ \/ radio = "TX_CCA" /\ \E s \in {"RX_OK", "RX_CRC_ERROR", "RX_TIMEOUT"} : rs = {s}
           \/ radio = "TX_ING" /\ \E s \in {"TX_OK", "TX_TIMEOUT"} : rs = {s}
    BY <1>1, <2>1 DEF SendingNow, RadioEvent
  <2>3. radio # "IDLE" /\ radio # "TX" /\ Known(radio_order[radio], sig["rlc"])
    BY <2>2, RadioKnows DEF Known, rs
  <2>4. PICK s \in RadioEvent :
          /\ IsFirst(s, radio_order[radio], rs)
          /\ RlcReceives(s) \/ RlcListens(s) \/ RlcHasSent(s)
          /\ UNCHANGED <<mac, tracker, caller, timer, bcn, expected, frames, halted, calm>>
    BY <2>3 DEF RlcHandlesRadio, Asserting, rs
  <2>5. RlcListens(s) \/ RlcHasSent(s)
    BY <2>2, <2>4, First DEF RlcReceives
  <2>6. rs = {s}
    BY <2>2, <2>4, First
  <2>7. rx_buffer \in Frame
    BY <1>1 DEF Typed
  <2>8. CASE \E r \in Results : Result(s, r) /\ rx_buffer' \in Frame
    BY <1>1, <1>2, <1>4, <2>2, <2>4, <2>6, <2>8, ResultKeeps
  <2>9. CASE Signals("rlc", s, NoneRaised) /\ radio' = "TX_ING" /\ UNCHANGED rx_buffer
    <3>1. Sigs({}, {}, {})
      <4>1. Sigs(rs \ {s}, ts, ms) /\ rs \ {s} = {}
        BY <2>6, <2>9, RlcTakesIt
      <4> QED
        BY <2>1, <4>1
    <3>2. Timers(timer["mac"], timer["tracker"], timer["periodic"], timer'["rlc"])
      BY <1>1, <2>4, TimersNow
    <3>3. SendingNow' /\ ms' = {} /\ ts' = {} /\ sig' = [q \in Process |-> sig'[q]]
      BY <2>2, <2>4, <2>9, <3>1 DEF SendingNow, Sigs
    <3> QED
      BY <1>1, <1>4, <2>1, <2>4, <2>7, <2>9, <3>2, <3>3, SendingKeeps DEF RadioState, Sending, Typed
  <2> QED
    BY <2>5, <2>7, <2>8, <2>9 DEF RlcListens, RlcHasSent, Results
<1> QED
  BY <1>1, <1>2, <1>3, <1>4

\* The controller takes a signal of its own: no radio event is pending.
LEMMA OwnTurn ==
    ASSUME IInv, NEW s, RlcTakes(s)
    PROVE  /\ Typed /\ Buffers /\ Running /\ s \in rs
           /\ Booting \/ ReceivesNow \/ Sends
           /\ rs \cap RadioEvent = {}
           /\ calm /\ ~Booting => rs = {s} /\ ts = {} /\ ms = {}
<1>1. s \in rs
  BY First DEF RlcTakes, rs
<1>2. /\ Typed /\ Buffers /\ Running
      /\ Booting \/ ReceivesNow \/ Sends
      /\ calm /\ ~Booting => rs = {s} /\ ts = {} /\ ms = {}
  BY <1>1, RlcTurn DEF RlcTakes
<1>3. CASE radio = "IDLE"
  <2>1. Booting \/ RadioRests
    BY <1>2, <1>3, ReceptionFacts, SendsNow DEF SendingNow
  <2>2. Booting
    BY <1>1, <2>1 DEF RadioRests
  <2> QED
    BY <1>1, <1>2, <2>2 DEF Booting, RadioEvent
<1>4. CASE radio # "IDLE"
  BY <1>1, <1>2, <1>4 DEF RlcTakes, HasRadioEvent, rs
<1> QED
  BY <1>1, <1>2, <1>3, <1>4

LEMMA RlcInitedKeeps ==
    ASSUME IInv, RlcInited
    PROVE  IInv'
<1>1. /\ Typed /\ Buffers /\ Running /\ "INITED" \in rs /\ (Booting \/ ReceivesNow \/ Sends)
  BY OwnTurn DEF RlcInited
<1>2. Booting
  <2>1. ~ReceivesNow
    BY <1>1, ReceptionFacts
  <2>2. ~Sends
    BY <1>1, SendsNow DEF SendingNow, RadioRests
  <2> QED
    BY <1>1, <2>1, <2>2
<1>3. /\ Sigs({}, ts, ms)
      /\ UNCHANGED <<mac, tracker, radio, caller, timer, rx_buffer, bcn, expected,
                     join_req, pending, waiting, halted, calm>>
  <2>1. rs \ {"INITED"} = {} /\ radio = "IDLE"
    BY <1>2 DEF Booting
  <2> QED
    BY <2>1, RlcTakesIt DEF RlcInited, frames
<1>4. Typed'
  BY <1>1, <1>3 DEF Typed, Sigs
<1>5. Booting'
  BY <1>2, <1>3 DEF Booting, Sigs
<1>6. OneAtATime'
  BY <1>1, <1>3, <1>5, StaysCalm DEF Running
<1>7. Buffers'
  BY <1>1, <1>3 DEF Buffers, NoneMissed
<1> QED
  BY <1>4, <1>5, <1>6, <1>7 DEF IInv, Phases

LEMMA RlcTxStartKeeps ==
    ASSUME IInv, RlcTxStart
    PROVE  IInv'
<1> DEFINE s == "TX_START"
<1>1. /\ Typed /\ Running /\ s \in rs /\ (Booting \/ ReceivesNow \/ Sends)
  BY OwnTurn DEF RlcTxStart
<1>2. Sends /\ SendingNow /\ caller = "mac_engine" /\ ms = {} /\ ts = {}
  BY <1>1, ReceptionFacts, SendsNow DEF Booting, RadioRests
<1>3. rs = {s} /\ rs \ {s} = {} /\ radio = "TX" /\ timer["rlc"] = Off
  BY <1>1, <1>2 DEF SendingNow
<1>4. /\ Signals("rlc", s, NoneRaised) /\ timer' = Started(timer, "rlc", "TX_RAND_WAIT_TIMEOUT")
      /\ UNCHANGED <<mac, tracker, radio, caller, rx_buffer, bcn, expected, frames, halted, calm>>
  BY <1>3 DEF RlcTxStart, Asserting
<1>5. /\ Sigs({}, {}, {})
      /\ Timers(timer["mac"], timer["tracker"], timer["periodic"], "TX_RAND_WAIT_TIMEOUT")
  <2>1. Sigs(rs \ {s}, ts, ms)
    BY <1>4, RlcTakesIt
  <2> QED
    BY <1>1, <1>2, <1>3, <1>4, <2>1, TimersNow
<1>6. /\ SendingNow' /\ ms' = {} /\ ts' = {} /\ sig' = [q \in Process |-> sig'[q]]
      /\ timer'["rlc"] = "TX_RAND_WAIT_TIMEOUT"
  BY <1>3, <1>4, <1>5 DEF SendingNow, Sigs, Timers
<1> QED
  BY <1>1, <1>2, <1>4, <1>5, <1>6, SendingKeeps DEF Typed

LEMMA RlcTxRandWaitTimeoutKeeps ==
    ASSUME IInv, RlcTxRandWaitTimeout
    PROVE  IInv'
<1> DEFINE s == "TX_RAND_WAIT_TIMEOUT"
<1>1. /\ Typed /\ Running /\ s \in rs /\ (Booting \/ ReceivesNow \/ Sends)
  BY OwnTurn DEF RlcTxRandWaitTimeout
<1>2. Sends /\ SendingNow /\ caller = "mac_engine" /\ ms = {} /\ ts = {}
  BY <1>1, ReceptionFacts, SendsNow DEF Booting, RadioRests
<1>3. rs = {s} /\ rs \ {s} = {} /\ radio = "TX" /\ timer["rlc"] = Off
  BY <1>1, <1>2 DEF SendingNow
<1>4. /\ Signals("rlc", s, NoneRaised) /\ radio' = "TX_CCA"
      /\ UNCHANGED <<mac, tracker, caller, timer, rx_buffer, bcn, expected, frames, halted, calm>>
  BY <1>3 DEF RlcTxRandWaitTimeout, Asserting
<1>5. /\ Sigs({}, {}, {})
      /\ Timers(timer["mac"], timer["tracker"], timer["periodic"], timer'["rlc"])
  <2>1. Sigs(rs \ {s}, ts, ms)
    BY <1>4, RlcTakesIt
  <2> QED
    BY <1>1, <1>2, <1>3, <1>4, <2>1, TimersNow
<1>6. /\ SendingNow' /\ ms' = {} /\ ts' = {} /\ sig' = [q \in Process |-> sig'[q]]
      /\ radio' \in RadioState
  BY <1>3, <1>4, <1>5 DEF SendingNow, Sigs, RadioState, Sending
<1> QED
  BY <1>1, <1>2, <1>4, <1>5, <1>6, SendingKeeps DEF Typed

\* The controller's bound, after that of its user: both are pending.
LEMMA RlcRxDurationTimeoutKeeps ==
    ASSUME IInv, RlcRxDurationTimeout
    PROVE  IInv'
<1> DEFINE s == "RX_DURATION_TIMEOUT"
<1>1. /\ Typed /\ Buffers /\ Running /\ s \in rs /\ (Booting \/ ReceivesNow \/ Sends)
      /\ rs \cap RadioEvent = {}
      /\ calm /\ ~Booting => rs = {s} /\ ts = {} /\ ms = {}
  BY OwnTurn DEF RlcRxDurationTimeout
<1>2. ReceivesNow
  BY <1>1, SendsNow DEF SendingNow, Booting, RadioRests
<1>3. rs \ {s} = {} /\ ~calm /\ timer["rlc"] = Off
  BY <1>1, <1>2, ReceptionFacts DEF RadioEvent
<1>4. /\ radio' = "IDLE"
      /\ Timers(timer["mac"], timer["tracker"], timer["periodic"], Off)
      /\ UNCHANGED <<mac, tracker, caller, timer, rx_buffer, bcn, expected, join_req, pending,
                     waiting, halted, calm>>
  BY <1>1, <1>3, TimersNow DEF RlcRxDurationTimeout, Result, frames
<1>5. /\ caller = "btracker" => Sigs({}, ts \cup {DUR}, ms)
      /\ caller = "mac_engine" => Sigs({}, ts, ms \cup {DUR})
  BY <1>3, RlcTakesIt DEF RlcRxDurationTimeout, Result, DUR
<1>6. OneAtATime'
  BY <1>3, <1>4, StaysCalm
<1>7. Buffers'
  BY <1>1, <1>4 DEF Buffers, NoneMissed
<1>8. CASE Searching /\ Receives("btracker", "tracker", "SEARCH_TIMEOUT", ts)
  <2>1. /\ Sigs({}, ts \cup {DUR}, ms) /\ "SEARCH_TIMEOUT" \in ts /\ timer["tracker"] = Off
        /\ ts \subseteq {"SEARCH_TIMEOUT", "RLC_RX_OK"}
    BY <1>1, <1>5, <1>8 DEF Receives
  <2>2. Typed'
    BY <1>1, <1>4, <2>1 DEF Typed, Sigs, Timers, RadioState, TrackerSignals, DUR
  <2>3. BothBounds("tracker", "SEARCH_TIMEOUT", ts)'
    BY <1>3, <1>4, <2>1 DEF BothBounds, RadioRests, Sigs, Timers
  <2>4. Searching'
    BY <1>4, <1>8, <2>1, <2>3 DEF Searching, Reception, Sigs
  <2> QED
    BY <1>6, <1>7, <2>2, <2>4 DEF IInv, Phases
<1>9. CASE AwaitsBeacon /\ Receives("btracker", "tracker", Bound[tracker], ts)
  <2> DEFINE b == Bound[tracker]
  <2>1. b \in {"TRACK_TIMEOUT", "TRACK_SEARCH_TIMEOUT"} /\ b' = b
    BY <1>4, <1>9 DEF AwaitsBeacon, Bound
  <2> HIDE DEF b
  <2>2. Receives("btracker", "tracker", b, ts)
    BY <1>9 DEF b
  <2>3. /\ Sigs({}, ts \cup {DUR}, ms) /\ b \in ts /\ timer["tracker"] = Off
        /\ ts \subseteq {b, "RLC_RX_OK"}
    BY <1>1, <1>5, <2>2 DEF Receives
  <2>4. Typed'
    BY <1>1, <1>4, <2>3 DEF Typed, Sigs, Timers, RadioState, TrackerSignals, DUR
  <2>5. BothBounds("tracker", b, ts)'
    BY <1>3, <1>4, <2>1, <2>3 DEF BothBounds, RadioRests, Sigs, Timers
  <2>6. /\ Attends <=> Attends'
        /\ Denied <=> Denied'
        /\ Reported' = Reported
    <3>1. ms' = ms
      BY <2>3 DEF Sigs
    <3> QED
      BY <1>4, <3>1 DEF Attends, Denied, Reported
  <2>7. AwaitsBeacon'
    BY <1>4, <1>9, <2>5, <2>6 DEF AwaitsBeacon, Reception, b
  <2> QED
    BY <1>6, <1>7, <2>4, <2>7 DEF IInv, Phases
<1>10. CASE AwaitsFrame /\ Receives("mac_engine", "mac", "RECV_TIMEOUT", ms)
  <2>1. /\ Sigs({}, ts, ms \cup {DUR}) /\ "RECV_TIMEOUT" \in ms /\ timer["mac"] = Off
        /\ ms \subseteq {"RECV_TIMEOUT", "RLC_RX_OK"}
    BY <1>1, <1>5, <1>10 DEF Receives
  <2>2. Typed'
    BY <1>1, <1>4, <2>1 DEF Typed, Sigs, Timers, RadioState, MacSignals, DUR
  <2>3. BothBounds("mac", "RECV_TIMEOUT", ms)'
    BY <1>3, <1>4, <2>1 DEF BothBounds, RadioRests, Sigs, Timers
  <2>4. BetweenBeacons'
    BY <1>4, <1>10, <2>1 DEF AwaitsFrame, BetweenBeacons, Sigs, Owing, has_waiting_join_confirm
  <2>5. AwaitsFrame'
    BY <1>4, <1>10, <2>3, <2>4 DEF AwaitsFrame, Reception
  <2> QED
    BY <1>6, <1>7, <2>2, <2>5 DEF IInv, Phases
<1> QED
  BY <1>2, <1>8, <1>9, <1>10 DEF ReceivesNow

LEMMA RadioControllerKeeps ==
    ASSUME IInv, RadioController
    PROVE  IInv'
BY RlcHandlesRadioKeeps, RlcInitedKeeps, RlcTxStartKeeps, RlcTxRandWaitTimeoutKeeps,
   RlcRxDurationTimeoutKeeps DEF RadioController

----------------------------------------------------------------------------
(* What comes from outside                                                *)

\* A step that leaves the engine, the tracker and the radio alone leaves the
\* device where it is; only another frame may be pending.
LEMMA PhasesStay ==
    ASSUME Phases, pending > 0 => pending' > 0,
           UNCHANGED <<mac, tracker, radio, caller, sig, timer, join_req, waiting, tx_due, calm>>
    PROVE  Phases'
<1>1. /\ UNCHANGED <<mac, tracker, radio, caller, sig, timer, join_req, waiting, tx_due, calm>>
      /\ pending > 0 => pending' > 0
  OBVIOUS
<1>2. rs' = rs /\ ts' = ts /\ ms' = ms
  BY <1>1 DEF rs, ts, ms
<1>3. /\ Owing' <=> Owing
      /\ RadioRests' <=> RadioRests
      /\ Attends' <=> Attends
      /\ Denied' <=> Denied
      /\ Reported' = Reported
      /\ has_pending_join_req' <=> has_pending_join_req
  BY <1>1, <1>2
     DEF Owing, has_waiting_join_confirm, RadioRests, Attends, Denied, Reported, has_pending_join_req
<1>4. BetweenBeacons' <=> BetweenBeacons
  BY <1>1, <1>2, <1>3 DEF BetweenBeacons
<1>5. /\ Searching => Searching'
      /\ AwaitsBeacon => AwaitsBeacon'
      /\ AwaitsFrame => AwaitsFrame'
  <2>1. Searching => Searching'
    BY <1>1, <1>2, <1>3 DEF Searching, Reception, Receives, BothBounds
  <2>2. AwaitsBeacon => AwaitsBeacon'
    <3> DEFINE b == Bound[tracker]
    <3>1. b' = b
      BY <1>1
    <3> HIDE DEF b
    <3>2. Reception("btracker", "tracker", b, ts) => Reception("btracker", "tracker", b, ts)'
      BY <1>1, <1>2, <1>3, <3>1 DEF Reception, Receives, BothBounds
    <3> QED
      BY <1>1, <1>3, <3>2 DEF AwaitsBeacon, b
  <2>3. AwaitsFrame => AwaitsFrame'
    BY <1>1, <1>2, <1>3, <1>4 DEF AwaitsFrame, Reception, Receives, BothBounds
  <2> QED
    BY <2>1, <2>2, <2>3
<1>6. /\ Booting => Booting'
      /\ Starting => Starting'
      /\ Searched => Searched'
      /\ Tracking => Tracking'
      /\ Lost => Lost'
      /\ Failed => Failed'
  <2>1. /\ Booting => Booting'
        /\ Starting => Starting'
        /\ Searched => Searched'
        /\ Failed => Failed'
    BY <1>1, <1>2, <1>3 DEF Booting, Starting, Searched, Failed
  <2>2. Tracking => Tracking'
    BY <1>1, <1>2, <1>3 DEF Tracking
  <2>3. Lost => Lost'
    BY <1>1, <1>2, <1>3 DEF Lost
  <2> QED
    BY <2>1, <2>2, <2>3
<1>7. /\ Delaying => Delaying'
      /\ Sends => Sends'
      /\ Doomed => Doomed'
  <2>1. Delaying => Delaying'
    BY <1>1, <1>2, <1>3, <1>4 DEF Delaying
  <2>2. Sends => Sends'
    BY <1>1, <1>2, <1>3, <1>4 DEF Sends
  <2>3. Doomed => Doomed'
    BY <1>1, <1>2, <1>3 DEF Doomed
  <2> QED
    BY <2>1, <2>2, <2>3
<1> QED
  BY <1>1, <1>5, <1>6, <1>7 DEF Phases

LEMMA device_mac_send_msgKeeps ==
    ASSUME IInv, device_mac_send_msg
    PROVE  IInv'
<1>1. /\ Typed /\ OneAtATime /\ Buffers /\ Running /\ Phases /\ PoolHasRoom
      /\ pending' = pending + 1
      /\ UNCHANGED <<mac, tracker, radio, caller, sig, timer, rx_buffer, bcn, expected,
                     join_req, waiting, tx_due, halted, calm>>
  BY DEF device_mac_send_msg, IInv
<1>2. /\ pending \in Nat /\ Cardinality(waiting) \in Nat /\ pending + Cardinality(waiting) < MaxMsgs
  BY <1>1, FS_CardinalityType DEF Typed, Buffers, PoolHasRoom
<1>3. /\ pending' \in 0..MaxMsgs /\ pending' + Cardinality(waiting) <= MaxMsgs
      /\ pending > 0 => pending' > 0
  BY <1>1, <1>2, DeviceMacAssumption
<1>4. rs' = rs /\ ts' = ts /\ ms' = ms
  BY <1>1 DEF rs, ts, ms
<1>5. Typed'
  BY <1>1, <1>3, <1>4 DEF Typed
<1>6. Buffers'
  BY <1>1, <1>3 DEF Buffers, NoneMissed
<1>7. Phases'
  BY <1>1, <1>3, PhasesStay
<1>8. OneAtATime'
  <2>1. Running' /\ Few(rs', ts', ms')
    BY <1>1, <1>4, AllProcesses DEF Running, Few, device_mac_send_msg, Quiet, rs, ts, ms
  <2> QED
    BY <2>1, StaysCalm
<1> QED
  BY <1>5, <1>6, <1>7, <1>8 DEF IInv

\* Nothing is pending.
LEMMA QuietTurn ==
    ASSUME IInv, Running, Quiet
    PROVE  /\ Typed /\ Buffers /\ Phases /\ ~Booting /\ ~Doomed
           /\ rs = {} /\ ts = {} /\ ms = {}
<1>1. rs = {} /\ ts = {} /\ ms = {}
  BY AllProcesses DEF Quiet, rs, ts, ms
<1> QED
  BY <1>1 DEF IInv, Booting, Doomed

LEMMA RadioRaisesKeeps ==
    ASSUME IInv, RadioRaises
    PROVE  IInv'
<1>1. PICK s \in Range(radio_order[radio]) : sig' = [sig EXCEPT !["rlc"] = {s}]
  BY DEF RadioRaises
<1>2. /\ Running /\ radio \in DOMAIN radio_order
      /\ Typed /\ Buffers /\ Phases /\ ~Booting
      /\ rs = {} /\ ts = {} /\ ms = {}
      /\ UNCHANGED <<mac, tracker, radio, caller, timer, rx_buffer, bcn, expected,
                     join_req, pending, waiting, tx_due, halted, calm>>
  BY QuietTurn DEF RadioRaises, frames
<1>3. Sigs({s}, {}, {})
  BY <1>1, <1>2, AllProcesses DEF Sigs, Typed, Process, rs, ts, ms
<1>4. radio \in {"RX", "TX_CCA", "TX_ING"}
  BY <1>2 DEF radio_order
<1>5. /\ radio \in {"RX", "TX_CCA"} => s \in {"RX_OK", "RX_CRC_ERROR", "RX_TIMEOUT"}
      /\ radio = "TX_ING" => s \in {"TX_OK", "TX_TIMEOUT"}
  BY <1>1, RadioKnows
<1>6. Typed'
  BY <1>2, <1>3, <1>4, <1>5 DEF Typed, Sigs, RlcSignals, RadioEvent
<1>7. OneAtATime'
  BY <1>2, <1>3, StaysCalm DEF Few, Sigs, Running
<1>8. Buffers'
  BY <1>2 DEF Buffers, NoneMissed
<1>9. ReceivesNow \/ Sends
  BY <1>2, <1>4, ReceivingPhases DEF RadioRests
<1>10. CASE Sends
  <2>1. SendingNow /\ caller = "mac_engine" /\ rx_buffer \in Frame /\ calm \in BOOLEAN
        /\ radio \in RadioState
    BY <1>2, <1>4, <1>10, SendsNow DEF RadioRests, Typed
  <2>2. /\ SendingNow' /\ ms' = {} /\ ts' = {} /\ sig' = [q \in Process |-> sig'[q]]
    BY <1>2, <1>3, <1>4, <1>5, <2>1 DEF SendingNow, Sigs
  <2>3. Timers(timer["mac"], timer["tracker"], timer["periodic"], timer'["rlc"])
    BY <1>2, TimersNow
  <2> QED
    BY <1>2, <1>10, <2>1, <2>2, <2>3, SendingKeeps DEF frames
<1>11. CASE Searching /\ Receives("btracker", "tracker", "SEARCH_TIMEOUT", ts)
  <2>1. radio = "RX" /\ Receives("btracker", "tracker", "SEARCH_TIMEOUT", ts)'
    BY <1>2, <1>3, <1>5, <1>11 DEF Receives, Sigs
  <2>2. Searching'
    BY <1>2, <1>3, <1>11, <2>1 DEF Searching, Reception, Sigs
  <2> QED
    BY <1>6, <1>7, <1>8, <2>2 DEF IInv, Phases
<1>12. CASE AwaitsBeacon /\ Receives("btracker", "tracker", Bound[tracker], ts)
  <2> DEFINE b == Bound[tracker]
  <2>1. b' = b
    BY <1>2
  <2> HIDE DEF b
  <2>2. Receives("btracker", "tracker", b, ts)
    BY <1>12 DEF b
  <2>3. Receives("btracker", "tracker", b, ts)'
    BY <1>2, <1>3, <1>5, <2>1, <2>2 DEF Receives, Sigs
  <2>4. /\ Attends <=> Attends'
        /\ Denied <=> Denied'
        /\ Reported' = Reported
    <3>1. ms' = ms
      BY <1>2, <1>3 DEF Sigs
    <3> QED
      BY <1>2, <3>1 DEF Attends, Denied, Reported
  <2>5. AwaitsBeacon'
    BY <1>2, <1>12, <2>3, <2>4 DEF AwaitsBeacon, Reception, b
  <2> QED
    BY <1>6, <1>7, <1>8, <2>5 DEF IInv, Phases
<1>13. CASE AwaitsFrame /\ Receives("mac_engine", "mac", "RECV_TIMEOUT", ms)
  <2>1. Receives("mac_engine", "mac", "RECV_TIMEOUT", ms)'
    BY <1>2, <1>3, <1>5, <1>13 DEF Receives, Sigs
  <2>2. BetweenBeacons'
    BY <1>2, <1>3, <1>13 DEF AwaitsFrame, BetweenBeacons, Sigs, Owing, has_waiting_join_confirm
  <2>3. AwaitsFrame'
    BY <1>2, <1>13, <2>1, <2>2 DEF AwaitsFrame, Reception
  <2> QED
    BY <1>6, <1>7, <1>8, <2>3 DEF IInv, Phases
<1> QED
  BY <1>9, <1>10, <1>11, <1>12, <1>13 DEF ReceivesNow

\* A timer that expires, whatever it is for.
LEMMA ExpiresTyped ==
    ASSUME Typed, NEW t \in Timer, Expire(t)
    PROVE  /\ Typed'
           /\ t = "mac" => /\ Sigs(rs, ts, ms \cup {timer["mac"]})
                           /\ Timers(Off, timer["tracker"], timer["periodic"], timer["rlc"])
           /\ t = "tracker" => /\ Sigs(rs, ts \cup {timer["tracker"]}, ms)
                               /\ Timers(timer["mac"], Off, timer["periodic"], timer["rlc"])
           /\ t = "periodic" => /\ Sigs(rs, ts \cup {timer["periodic"]}, ms)
                                /\ Timers(timer["mac"], timer["tracker"], Off, timer["rlc"])
           /\ t = "rlc" => /\ Sigs(rs \cup {timer["rlc"]}, ts, ms)
                           /\ Timers(timer["mac"], timer["tracker"], timer["periodic"], Off)
<1>1. /\ timer[t] # Off
      /\ sig' = [sig EXCEPT ![Owner[t]] = @ \cup {timer[t]}]
      /\ timer' = [timer EXCEPT ![t] = Off]
      /\ calm' \in BOOLEAN
      /\ UNCHANGED <<mac, tracker, radio, caller, rx_buffer, bcn, expected,
                     join_req, pending, waiting, halted>>
  BY DEF Expire, frames
<1>2. /\ Owner["mac"] = "mac_engine" /\ Owner["tracker"] = "btracker"
      /\ Owner["periodic"] = "btracker" /\ Owner["rlc"] = "rlc"
  BY DEF Owner
<1>3. t \in {"mac", "tracker", "periodic", "rlc"}
  BY DEF Timer
<1>4. sig = [q \in Process |-> sig[q]] /\ timer = [x \in Timer |-> timer[x]]
  BY DEF Typed
<1>5. /\ t = "mac" => Timers(Off, timer["tracker"], timer["periodic"], timer["rlc"])
      /\ t = "tracker" => Timers(timer["mac"], Off, timer["periodic"], timer["rlc"])
      /\ t = "periodic" => Timers(timer["mac"], timer["tracker"], Off, timer["rlc"])
      /\ t = "rlc" => Timers(timer["mac"], timer["tracker"], timer["periodic"], Off)
  BY <1>1, <1>4 DEF Timers, Timer
<1>6. /\ t = "mac" => Sigs(rs, ts, ms \cup {timer["mac"]})
      /\ t = "tracker" => Sigs(rs, ts \cup {timer["tracker"]}, ms)
      /\ t = "periodic" => Sigs(rs, ts \cup {timer["periodic"]}, ms)
      /\ t = "rlc" => Sigs(rs \cup {timer["rlc"]}, ts, ms)
  <2> USE <1>1, <1>2, <1>4, AllProcesses DEF Sigs, rs, ts, ms
  <2>1. CASE t = "mac"
    BY <2>1
  <2>2. CASE t = "tracker"
    BY <2>2
  <2>3. CASE t = "periodic"
    BY <2>3
  <2>4. CASE t = "rlc"
    BY <2>4
  <2> QED
    BY <1>3, <2>1, <2>2, <2>3, <2>4
<1>7. Typed'
  <2> USE <1>1 DEF Typed, Sigs, Timers
  <2>2. CASE t = "mac"
    BY <1>5, <1>6, <2>2 DEF MacSignals
  <2>3. CASE t = "tracker"
    BY <1>5, <1>6, <2>3 DEF TrackerSignals
  <2>4. CASE t = "periodic"
    BY <1>5, <1>6, <2>4 DEF TrackerSignals
  <2>5. CASE t = "rlc"
    BY <1>5, <1>6, <2>5
  <2> QED
    BY <1>3, <2>2, <2>3, <2>4, <2>5
<1> QED
  BY <1>5, <1>6, <1>7

LEMMA Expires ==
    ASSUME IInv, NEW t \in Timer, Expire(t), ~Overtakes(t)
    PROVE  /\ Typed /\ Running /\ Phases /\ timer[t] # Off
           /\ Typed' /\ OneAtATime' /\ Buffers'
           /\ t = "mac" => /\ Sigs(rs, ts, ms \cup {timer["mac"]})
                           /\ Timers(Off, timer["tracker"], timer["periodic"], timer["rlc"])
           /\ t = "tracker" => /\ Sigs(rs, ts \cup {timer["tracker"]}, ms)
                               /\ Timers(timer["mac"], Off, timer["periodic"], timer["rlc"])
           /\ t = "periodic" => /\ Sigs(rs, ts \cup {timer["periodic"]}, ms)
                                /\ Timers(timer["mac"], timer["tracker"], Off, timer["rlc"])
           /\ t = "rlc" => /\ Sigs(rs \cup {timer["rlc"]}, ts, ms)
                           /\ Timers(timer["mac"], timer["tracker"], timer["periodic"], Off)
           /\ UNCHANGED <<mac, tracker, radio, caller, rx_buffer, bcn, expected,
                          join_req, pending, waiting, halted>>
           /\ calm' = (calm /\ Quiet)
           /\ timer[t] \notin Timeout \cup {"RX_DURATION_TIMEOUT"} =>
                 rs = {} /\ ts = {} /\ ms = {} /\ calm' = calm
<1>1. /\ Typed /\ Buffers /\ Running /\ timer[t] # Off /\ MayExpire(t) /\ Phases
      /\ calm' = (calm /\ Quiet)
      /\ UNCHANGED <<mac, tracker, radio, caller, rx_buffer, bcn, expected,
                     join_req, pending, waiting, halted>>
  BY DEF Expire, IInv, frames
<1>2. t \in {"mac", "tracker", "periodic", "rlc"}
  BY DEF Timer
<1>3. Quiet => rs = {} /\ ts = {} /\ ms = {}
  BY AllProcesses DEF Quiet, rs, ts, ms
<1>4. OneAtATime'
  <2>1. calm' => Few(rs', ts', ms')
    BY <1>1, <1>2, <1>3, ExpiresTyped DEF Few, Sigs
  <2> QED
    BY <1>1, <2>1, StaysCalm DEF Running
<1>5. Buffers'
  BY <1>1 DEF Buffers, NoneMissed
<1>6. timer[t] \notin Timeout \cup {"RX_DURATION_TIMEOUT"} =>
          rs = {} /\ ts = {} /\ ms = {} /\ calm' = calm
  BY <1>1, <1>3 DEF MayExpire, Typed
<1> QED
  BY <1>1, <1>4, <1>5, <1>6, ExpiresTyped

LEMMA ExpireMacKeeps ==
    ASSUME IInv, Expire("mac"), ~Overtakes("mac")
    PROVE  IInv'
<1> DEFINE x == timer["mac"]
<1>1. /\ Typed /\ Running /\ Phases /\ x # Off
      /\ Typed' /\ OneAtATime' /\ Buffers'
      /\ Sigs(rs, ts, ms \cup {x})
      /\ Timers(Off, timer["tracker"], timer["periodic"], timer["rlc"])
      /\ UNCHANGED <<mac, tracker, radio, caller, rx_buffer, bcn, expected,
                     join_req, pending, waiting, halted>>
      /\ x \notin Timeout \cup {"RX_DURATION_TIMEOUT"} =>
            rs = {} /\ ts = {} /\ ms = {} /\ calm' = calm
  BY Expires DEF Timer
<1>2. Starting \/ AwaitsBeacon \/ Tracking \/ Lost \/ Delaying \/ AwaitsFrame
  <2>1. ~Booting
    BY <1>1 DEF Booting, Timer
  <2>2. ~Doomed
    BY <1>1 DEF Doomed, Typed, MacSignals, Reports, Results, Off
  <2> QED
    BY <1>1, <2>1, <2>2 DEF Phases, Searching, Searched, Failed, Attends, Sends
<1>3. CASE Starting
  <2>1. x = "START_JOINING" /\ ms \cup {x} = {"START_JOINING"} /\ mac = "INITED"
    BY <1>1, <1>3 DEF Starting
  <2>2. Starting'
    BY <1>1, <1>3, <2>1 DEF Starting, Sigs, Timers, RadioRests
  <2> QED
    BY <1>1, <2>2 DEF IInv, Phases
<1>4. CASE AwaitsBeacon \/ Tracking \/ Lost
  <2>1. Denied /\ x = "START_JOINING" /\ mac = "INITED" /\ ~Attends
    BY <1>1, <1>4 DEF AwaitsBeacon, Tracking, Lost, Attends, Denied
  <2>2. rs = {} /\ ts = {} /\ ms = {} /\ ~calm' /\ ~calm
    BY <1>1, <2>1 DEF Timeout, Denied
  <2>3. Denied'
    BY <1>1, <2>1, <2>2 DEF Denied, Sigs, Timers, Reports
  <2>4. Reported' = Reported
    BY <1>1, <2>1 DEF Reported, Sigs, Reports
  <2>5. AwaitsBeacon => AwaitsBeacon'
    <3> SUFFICES ASSUME AwaitsBeacon PROVE AwaitsBeacon'
      OBVIOUS
    <3>1. tracker = "BCN_TRACKING" /\ Receives("btracker", "tracker", "TRACK_TIMEOUT", {})
      BY <2>1, <2>2 DEF AwaitsBeacon, Reception, BothBounds, Bound
    <3>2. Receives("btracker", "tracker", "TRACK_TIMEOUT", ts)'
      BY <1>1, <2>2, <3>1 DEF Receives, Sigs, Timers
    <3> QED
      BY <1>1, <2>3, <2>4, <3>1, <3>2 DEF AwaitsBeacon, Reception, Bound, Timers
  <2>6. Tracking => Tracking'
    BY <1>1, <2>1, <2>2, <2>3, <2>4 DEF Tracking, Sigs, Timers, RadioRests, Owing, has_waiting_join_confirm
  <2>7. Lost => Lost'
    BY <1>1, <2>1, <2>2, <2>3, <2>4 DEF Lost, Sigs, Timers, RadioRests, Reported
  <2> QED
    BY <1>1, <1>4, <2>5, <2>6, <2>7 DEF IInv, Phases
<1>5. CASE Delaying
  <2>1. /\ x \in {"SEND_FRAME", "RECV_FRAME"} /\ RadioRests /\ BetweenBeacons
        /\ x = "SEND_FRAME" => mac \in Transmitting
        /\ x = "RECV_FRAME" => mac \in Receiving
    BY <1>1, <1>5 DEF Delaying
  <2>2. rs = {} /\ ts = {} /\ ms = {} /\ ms \cup {x} = {x}
    BY <1>1, <2>1 DEF Timeout
  <2>3. BetweenBeacons'
    BY <1>1, <2>1 DEF BetweenBeacons, Sigs, Timers, Owing, has_waiting_join_confirm
  <2>4. Delaying'
    BY <1>1, <1>5, <2>1, <2>2, <2>3
       DEF Delaying, Sigs, Timers, RadioRests, has_pending_join_req
  <2> QED
    BY <1>1, <2>4 DEF IInv, Phases
<1>6. CASE AwaitsFrame
  <2>1. Receives("mac_engine", "mac", "RECV_TIMEOUT", ms)
    BY <1>1, <1>6 DEF AwaitsFrame, Reception, BothBounds
  <2>2. x = "RECV_TIMEOUT"
    BY <1>1, <2>1 DEF Receives
  <2>3. Receives("mac_engine", "mac", "RECV_TIMEOUT", ms)'
    BY <1>1, <2>1, <2>2 DEF Receives, Sigs, Timers
  <2>4. BetweenBeacons'
    BY <1>1, <1>6 DEF AwaitsFrame, BetweenBeacons, Sigs, Timers, Owing, has_waiting_join_confirm
  <2>5. AwaitsFrame'
    BY <1>1, <1>6, <2>3, <2>4 DEF AwaitsFrame, Reception
  <2> QED
    BY <1>1, <2>5 DEF IInv, Phases
<1> QED
  BY <1>2, <1>3, <1>4, <1>5, <1>6

LEMMA ExpireTrackerKeeps ==
    ASSUME IInv, Expire("tracker"), ~Overtakes("tracker")
    PROVE  IInv'
<1> DEFINE x == timer["tracker"]
<1>1. /\ Typed /\ Running /\ Phases /\ x # Off
      /\ Typed' /\ OneAtATime' /\ Buffers'
      /\ Sigs(rs, ts \cup {x}, ms)
      /\ Timers(timer["mac"], Off, timer["periodic"], timer["rlc"])
      /\ UNCHANGED <<mac, tracker, radio, caller, rx_buffer, bcn, expected,
                     join_req, pending, waiting, halted>>
      /\ x \notin Timeout \cup {"RX_DURATION_TIMEOUT"} =>
            rs = {} /\ ts = {} /\ ms = {} /\ calm' = calm
      /\ calm' => calm
  BY Expires DEF Timer
<1>2. Searching \/ AwaitsBeacon \/ Lost
  <2>1. ~Booting
    BY <1>1 DEF Booting, Timer
  <2>2. ~Doomed
    BY <1>1 DEF Doomed, Typed, TrackerSignals, Off
  <2> QED
    BY <1>1, <2>1, <2>2
       DEF Phases, Starting, Searched, Tracking, Failed, Delaying, AwaitsFrame, Sends, BetweenBeacons
<1>3. CASE Searching
  <2>1. Receives("btracker", "tracker", "SEARCH_TIMEOUT", ts)
    BY <1>1, <1>3 DEF Searching, Reception, BothBounds
  <2>2. x = "SEARCH_TIMEOUT"
    BY <1>1, <2>1 DEF Receives
  <2>3. Receives("btracker", "tracker", "SEARCH_TIMEOUT", ts)'
    BY <1>1, <2>1, <2>2 DEF Receives, Sigs, Timers
  <2>4. Searching'
    BY <1>1, <1>3, <2>3 DEF Searching, Reception, Sigs, Timers
  <2> QED
    BY <1>1, <2>4 DEF IInv, Phases
<1>4. CASE AwaitsBeacon
  <2> DEFINE b == Bound[tracker]
  <2>1. b \in {"TRACK_TIMEOUT", "TRACK_SEARCH_TIMEOUT"} /\ b' = b
    BY <1>1, <1>4 DEF AwaitsBeacon, Bound
  <2> HIDE DEF b
  <2>2. Receives("btracker", "tracker", b, ts)
    BY <1>1, <1>4 DEF AwaitsBeacon, Reception, BothBounds, b
  <2>3. x = b /\ x # Off
    BY <1>1, <2>2 DEF Receives
  <2>4. Receives("btracker", "tracker", b, ts)'
    BY <1>1, <2>1, <2>2, <2>3 DEF Receives, Sigs, Timers
  <2>5. /\ Attends => Attends'
        /\ Denied => Denied'
        /\ Reported' = Reported
    <3>1. ms' = ms /\ timer'["mac"] = timer["mac"]
      BY <1>1 DEF Sigs, Timers
    <3> QED
      BY <1>1, <3>1 DEF Attends, Denied, Reported, Typed
  <2>6. AwaitsBeacon'
    BY <1>1, <1>4, <2>4, <2>5 DEF AwaitsBeacon, Reception, Timers, b
  <2> QED
    BY <1>1, <2>6 DEF IInv, Phases
<1>5. CASE Lost
  <2>1. x = "BEGIN_TRACK_SEARCH"
    BY <1>1, <1>5 DEF Lost
  <2>2. rs = {} /\ ts = {} /\ ms = {} /\ ts \cup {x} = {"BEGIN_TRACK_SEARCH"}
    BY <1>1, <2>1 DEF Timeout
  <2>3. Attends /\ RadioRests /\ timer["periodic"] = Off /\ tracker = "BCN_TRACKING_SEARCH"
    BY <1>5, <2>1, <2>2 DEF Lost, Reported
  <2>4. Lost'
    BY <1>1, <2>2, <2>3 DEF Lost, Attends, RadioRests, Sigs, Timers
  <2> QED
    BY <1>1, <2>4 DEF IInv, Phases
<1> QED
  BY <1>2, <1>3, <1>4, <1>5

LEMMA ExpirePeriodicKeeps ==
    ASSUME IInv, Expire("periodic"), ~Overtakes("periodic")
    PROVE  IInv'
<1> DEFINE x == timer["periodic"]
<1>1. /\ Typed /\ Running /\ Phases /\ x # Off
      /\ Typed' /\ OneAtATime' /\ Buffers'
      /\ Sigs(rs, ts \cup {x}, ms)
      /\ Timers(timer["mac"], timer["tracker"], Off, timer["rlc"])
      /\ UNCHANGED <<mac, tracker, radio, caller, rx_buffer, bcn, expected,
                     join_req, pending, waiting, halted>>
      /\ x \notin Timeout \cup {"RX_DURATION_TIMEOUT"} =>
            rs = {} /\ ts = {} /\ ms = {} /\ calm' = calm
  BY Expires DEF Timer
<1>2. x = "TRACK_BEACON" /\ mac \notin Transmitting \cup Receiving
  BY <1>1 DEF Typed, Overtakes
<1>3. rs = {} /\ ts = {} /\ ms = {} /\ calm' = calm /\ ts \cup {x} = {"TRACK_BEACON"}
  BY <1>1, <1>2 DEF Timeout
<1>4. Tracking
  BY <1>1, <1>2, <1>3
     DEF Phases, Booting, Timer, Starting, Searching, Searched, AwaitsBeacon, Lost, Failed, Delaying,
         AwaitsFrame, Sends, Doomed
<1>5. RadioRests /\ tracker = "BCN_TRACKING" /\ timer["tracker"] = Off /\ ~Owing /\ Reported = {}
  BY <1>1, <1>3, <1>4 DEF Tracking, Reported
<1>6. /\ Attends => Attends'
      /\ Denied => Denied'
      /\ Reported' = {}
  <2>1. ms' = ms /\ timer'["mac"] = timer["mac"]
    BY <1>1 DEF Sigs, Timers
  <2> QED
    BY <1>1, <1>3, <1>5, <2>1 DEF Attends, Denied, Reported
<1>7. RadioRests' /\ ~Owing'
  BY <1>1, <1>5 DEF RadioRests, Sigs, Timers, Owing, has_waiting_join_confirm
<1>8. Tracking'
  BY <1>1, <1>3, <1>4, <1>5, <1>6, <1>7 DEF Tracking, Sigs, Timers
<1> QED
  BY <1>1, <1>8 DEF IInv, Phases

LEMMA ExpireRlcKeeps ==
    ASSUME IInv, Expire("rlc"), ~Overtakes("rlc")
    PROVE  IInv'
<1> DEFINE x == timer["rlc"]
<1>1. /\ Typed /\ Running /\ Phases /\ x # Off
      /\ Typed' /\ OneAtATime' /\ Buffers'
      /\ Sigs(rs \cup {x}, ts, ms)
      /\ Timers(timer["mac"], timer["tracker"], timer["periodic"], Off)
      /\ UNCHANGED <<mac, tracker, radio, caller, rx_buffer, bcn, expected,
                     join_req, pending, waiting, halted>>
      /\ calm' = (calm /\ Quiet)
      /\ x \notin Timeout \cup {"RX_DURATION_TIMEOUT"} =>
            rs = {} /\ ts = {} /\ ms = {} /\ calm' = calm
  BY Expires DEF Timer
<1>2. ReceivesNow \/ Sends
  <2>1. ~Booting
    BY <1>1 DEF Booting, Timer
  <2> QED
    BY <1>1, <2>1, ReceivingPhases DEF RadioRests
<1>3. x = "RX_DURATION_TIMEOUT" => timer[TimerOf[caller]] = Off
  BY DEF Expire, MayExpire
<1>4. TimerOf["btracker"] = "tracker" /\ TimerOf["mac_engine"] = "mac"
  BY DEF TimerOf
<1>5. CASE Sends
  <2>1. SendingNow /\ caller = "mac_engine" /\ ms = {} /\ ts = {}
    BY <1>1, <1>5, SendsNow DEF RadioRests
  <2>2. x = "TX_RAND_WAIT_TIMEOUT" /\ radio = "TX" /\ rs \cup {x} = {"TX_RAND_WAIT_TIMEOUT"}
    BY <1>1, <2>1 DEF SendingNow
  <2>3. /\ SendingNow' /\ ms' = {} /\ ts' = {} /\ sig' = [q \in Process |-> sig'[q]]
        /\ timer'["rlc"] = Off
    BY <1>1, <2>1, <2>2 DEF SendingNow, Sigs, Timers
  <2>4. rx_buffer \in Frame /\ radio \in RadioState /\ calm' \in BOOLEAN
    BY <1>1 DEF Typed
  <2>5. UNCHANGED frames
    BY DEF Expire
  <2> QED
    BY <1>1, <1>5, <2>1, <2>3, <2>4, <2>5, SendingKeeps
<1>6. CASE Searching /\ Receives("btracker", "tracker", "SEARCH_TIMEOUT", ts)
  <2>1. x = "RX_DURATION_TIMEOUT" /\ timer["tracker"] = Off /\ "SEARCH_TIMEOUT" \in ts
    BY <1>1, <1>3, <1>4, <1>6 DEF Receives, Off
  <2>2. Receives("btracker", "tracker", "SEARCH_TIMEOUT", ts)'
    BY <1>1, <1>6, <2>1 DEF Receives, Sigs, Timers
  <2>3. Searching'
    BY <1>1, <1>6, <2>2 DEF Searching, Reception, Sigs, Timers
  <2> QED
    BY <1>1, <2>3 DEF IInv, Phases
<1>7. CASE AwaitsBeacon /\ Receives("btracker", "tracker", Bound[tracker], ts)
  <2> DEFINE b == Bound[tracker]
  <2>1. b \in {"TRACK_TIMEOUT", "TRACK_SEARCH_TIMEOUT"} /\ b' = b /\ b # Off
    BY <1>1, <1>7 DEF AwaitsBeacon, Bound, Off
  <2> HIDE DEF b
  <2>2. Receives("btracker", "tracker", b, ts)
    BY <1>7 DEF b
  <2>3. x = "RX_DURATION_TIMEOUT" /\ timer["tracker"] = Off /\ b \in ts
    BY <1>1, <1>3, <1>4, <2>1, <2>2 DEF Receives
  <2>4. Receives("btracker", "tracker", b, ts)'
    BY <1>1, <2>1, <2>2, <2>3 DEF Receives, Sigs, Timers
  <2>5. /\ Attends => Attends'
        /\ Denied => Denied'
        /\ Reported' = Reported
    <3>1. ms' = ms /\ timer'["mac"] = timer["mac"] /\ (calm' => calm)
      BY <1>1 DEF Sigs, Timers
    <3> QED
      BY <1>1, <3>1 DEF Attends, Denied, Reported
  <2>6. AwaitsBeacon'
    BY <1>1, <1>7, <2>4, <2>5 DEF AwaitsBeacon, Reception, Timers, b
  <2> QED
    BY <1>1, <2>6 DEF IInv, Phases
<1>8. CASE AwaitsFrame /\ Receives("mac_engine", "mac", "RECV_TIMEOUT", ms)
  <2>1. x = "RX_DURATION_TIMEOUT" /\ timer["mac"] = Off /\ "RECV_TIMEOUT" \in ms
    BY <1>1, <1>3, <1>4, <1>8 DEF Receives, Off
  <2>2. Receives("mac_engine", "mac", "RECV_TIMEOUT", ms)'
    BY <1>1, <1>8, <2>1 DEF Receives, Sigs, Timers
  <2>3. BetweenBeacons'
    BY <1>1, <1>8 DEF AwaitsFrame, BetweenBeacons, Sigs, Timers, Owing, has_waiting_join_confirm
  <2>4. AwaitsFrame'
    BY <1>1, <1>8, <2>2, <2>3 DEF AwaitsFrame, Reception
  <2> QED
    BY <1>1, <2>4 DEF IInv, Phases
<1> QED
  BY <1>2, <1>5, <1>6, <1>7, <1>8 DEF ReceivesNow

----------------------------------------------------------------------------
(* The invariant                                                          *)

LEMMA InitHolds ==
    ASSUME Init
    PROVE  IInv
<1>1. /\ rs = {"INITED"} /\ ts = {"INIT_FINISHED"} /\ ms = {"INIT_FINISHED"}
      /\ sig = [q \in Process |-> sig[q]]
  BY DEF Init, rs, ts, ms, Process
<1>2. timer = [t \in Timer |-> Off] /\ \A t \in Timer : timer[t] = Off
  BY DEF Init
<1>3. /\ timer["mac"] = Off /\ timer["tracker"] = Off
      /\ timer["periodic"] = Off /\ timer["rlc"] = Off
  BY <1>2 DEF Timer
<1>4. Booting
  BY <1>1, <1>2 DEF Init, Booting
<1>5. NoBeacon \in Beacon /\ 0 \in Due
  BY DeviceMacAssumption DEF NoBeacon, Beacon, Due
<1>6. Typed
  BY <1>1, <1>2, <1>3, <1>5, DeviceMacAssumption
     DEF Init, Typed, RlcSignals, TrackerSignals, MacSignals, TrackerState, RadioState, Frame,
         Expected, JoinReq, Reason
<1>7. Buffers
  BY FS_EmptySet, DeviceMacAssumption DEF Init, Buffers, NoneMissed, Joined
<1>8. OneAtATime
  BY <1>4 DEF OneAtATime, Init, Running
<1> QED
  BY <1>4, <1>6, <1>7, <1>8 DEF IInv, Phases

LEMMA NothingChanges ==
    ASSUME IInv, UNCHANGED vars
    PROVE  IInv'
<1>1. /\ UNCHANGED <<mac, tracker, radio, caller, sig, timer, rx_buffer, bcn, expected,
                     halted, calm>>
      /\ UNCHANGED <<join_req, pending, waiting, tx_due>>
  BY DEF vars, frames
<1>2. rs' = rs /\ ts' = ts /\ ms' = ms
  BY <1>1 DEF rs, ts, ms
<1>3. Typed /\ OneAtATime /\ Buffers /\ (Running => Phases)
  BY DEF IInv
<1>4. Typed'
  BY <1>1, <1>2, <1>3 DEF Typed
<1>5. Buffers'
  BY <1>1, <1>3 DEF Buffers, NoneMissed
<1>6. Running' <=> Running
  BY <1>1 DEF Running
<1>7. Running' => Phases'
  BY <1>1, <1>3, <1>6, PhasesStay
<1>8. OneAtATime'
  <2>1. Booting' <=> Booting
    BY <1>1, <1>2 DEF Booting
  <2> QED
    BY <1>1, <1>3, <1>6, <2>1 DEF OneAtATime
<1> QED
  BY <1>4, <1>5, <1>7, <1>8 DEF IInv

----------------------------------------------------------------------------
(* Whose the radio is, whatever overtakes what                            *)

RXD == "RX_DURATION_TIMEOUT"

RadioUses ==
    /\ radio # "IDLE" => caller # "none"
    /\ timer["rlc"] \in {Off, "TX_RAND_WAIT_TIMEOUT", RXD}
    /\ timer["rlc"] = RXD => radio = "RX"
    /\ RXD \in rs => radio = "RX" /\ timer["rlc"] # RXD
    /\ "INITED" \in rs => radio = "IDLE"

\* The tracker has its next beacon scheduled, or receives, or is to begin.
TrackerUses ==
    /\ radio = "RX" /\ caller = "btracker" =>
          \/ tracker \in {"SEARCH_BEACON", "BCN_TRACKING_SEARCH"}
          \/ tracker = "BCN_TRACKING" /\ timer["periodic"] = Off
    /\ "TRACK_BEACON" \in ts =>
          /\ tracker = "BCN_TRACKING" /\ timer["periodic"] = Off
          /\ ~(radio = "RX" /\ caller = "btracker")
    /\ timer["periodic"] # Off => tracker = "BCN_TRACKING"

EngineReceives ==
    /\ radio = "RX" /\ caller = "mac_engine" =>
          /\ mac \in Receiving /\ timer["mac"] # "RECV_FRAME"
          /\ "RECV_FRAME" \notin ms /\ DUR \notin ms
    /\ "RECV_FRAME" \in ms => DUR \notin ms

\* A transmission is to come, goes on, or has a result: one of the three.
ToSend == timer["mac"] = "SEND_FRAME" \/ "SEND_FRAME" \in ms
Sent   == ms \cap Results # {}
EngineSends ==
    /\ radio \in Sending =>
          /\ caller = "mac_engine" /\ mac \in Transmitting /\ ~ToSend /\ ~Sent
          /\ "RLC_RX_OK" \notin ts /\ DUR \notin ts
    /\ ToSend => mac \in Transmitting /\ ~Sent
    /\ "SEND_FRAME" \in ms => timer["mac"] # "SEND_FRAME"
    /\ Sent => mac \in Transmitting /\ \E r \in Results : ms \cap Results = {r}
    /\ mac \in Transmitting => ToSend \/ radio \in Sending \/ Sent
    /\ mac = "TX_FRAME" /\ (radio \in Sending \/ Sent) => pending > 0

Late == tx_due \in Due \cup {-1} /\ overtaken \in BOOLEAN /\ (overtaken => ~calm)

Users == Typed /\ Stored /\ Late /\ RadioUses /\ TrackerUses /\ EngineReceives /\ EngineSends

LEMMA UsersHalt ==
    ASSUME Users, NEW reason \in Reason, Halt(reason)
    PROVE  Users'
<1>1. /\ halted' \in Reason
      /\ UNCHANGED <<mac, tracker, radio, caller, sig, timer, rx_buffer, bcn, expected, calm,
                     overtaken, join_req, pending, waiting, tx_due>>
  BY DEF Halt, frames
<1>2. rs' = rs /\ ts' = ts /\ ms' = ms
  BY <1>1 DEF rs, ts, ms
<1>3. Typed'
  BY <1>1, <1>2 DEF Users, Typed
<1>4. Stored' /\ Late'
  BY <1>1 DEF Users, Stored, Late
<1>5. RadioUses' /\ TrackerUses' /\ EngineReceives'
  BY <1>1, <1>2 DEF Users, RadioUses, TrackerUses, EngineReceives
<1>6. EngineSends'
  BY <1>1, <1>2 DEF Users, EngineSends, ToSend, Sent
<1> QED
  BY <1>3, <1>4, <1>5, <1>6 DEF Users

\* The frame buffers are left alone.
LEMMA StoredKept ==
    ASSUME Stored, Late, UNCHANGED <<join_req, pending, waiting, tx_due, overtaken>>, calm' => calm,
           mac' = mac \/ (mac \in Joined /\ mac' \in Joined) \/ (mac \notin Joined /\ waiting = {} /\ mac' \notin Joined)
    PROVE  Stored' /\ Late'
BY DEF Stored, Late, Joined, Joining

\* A step of the tracker leaves the engine's use of the radio alone.
LEMMA EngineKept ==
    ASSUME EngineReceives, EngineSends, UNCHANGED <<mac, pending>>,
           timer'["mac"] = timer["mac"],
           NEW S, ms' = ms \cup S, S \cap ({"SEND_FRAME", "RECV_FRAME", DUR} \cup Results) = {},
           \/ radio \notin Sending /\ radio' \notin Sending
           \/ radio' = radio /\ caller' = caller /\ ts' \cap {"RLC_RX_OK", DUR} \subseteq ts,
           radio' = "RX" /\ caller' = "mac_engine" => radio = "RX" /\ caller = "mac_engine"
    PROVE  EngineReceives' /\ EngineSends'
<1>1. /\ "SEND_FRAME" \in ms' <=> "SEND_FRAME" \in ms
      /\ "RECV_FRAME" \in ms' <=> "RECV_FRAME" \in ms
      /\ DUR \in ms' <=> DUR \in ms
      /\ ms' \cap Results = ms \cap Results
  OBVIOUS
<1>2. (ToSend' <=> ToSend) /\ (Sent' <=> Sent)
  BY <1>1 DEF ToSend, Sent
<1>3. EngineReceives'
  BY <1>1 DEF EngineReceives
<1>4. EngineSends'
  BY <1>1, <1>2 DEF EngineSends
<1> QED
  BY <1>3, <1>4

\* A step of the engine leaves the tracker's alone.
LEMMA TrackerKept ==
    ASSUME TrackerUses, tracker' = tracker, timer'["periodic"] = timer["periodic"],
           "TRACK_BEACON" \in ts' => "TRACK_BEACON" \in ts,
           radio' = "RX" /\ caller' = "btracker" => radio = "RX" /\ caller = "btracker"
    PROVE  TrackerUses'
BY DEF TrackerUses

\* The engine neither receives nor sends.
LEMMA EngineRests ==
    ASSUME EngineReceives, EngineSends, mac \notin Transmitting \cup Receiving
    PROVE  radio \notin Sending /\ ~(radio = "RX" /\ caller = "mac_engine") /\ ~ToSend /\ ~Sent
BY DEF EngineReceives, EngineSends

LEMMA EngineGoesOn ==
    ASSUME mac' \notin Transmitting, radio' \notin Sending, ~ToSend', ~Sent',
           ~(radio' = "RX" /\ caller' = "mac_engine"), "RECV_FRAME" \in ms' => DUR \notin ms'
    PROVE  EngineReceives' /\ EngineSends'
BY DEF EngineReceives, EngineSends, ToSend

LEMMA TrackerTakesOne ==
    ASSUME NEW state, NEW s, TrackerTakes(state, s)
    PROVE  Running /\ rs = {} /\ tracker = state /\ s \in ts
BY First DEF TrackerTakes, Runs, Before, rs, ts

LEMMA MacTakesOne ==
    ASSUME NEW state, NEW s, MacTakes(state, s)
    PROVE  Running /\ rs = {} /\ ts = {} /\ mac = state /\ s \in ms
BY First DEF MacTakes, Runs, Before, rs, ts, ms

LEMMA BeaconFirst ==
    ASSUME NEW S, NEW s \in {"RLC_RX_OK", DUR, "TRACK_TIMEOUT"},
           IsFirst(s, tracker_order["BCN_TRACKING"], S)
    PROVE  "TRACK_BEACON" \notin S
<1>1. tracker_order["BCN_TRACKING"] =
          <<"TRACK_BEACON", "RLC_RX_OK", "RLC_RX_DURATION_TIMEOUT", "TRACK_TIMEOUT">>
  BY DEF tracker_order
<1> QED
  BY <1>1 DEF IsFirst, DUR

----------------------------------------------------------------------------
(* The tracker's steps                                                    *)

LEMMA GivesUpUsers ==
    ASSUME Users, NEW s, NEW u \in {"BEACON_NOT_FOUND", "TRACK_FAILED"}, rs = {},
           "TRACK_BEACON" \notin ts, radio \in {"IDLE", "RX"}, GivesUp(s, u),
           UNCHANGED <<halted, calm, overtaken>>
    PROVE  Users'
<1>1. /\ Typed /\ Stored /\ Late /\ EngineReceives /\ EngineSends
      /\ Sigs({}, ts \ {s}, ms \cup {u}) /\ Timers(timer["mac"], Off, Off, Off)
      /\ tracker' = "INITED" /\ radio' = "IDLE"
      /\ UNCHANGED <<mac, caller, rx_buffer, bcn, expected, join_req, pending, waiting, tx_due,
                     halted, calm, overtaken>>
  BY TrackerTakesIt, TimersNow DEF GivesUp, btracker_reset, frames, Users
<1>2. Typed'
  BY <1>1 DEF Typed, Sigs, Timers, TrackerState, RadioState, MacSignals, Reports
<1>3. Stored' /\ Late'
  BY <1>1, StoredKept
<1>4. RadioUses' /\ TrackerUses'
  BY <1>1 DEF RadioUses, TrackerUses, Sigs, Timers, RXD, Off
<1>5. EngineReceives' /\ EngineSends'
  <2>1. {u} \cap ({"SEND_FRAME", "RECV_FRAME", DUR} \cup Results) = {}
    BY DEF DUR, Results
  <2>2. /\ radio \notin Sending /\ radio' \notin Sending /\ radio' # "RX"
        /\ timer'["mac"] = timer["mac"] /\ ms' = ms \cup {u}
    BY <1>1 DEF Sending, Sigs, Timers
  <2> QED
    BY <1>1, <2>1, <2>2, EngineKept
<1> QED
  BY <1>2, <1>3, <1>4, <1>5 DEF Users

LEMMA NoBeaconDue ==
    ASSUME Users, tracker # "BCN_TRACKING"
    PROVE  "TRACK_BEACON" \notin ts /\ timer["periodic"] = Off
BY DEF Users, TrackerUses

LEMMA NotSending ==
    ASSUME Users, "RLC_RX_OK" \in ts \/ DUR \in ts
    PROVE  radio \in {"IDLE", "RX"}
BY DEF Users, EngineSends, Typed, RadioState

LEMMA GivingUpUsers ==
    ASSUME Users, SearchTimeout \/ TrackSearchTimeout \/ SearchRxDurationTimeout
    PROVE  Users'
<1> USE DEF Reason
<1>1. CASE SearchTimeout
  <2>1. rs = {} /\ "TRACK_BEACON" \notin ts
    BY <1>1, TrackerTakesOne, NoBeaconDue DEF SearchTimeout
  <2> QED
    BY <1>1, <2>1, GivesUpUsers, UsersHalt DEF SearchTimeout, Asserting, MayStop
<1>2. CASE TrackSearchTimeout
  <2>1. rs = {} /\ "TRACK_BEACON" \notin ts
    BY <1>2, TrackerTakesOne, NoBeaconDue DEF TrackSearchTimeout
  <2> QED
    BY <1>2, <2>1, GivesUpUsers, UsersHalt DEF TrackSearchTimeout, Asserting, MayStop
<1>3. CASE SearchRxDurationTimeout
  <2>1. PICK state \in {"SEARCH_BEACON", "BCN_TRACKING_SEARCH"} :
          TrackerTakes(state, "RLC_RX_DURATION_TIMEOUT")
    BY <1>3 DEF SearchRxDurationTimeout
  <2>2. rs = {} /\ tracker = state /\ DUR \in ts
    BY <2>1, TrackerTakesOne DEF DUR
  <2>3. "TRACK_BEACON" \notin ts /\ radio \in {"IDLE", "RX"}
    BY <2>2, NoBeaconDue, NotSending
  <2> QED
    BY <1>3, <2>2, <2>3, GivesUpUsers DEF SearchRxDurationTimeout
<1> QED
  BY <1>1, <1>2, <1>3

LEMMA RxOkUsers ==
    ASSUME Users,
           NEW state, NEW raised \in {"BEACON_FOUND", "BEACON_TRACKED"}, NEW newState,
           \/ state = "SEARCH_BEACON" /\ newState = "BEACON_FOUND"
           \/ state \in {"BCN_TRACKING", "BCN_TRACKING_SEARCH"} /\ newState = "BCN_TRACKING",
           RxOk(state, raised, newState)
    PROVE  Users'
<1> DEFINE s == "RLC_RX_OK"
<1>1. /\ Typed /\ Stored /\ Late /\ RadioUses /\ TrackerUses /\ EngineReceives /\ EngineSends
      /\ rs = {} /\ tracker = state /\ s \in ts
  BY TrackerTakesOne DEF RxOk, Users
<1>2. radio \in {"IDLE", "RX"} /\ radio \notin Sending
  BY <1>1, NotSending DEF Sending
<1>3. "TRACK_BEACON" \notin ts
  <2>1. CASE state = "BCN_TRACKING"
    BY <2>1, BeaconFirst DEF RxOk, TrackerTakes, ts
  <2>2. CASE state # "BCN_TRACKING"
    BY <1>1, <2>2, NoBeaconDue
  <2> QED
    BY <2>1, <2>2
<1>4. CASE rx_buffer # "beacon"
  <2>1. /\ Sigs({}, ts \ {s}, ms) /\ UNCHANGED timer
        /\ UNCHANGED <<mac, tracker, radio, caller, rx_buffer, bcn, expected,
                       join_req, pending, waiting, tx_due, halted, calm, overtaken>>
    BY <1>1, <1>4, TrackerTakesIt DEF RxOk, frames
  <2>2. Typed'
    BY <1>1, <2>1 DEF Typed, Sigs
  <2>3. Stored' /\ Late'
    BY <1>1, <2>1, StoredKept
  <2>4. RadioUses' /\ TrackerUses'
    BY <1>1, <2>1 DEF RadioUses, TrackerUses, Sigs
  <2>5. EngineReceives' /\ EngineSends'
    <3>1. ms' = ms \cup {}
      BY <2>1 DEF Sigs
    <3> QED
      BY <1>1, <1>2, <2>1, <3>1, EngineKept
  <2> QED
    BY <2>2, <2>3, <2>4, <2>5 DEF Users
<1>5. CASE rx_buffer = "beacon" /\ halted' # "Assertion"
  <2>1. /\ Signals("btracker", s, ToMac(raised)) /\ bcn' \in Parsed /\ tracker' = newState
        /\ radio' = "IDLE"
        /\ IF state = "SEARCH_BEACON" THEN timer' = Stopped(AfterStop, {"tracker"})
           ELSE NextBeacon(Stopped(AfterStop, {"tracker"}))
        /\ UNCHANGED <<mac, caller, rx_buffer, expected, join_req, pending, waiting, tx_due,
                       halted, calm, overtaken>>
    BY <1>5 DEF RxOk, Asserting, Halt, rx_stop, frames
  <2>2. Sigs({}, ts \ {s}, ms \cup {raised})
    BY <1>1, <2>1, TrackerTakesIt
  <2>3. \/ state = "SEARCH_BEACON" /\ Timers(timer["mac"], Off, timer["periodic"], RlcStopped)
        \/ state # "SEARCH_BEACON" /\ Timers(timer["mac"], Off, "TRACK_BEACON", RlcStopped)
    BY <1>1, <2>1, TimersAfterStop
  <2>4. /\ RlcStopped \in {Off} \cup RlcSignals /\ RlcStopped # RXD
        /\ RlcStopped \in {Off, "TX_RAND_WAIT_TIMEOUT", RXD}
    BY <1>1 DEF RlcStopped, Typed, RadioUses, RXD, Off
  <2>5. Typed'
    BY <1>1, <2>1, <2>2, <2>3, <2>4
       DEF Typed, Sigs, Timers, TrackerState, RadioState, MacSignals, Reports, Parsed
  <2>6. Stored' /\ Late'
    BY <1>1, <2>1, StoredKept
  <2>7. RadioUses'
    BY <2>1, <2>2, <2>3, <2>4 DEF RadioUses, Sigs, Timers, RXD
  <2>8. TrackerUses'
    <3>1. state = "SEARCH_BEACON" => timer["periodic"] = Off
      BY <1>1, NoBeaconDue
    <3> QED
      BY <1>3, <2>1, <2>2, <2>3, <3>1 DEF TrackerUses, Sigs, Timers, Off
  <2>9. EngineReceives' /\ EngineSends'
    <3>1. {raised} \cap ({"SEND_FRAME", "RECV_FRAME", DUR} \cup Results) = {}
      BY DEF DUR, Results
    <3>2. /\ radio' \notin Sending /\ radio' # "RX"
          /\ timer'["mac"] = timer["mac"] /\ ms' = ms \cup {raised}
      BY <2>1, <2>2, <2>3 DEF Sending, Sigs, Timers
    <3> QED
      BY <1>1, <1>2, <2>1, <3>1, <3>2, EngineKept
  <2> QED
    BY <2>5, <2>6, <2>7, <2>8, <2>9 DEF Users
<1>6. CASE rx_buffer = "beacon" /\ halted' = "Assertion"
  <2>1. halted = "no"
    BY TrackerTakesOne DEF RxOk, Running
  <2>2. Halt("Assertion")
    BY <1>6, <2>1 DEF RxOk, Asserting
  <2> QED
    BY <2>2, UsersHalt DEF Reason
<1> QED
  BY <1>4, <1>5, <1>6

LEMMA BeginTrackingUsers ==
    ASSUME Users, BeginBeaconTracking
    PROVE  Users'
<1> DEFINE s == "BEGIN_BEACON_TRACKING"
<1>1. /\ Typed /\ Stored /\ Late /\ RadioUses /\ TrackerUses /\ EngineReceives /\ EngineSends
      /\ rs = {} /\ tracker = "BEACON_FOUND" /\ Running
  BY TrackerTakesOne DEF BeginBeaconTracking, Users
<1>2. CASE Halt("Assertion")
  BY <1>2, UsersHalt DEF Reason
<1>3. CASE ~Halt("Assertion")
  <2>1. /\ Signals("btracker", s, NoneRaised) /\ NextBeacon(timer) /\ tracker' = "BCN_TRACKING"
        /\ UNCHANGED <<mac, radio, caller, rx_buffer, bcn, expected, join_req, pending, waiting,
                       tx_due, halted, calm, overtaken>>
    BY <1>3 DEF BeginBeaconTracking, Asserting, frames
  <2>2. Sigs({}, ts \ {s}, ms)
        /\ Timers(timer["mac"], timer["tracker"], "TRACK_BEACON", timer["rlc"])
    BY <1>1, <2>1, TrackerTakesIt, TimersNow
  <2>3. Typed'
    BY <1>1, <2>1, <2>2 DEF Typed, Sigs, Timers, TrackerState
  <2>4. Stored' /\ Late'
    BY <1>1, <2>1, StoredKept
  <2>5. RadioUses'
    BY <1>1, <2>1, <2>2 DEF RadioUses, Sigs, Timers
  <2>6. TrackerUses'
    BY <1>1, <2>1, <2>2 DEF TrackerUses, Sigs, Timers
  <2>7. EngineReceives' /\ EngineSends'
    <3>1. ms' = ms \cup {} /\ timer'["mac"] = timer["mac"] /\ ts' \subseteq ts
      BY <2>2 DEF Sigs, Timers
    <3> QED
      BY <1>1, <2>1, <3>1, EngineKept
  <2> QED
    BY <2>3, <2>4, <2>5, <2>6, <2>7 DEF Users
<1> QED
  BY <1>2, <1>3

\* The tracker begins to receive, taking over what the engine may receive.
LEMMA TrackerListens ==
    ASSUME Users, rs = {}, MayStop, tracker \in {"BCN_TRACKING", "BCN_TRACKING_SEARCH"},
           timer["periodic"] = Off,
           NEW s, s # "TRACK_BEACON" => "TRACK_BEACON" \notin ts, Signals("btracker", s, NoneRaised),
           NEW b \in {"TRACK_TIMEOUT", "TRACK_SEARCH_TIMEOUT"},
           Listening("btracker", AfterStop, "tracker", b),
           UNCHANGED <<mac, tracker, pending>>
    PROVE  /\ Sigs({}, ts \ {s}, ms) /\ Timers(timer["mac"], b, Off, RXD)
           /\ RadioUses' /\ TrackerUses' /\ EngineReceives' /\ EngineSends'
<1>1. /\ Typed /\ EngineReceives /\ EngineSends
      /\ radio' = "RX" /\ caller' = "btracker"
      /\ Sigs({}, ts \ {s}, ms) /\ Timers(timer["mac"], b, Off, RXD)
  BY TrackerTakesIt, TimersAfterStop DEF Users, Listening, RXD
<1>2. RadioUses'
  BY <1>1 DEF RadioUses, Sigs, Timers
<1>3. TrackerUses'
  BY <1>1 DEF TrackerUses, Sigs, Timers
<1>4. EngineReceives' /\ EngineSends'
  <2>1. ms' = ms \cup {} /\ timer'["mac"] = timer["mac"]
    BY <1>1 DEF Sigs, Timers
  <2>2. radio \notin Sending /\ radio' \notin Sending
    BY <1>1 DEF MayStop, Sending
  <2> QED
    BY <1>1, <2>1, <2>2, EngineKept
<1> QED
  BY <1>1, <1>2, <1>3, <1>4

LEMMA TickStored ==
    ASSUME Typed, Stored, Late, ticktock, UNCHANGED <<mac, calm, overtaken>>
    PROVE  /\ Stored' /\ Late' /\ pending' = pending
           /\ join_req' \in JoinReq /\ waiting' \subseteq Due \cup {-1}
<1>1. /\ waiting' = {Nearer(d) : d \in waiting} /\ pending' = pending
      /\ join_req' = [join_req EXCEPT !.due = Nearer(@)]
      /\ tx_due' = tx_due \/ tx_due' = Nearer(tx_due)
  BY DEF ticktock
<1>2. \A d \in Due \cup {-1} : Nearer(d) \in Due \cup {-1}
  BY DeviceMacAssumption DEF Nearer, Due
<1>3. waiting' \subseteq Due \cup {-1} /\ tx_due' \in Due \cup {-1}
  BY <1>1, <1>2 DEF Typed, Late
<1>4. join_req' \in JoinReq /\ join_req'.has_join_req = join_req.has_join_req
  <2>1. join_req \in JoinReq
    BY DEF Typed
  <2>2. Nearer(join_req.due) \in Due \cup {-1}
    BY <1>2, <2>1 DEF JoinReq
  <2> QED
    BY <1>1, <2>1, <2>2 DEF JoinReq
<1>5. /\ IsFiniteSet(waiting') /\ pending' + Cardinality(waiting') <= MaxMsgs
  <2>1. /\ IsFiniteSet(waiting') /\ Cardinality(waiting') <= Cardinality(waiting)
        /\ Cardinality(waiting) \in Nat /\ Cardinality(waiting') \in Nat
    BY <1>1, NearerFrames, FS_CardinalityType DEF Stored
  <2>2. pending + Cardinality(waiting) <= MaxMsgs /\ pending \in Nat
    BY DEF Stored, Typed
  <2> QED
    BY <1>1, <2>1, <2>2, DeviceMacAssumption
<1>6. Stored'
  BY <1>1, <1>4, <1>5 DEF Stored
<1>7. Late'
  BY <1>3 DEF Late
<1> QED
  BY <1>1, <1>3, <1>4, <1>6, <1>7

LEMMA TrackBeaconUsers ==
    ASSUME Users, TrackBeacon
    PROVE  Users'
<1> DEFINE s == "TRACK_BEACON"
<1>1. /\ Typed /\ Stored /\ Late /\ RadioUses /\ TrackerUses /\ EngineReceives /\ EngineSends
      /\ rs = {} /\ tracker = "BCN_TRACKING" /\ Running /\ s \in ts /\ timer["periodic"] = Off
  BY TrackerTakesOne DEF TrackBeacon, Users, TrackerUses
<1>2. CASE Halt("Assertion")
  BY <1>2, UsersHalt DEF Reason
<1>3. CASE ~Halt("Assertion")
  <2>1. PICK allow_tx \in BOOLEAN :
          /\ ticktock /\ UNCHANGED <<halted, calm, overtaken>>
          /\ expected' = [is_check_packed_ack |-> has_waiting_ack_next]
          /\ Signals("btracker", s, NoneRaised)
          /\ IF MustReceive(allow_tx)
             THEN MayListen("tracker") /\ Listening("btracker", AfterStop, "tracker", "TRACK_TIMEOUT")
             ELSE NextBeacon(timer) /\ UNCHANGED <<radio, caller>>
          /\ UNCHANGED <<mac, tracker, rx_buffer, bcn>>
    BY <1>3 DEF TrackBeacon, Asserting
  <2>2. /\ Stored' /\ Late' /\ pending' = pending
        /\ join_req' \in JoinReq /\ waiting' \subseteq Due \cup {-1}
    BY <1>1, <2>1, TickStored
  <2>3. expected' \in Expected
    BY <2>1 DEF Expected, has_waiting_ack_next
  <2>4. CASE MustReceive(allow_tx)
    <3>1. MayStop /\ Listening("btracker", AfterStop, "tracker", "TRACK_TIMEOUT")
      BY <2>1, <2>4 DEF MayListen
    <3>2. /\ Sigs({}, ts \ {s}, ms) /\ Timers(timer["mac"], "TRACK_TIMEOUT", Off, RXD)
          /\ RadioUses' /\ TrackerUses' /\ EngineReceives' /\ EngineSends'
      BY <1>1, <2>1, <2>2, <3>1, TrackerListens
    <3>3. Typed'
      BY <1>1, <2>1, <2>2, <2>3, <3>1, <3>2
         DEF Typed, Sigs, Timers, RadioState, RlcSignals, Listening, RXD
    <3> QED
      BY <2>2, <3>2, <3>3 DEF Users
  <2>5. CASE ~MustReceive(allow_tx)
    <3>1. /\ Sigs({}, ts \ {s}, ms)
          /\ Timers(timer["mac"], timer["tracker"], "TRACK_BEACON", timer["rlc"])
          /\ UNCHANGED <<radio, caller>>
      BY <1>1, <2>1, <2>5, TrackerTakesIt, TimersNow
    <3>2. Typed'
      BY <1>1, <2>1, <2>2, <2>3, <3>1 DEF Typed, Sigs, Timers
    <3>3. RadioUses'
      BY <1>1, <3>1 DEF RadioUses, Sigs, Timers
    <3>4. TrackerUses'
      BY <1>1, <2>1, <3>1 DEF TrackerUses, Sigs, Timers
    <3>5. EngineReceives' /\ EngineSends'
      <4>1. ms' = ms \cup {} /\ timer'["mac"] = timer["mac"] /\ ts' \subseteq ts
        BY <3>1 DEF Sigs, Timers
      <4> QED
        BY <1>1, <2>1, <2>2, <3>1, <4>1, EngineKept
    <3> QED
      BY <2>2, <3>2, <3>3, <3>4, <3>5 DEF Users
  <2> QED
    BY <2>4, <2>5
<1> QED
  BY <1>2, <1>3

LEMMA TrackingLostUsers ==
    ASSUME Users, NEW s, rs = {}, "TRACK_BEACON" \notin ts, radio \in {"IDLE", "RX"},
           TrackingLost(s), UNCHANGED <<halted, calm, overtaken>>
    PROVE  Users'
<1>1. /\ Typed /\ Stored /\ Late /\ RadioUses /\ EngineReceives /\ EngineSends
      /\ Sigs({}, ts \ {s}, ms \cup {"TRACK_LOST_BEACON"})
      /\ Timers(timer["mac"], "BEGIN_TRACK_SEARCH", Off, RlcStopped)
      /\ tracker' = "BCN_TRACKING_SEARCH" /\ radio' = "IDLE"
      /\ UNCHANGED <<mac, caller, rx_buffer, bcn, expected, join_req, pending, waiting, tx_due,
                     halted, calm, overtaken>>
  BY TrackerTakesIt, TimersAfterStop DEF TrackingLost, frames, Users
<1>2. /\ RlcStopped \in {Off} \cup RlcSignals /\ RlcStopped # RXD
      /\ RlcStopped \in {Off, "TX_RAND_WAIT_TIMEOUT", RXD}
  BY <1>1 DEF RlcStopped, Typed, RadioUses, RXD, Off
<1>3. Typed'
  BY <1>1, <1>2 DEF Typed, Sigs, Timers, TrackerState, RadioState, MacSignals, Reports
<1>4. Stored' /\ Late'
  BY <1>1, StoredKept
<1>5. RadioUses'
  BY <1>1, <1>2 DEF RadioUses, Sigs, Timers, RXD
<1>6. TrackerUses'
  BY <1>1 DEF TrackerUses, Sigs, Timers
<1>7. EngineReceives' /\ EngineSends'
  <2>1. {"TRACK_LOST_BEACON"} \cap ({"SEND_FRAME", "RECV_FRAME", DUR} \cup Results) = {}
    BY DEF DUR, Results
  <2>2. /\ radio \notin Sending /\ radio' \notin Sending /\ radio' # "RX"
        /\ timer'["mac"] = timer["mac"] /\ ms' = ms \cup {"TRACK_LOST_BEACON"}
    BY <1>1 DEF Sending, Sigs, Timers
  <2> QED
    BY <1>1, <2>1, <2>2, EngineKept
<1> QED
  BY <1>3, <1>4, <1>5, <1>6, <1>7 DEF Users

LEMMA LosingUsers ==
    ASSUME Users, TrackTimeout \/ TrackRxDurationTimeout
    PROVE  Users'
<1>1. PICK s \in {"TRACK_TIMEOUT", DUR} : TrackerTakes("BCN_TRACKING", s)
  BY DEF TrackTimeout, TrackRxDurationTimeout, DUR
<1>2. rs = {} /\ "TRACK_BEACON" \notin ts
  BY <1>1, TrackerTakesOne, BeaconFirst DEF TrackerTakes, ts
<1>3. CASE TrackTimeout
  BY <1>2, <1>3, TrackingLostUsers, UsersHalt DEF TrackTimeout, Asserting, MayStop, Reason
<1>4. CASE TrackRxDurationTimeout
  <2>1. radio \in {"IDLE", "RX"}
    BY <1>4, TrackerTakesOne, NotSending DEF TrackRxDurationTimeout, DUR
  <2> QED
    BY <1>2, <1>4, <2>1, TrackingLostUsers DEF TrackRxDurationTimeout
<1> QED
  BY <1>3, <1>4

LEMMA BeginSearchUsers ==
    ASSUME Users, BeginTrackSearch
    PROVE  Users'
<1> DEFINE s == "BEGIN_TRACK_SEARCH"
           b == "TRACK_SEARCH_TIMEOUT"
<1>1. /\ Typed /\ Stored /\ Late /\ rs = {} /\ tracker = "BCN_TRACKING_SEARCH" /\ Running
  BY TrackerTakesOne DEF BeginTrackSearch, Users
<1>2. "TRACK_BEACON" \notin ts /\ timer["periodic"] = Off
  BY <1>1, NoBeaconDue
<1>3. CASE Halt("Assertion")
  BY <1>3, UsersHalt DEF Reason
<1>4. CASE ~Halt("Assertion")
  <2>1. /\ MayStop /\ Signals("btracker", s, NoneRaised)
        /\ Listening("btracker", AfterStop, "tracker", b)
        /\ UNCHANGED <<mac, tracker, rx_buffer, bcn, expected, join_req, pending, waiting, tx_due,
                       halted, calm, overtaken>>
    BY <1>4 DEF BeginTrackSearch, Asserting, MayListen, frames
  <2>2. /\ Sigs({}, ts \ {s}, ms) /\ Timers(timer["mac"], b, Off, RXD)
        /\ RadioUses' /\ TrackerUses' /\ EngineReceives' /\ EngineSends'
    BY <1>1, <1>2, <2>1, TrackerListens
  <2>3. Typed'
    BY <1>1, <2>1, <2>2 DEF Typed, Sigs, Timers, RadioState, RlcSignals, Listening, RXD
  <2>4. Stored' /\ Late'
    BY <1>1, <2>1, StoredKept
  <2> QED
    BY <2>2, <2>3, <2>4 DEF Users
<1> QED
  BY <1>3, <1>4

LEMMA BeaconTrackerUsers ==
    ASSUME Users, BeaconTracker
    PROVE  Users'
<1>1. TrackerWrongSignal => Users'
  BY UsersHalt DEF TrackerWrongSignal, Reason
<1>2. ASSUME BtrackerInitFinished PROVE Users'
  <2>1. /\ Typed /\ Stored /\ Late /\ RadioUses /\ TrackerUses /\ EngineReceives /\ EngineSends
        /\ rs = {} /\ Sigs({}, ts \ {"INIT_FINISHED"}, ms) /\ UNCHANGED timer
        /\ UNCHANGED <<mac, tracker, radio, caller, rx_buffer, bcn, expected,
                       join_req, pending, waiting, tx_due, halted, calm, overtaken>>
    BY <1>2, TrackerTakesOne, TrackerTakesIt DEF BtrackerInitFinished, frames, Users
  <2>2. Typed'
    BY <2>1 DEF Typed, Sigs
  <2>3. Stored' /\ Late'
    BY <2>1, StoredKept
  <2>4. RadioUses' /\ TrackerUses'
    BY <2>1 DEF RadioUses, TrackerUses, Sigs
  <2>5. EngineReceives' /\ EngineSends'
    <3>1. ms' = ms \cup {} /\ ts' \subseteq ts
      BY <2>1 DEF Sigs
    <3> QED
      BY <2>1, <3>1, EngineKept
  <2> QED
    BY <2>2, <2>3, <2>4, <2>5 DEF Users
<1>3. SearchRxOk \/ TrackRxOk \/ TrackSearchRxOk => Users'
  BY RxOkUsers DEF SearchRxOk, TrackRxOk, TrackSearchRxOk
<1> QED
  BY <1>1, <1>2, <1>3, GivingUpUsers, BeginTrackingUsers, TrackBeaconUsers, LosingUsers,
     BeginSearchUsers DEF BeaconTracker

----------------------------------------------------------------------------
(* The engine's steps                                                     *)

\* What every step of the engine leaves to the others.
MacStep(m, t) ==
    /\ rs = {} /\ ts = {} /\ rs' = {} /\ ts' \subseteq {"BEGIN_BEACON_TRACKING"}
    /\ timer'["mac"] = m /\ timer'["periodic"] = timer["periodic"] /\ timer'["rlc"] = t
    /\ UNCHANGED <<tracker, caller>>

LEMMA RadioStays ==
    ASSUME Users, NEW m, NEW t, MacStep(m, t), radio' = radio \/ radio' = "IDLE",
           (t = timer["rlc"] /\ radio' = radio) \/ t \in {Off, "TX_RAND_WAIT_TIMEOUT"}
    PROVE  RadioUses' /\ TrackerUses'
<1>1. RadioUses'
  BY DEF Users, RadioUses, MacStep, RXD, Off
<1>2. TrackerUses'
  BY TrackerKept DEF Users, MacStep
<1> QED
  BY <1>1, <1>2

\* From a state in which the engine does not use the radio.
LEMMA EngineBegins ==
    ASSUME Users, mac \notin Transmitting \cup Receiving, UNCHANGED radio,
           NEW m, MacStep(m, timer["rlc"]),
           m = "SEND_FRAME" <=> mac' \in Transmitting,
           ms' \subseteq ms \cup {"SEARCH_BEACON"}
    PROVE  RadioUses' /\ TrackerUses' /\ EngineReceives' /\ EngineSends'
<1>1. radio \notin Sending /\ ~(radio = "RX" /\ caller = "mac_engine") /\ ~ToSend /\ ~Sent
  BY EngineRests DEF Users
<1>2. RadioUses' /\ TrackerUses'
  BY RadioStays
<1>3. /\ "SEND_FRAME" \notin ms' /\ ~Sent'
      /\ "RECV_FRAME" \in ms' => DUR \notin ms'
  BY <1>1 DEF ToSend, Sent, Results, Users, EngineReceives, DUR
<1>4. EngineReceives'
  BY <1>1, <1>3 DEF EngineReceives, MacStep
<1>5. EngineSends'
  BY <1>1, <1>3 DEF EngineSends, ToSend, MacStep
<1> QED
  BY <1>2, <1>4, <1>5

\* The engine is done with the radio.
LEMMA EngineEnds ==
    ASSUME Users, mac' \notin Transmitting, radio' \in {"IDLE", "RX"},
           radio' = radio \/ radio' = "IDLE", ~(radio' = "RX" /\ caller = "mac_engine"),
           NEW m, NEW t, MacStep(m, t),
           (t = timer["rlc"] /\ radio' = radio) \/ t \in {Off, "TX_RAND_WAIT_TIMEOUT"},
           m # "SEND_FRAME", ms' \subseteq ms, "SEND_FRAME" \notin ms', ms' \cap Results = {}
    PROVE  RadioUses' /\ TrackerUses' /\ EngineReceives' /\ EngineSends'
<1>1. RadioUses' /\ TrackerUses'
  BY RadioStays
<1>2. EngineReceives' /\ EngineSends'
  BY EngineGoesOn DEF MacStep, ToSend, Sent, Sending, Users, EngineReceives
<1> QED
  BY <1>1, <1>2

LEMMA AttemptUsers ==
    ASSUME Users, MacInitFinished \/ BeaconNotFound
    PROVE  Users'
<1>1. CASE Halt("Assertion")
  BY <1>1, UsersHalt DEF Reason
<1>2. CASE ~Halt("Assertion")
  <2>1. PICK s \in {"INIT_FINISHED", "BEACON_NOT_FOUND"}, state \in {"INITED", "SEARCH_BEACON"} :
          /\ MacTakes(state, s) /\ Signals("mac_engine", s, NoneRaised) /\ DelayedStartJoining(timer)
          /\ UNCHANGED <<tracker, radio, caller, rx_buffer, bcn, expected, join_req, pending, waiting,
                         tx_due, halted, calm, overtaken>>
    BY <1>2 DEF MacInitFinished, BeaconNotFound, Asserting, frames
  <2>2. Typed /\ Stored /\ Late /\ rs = {} /\ ts = {} /\ mac = state
    BY <2>1, MacTakesOne DEF Users
  <2>3. /\ Sigs({}, {}, ms \ {s}) /\ mac' = "INITED"
        /\ Timers("START_JOINING", timer["tracker"], timer["periodic"], timer["rlc"])
    BY <2>1, <2>2, MacTakesIt, TimersNow DEF DelayedStartJoining
  <2>4. Typed'
    BY <2>1, <2>2, <2>3 DEF Typed, Sigs, Timers
  <2>5. Stored' /\ Late'
    BY <2>1, <2>2, <2>3, StoredKept DEF Joined, Stored, Joining
  <2>6. RadioUses' /\ TrackerUses' /\ EngineReceives' /\ EngineSends'
    <3>1. /\ MacStep("START_JOINING", timer["rlc"]) /\ ms' \subseteq ms \cup {"SEARCH_BEACON"}
          /\ mac \notin Transmitting \cup Receiving /\ mac' \notin Transmitting
      BY <2>1, <2>2, <2>3 DEF MacStep, Sigs, Timers, Transmitting, Receiving
    <3> QED
      BY <2>1, <3>1, EngineBegins
  <2> QED
    BY <2>4, <2>5, <2>6 DEF Users
<1> QED
  BY <1>1, <1>2

LEMMA StartJoiningUsers ==
    ASSUME Users, StartJoining
    PROVE  Users'
<1> DEFINE s == "START_JOINING"
<1>1. Typed /\ Stored /\ Late /\ rs = {} /\ ts = {} /\ mac = "INITED"
  BY MacTakesOne DEF StartJoining, Users
<1>2. /\ Sigs({}, {}, (ms \ {s}) \cup {"SEARCH_BEACON"}) /\ mac' = "SEARCH_BEACON"
      /\ Timers(timer["mac"], timer["tracker"], timer["periodic"], timer["rlc"])
      /\ UNCHANGED <<tracker, radio, caller, rx_buffer, bcn, expected, join_req, pending, waiting,
                     tx_due, halted, calm, overtaken>>
  BY <1>1, MacTakesIt, TimersNow DEF StartJoining, frames
<1>3. Typed'
  BY <1>1, <1>2 DEF Typed, Sigs, Timers, Joining, MacSignals
<1>4. Stored' /\ Late'
  BY <1>1, <1>2, StoredKept DEF Joined, Stored, Joining
<1>5. RadioUses' /\ TrackerUses' /\ EngineReceives' /\ EngineSends'
  <2>1. /\ MacStep(timer["mac"], timer["rlc"]) /\ ms' \subseteq ms \cup {"SEARCH_BEACON"}
        /\ mac \notin Transmitting \cup Receiving /\ mac' \notin Transmitting
    BY <1>1, <1>2 DEF MacStep, Sigs, Timers, Transmitting, Receiving
  <2>2. timer["mac"] # "SEND_FRAME"
    BY <2>1, EngineRests DEF Users, ToSend
  <2> QED
    BY <1>2, <2>1, <2>2, EngineBegins
<1> QED
  BY <1>3, <1>4, <1>5 DEF Users

LEMMA SearchBeaconUsers ==
    ASSUME Users, SearchBeacon
    PROVE  Users'
<1> DEFINE s == "SEARCH_BEACON"
<1>1. /\ Typed /\ Stored /\ Late /\ EngineReceives /\ EngineSends
      /\ rs = {} /\ ts = {} /\ mac = "SEARCH_BEACON"
  BY MacTakesOne DEF SearchBeacon, Users
<1>2. CASE \E reason \in {"Assertion", "SearchNotFromInited"} : Halt(reason)
  BY <1>2, UsersHalt DEF Reason
<1>3. CASE ~\E reason \in {"Assertion", "SearchNotFromInited"} : Halt(reason)
  <2>1. /\ Signals("mac_engine", s, NoneRaised) /\ tracker = "INITED"
        /\ Listening("btracker", AfterStop, "tracker", "SEARCH_TIMEOUT")
        /\ tracker' = "SEARCH_BEACON"
        /\ UNCHANGED <<mac, rx_buffer, bcn, expected, join_req, pending, waiting, tx_due,
                       halted, calm, overtaken>>
    BY <1>3 DEF SearchBeacon, Asserting, frames
  <2>2. /\ Sigs({}, {}, ms \ {s}) /\ radio' = "RX" /\ caller' = "btracker"
        /\ Timers(timer["mac"], "SEARCH_TIMEOUT", timer["periodic"], RXD)
    BY <1>1, <2>1, MacTakesIt, TimersAfterStop DEF Listening, RXD
  <2>3. timer["periodic"] = Off
    BY <2>1, NoBeaconDue
  <2>4. Typed'
    BY <1>1, <2>1, <2>2 DEF Typed, Sigs, Timers, RadioState, TrackerState, RlcSignals, RXD
  <2>5. Stored' /\ Late'
    BY <1>1, <2>1, StoredKept
  <2>6. RadioUses' /\ TrackerUses'
    BY <2>1, <2>2, <2>3 DEF RadioUses, TrackerUses, Sigs, Timers
  <2>7. EngineReceives' /\ EngineSends'
    <3>1. ~ToSend /\ ~Sent /\ mac \notin Transmitting
      BY <1>1, EngineRests DEF Transmitting, Receiving
    <3>2. /\ mac' \notin Transmitting /\ radio' \notin Sending /\ ~ToSend' /\ ~Sent'
          /\ "RECV_FRAME" \in ms' => DUR \notin ms'
      BY <1>1, <2>1, <2>2, <3>1 DEF Sending, ToSend, Sent, Sigs, Timers, EngineReceives
    <3> QED
      BY <2>2, <3>2, EngineGoesOn
  <2> QED
    BY <2>4, <2>5, <2>6, <2>7 DEF Users
<1> QED
  BY <1>2, <1>3

LEMMA BeaconFoundUsers ==
    ASSUME Users, BeaconFound
    PROVE  Users'
<1> DEFINE s == "BEACON_FOUND"
<1>1. /\ Typed /\ Stored /\ Late /\ RadioUses /\ EngineReceives /\ EngineSends
      /\ rs = {} /\ ts = {} /\ mac = "SEARCH_BEACON" /\ mac \notin Transmitting \cup Receiving
  BY MacTakesOne DEF BeaconFound, Users, Transmitting, Receiving
<1>2. waiting = {} /\ mac \notin Joined
  BY <1>1 DEF Stored, Joining, Joined
<1>3. CASE Halt("Assertion")
  BY <1>3, UsersHalt DEF Reason
<1>4. CASE bcn.is_join_allowed
  <2>1. /\ Sigs({}, {"BEGIN_BEACON_TRACKING"}, ms \ {s}) /\ mac' = "BEACON_FOUND"
        /\ Timers(timer["mac"], timer["tracker"], timer["periodic"], timer["rlc"])
        /\ join_req' = [has_join_req |-> TRUE, has_been_tx |-> FALSE, due |-> 0]
        /\ UNCHANGED <<tracker, radio, caller, rx_buffer, bcn, expected, pending, waiting, tx_due,
                       halted, calm, overtaken>>
    <3>1. Signals("mac_engine", s, ToTracker("BEGIN_BEACON_TRACKING"))
      BY <1>4 DEF BeaconFound
    <3>2. Sigs(rs, ts \cup {"BEGIN_BEACON_TRACKING"}, ms \ {s})
      BY <3>1, MacTakesIt
    <3>3. ts \cup {"BEGIN_BEACON_TRACKING"} = {"BEGIN_BEACON_TRACKING"}
      BY <1>1
    <3> QED
      BY <1>1, <1>4, <3>2, <3>3, TimersNow DEF BeaconFound
  <2>2. Typed'
    <3>1. join_req' \in JoinReq
      BY <2>1, DeviceMacAssumption DEF JoinReq, Due
    <3> QED
      BY <1>1, <2>1, <3>1 DEF Typed, Sigs, Timers, Joining, TrackerSignals
  <2>3. Stored' /\ Late'
    BY <1>1, <1>2, <2>1 DEF Stored, Late, Joined
  <2>4. RadioUses' /\ TrackerUses' /\ EngineReceives' /\ EngineSends'
    <3>1. /\ MacStep(timer["mac"], timer["rlc"]) /\ ms' \subseteq ms \cup {"SEARCH_BEACON"}
          /\ mac' \notin Transmitting
      BY <1>1, <2>1 DEF MacStep, Sigs, Timers, Transmitting
    <3>2. timer["mac"] # "SEND_FRAME"
      BY <1>1, EngineRests DEF ToSend
    <3> QED
      BY <1>1, <2>1, <3>1, <3>2, EngineBegins
  <2> QED
    BY <2>2, <2>3, <2>4 DEF Users
<1>5. CASE ~bcn.is_join_allowed /\ ~Halt("Assertion")
  <2>1. /\ Signals("mac_engine", s, NoneRaised) /\ tracker' = "INITED" /\ radio' = "IDLE"
        /\ mac' = "INITED"
        /\ timer' = Started(Stopped(timer, {"tracker", "periodic", "rlc"}), "mac", "START_JOINING")
        /\ UNCHANGED <<caller, rx_buffer, bcn, expected, join_req, pending, waiting, tx_due,
                       halted, calm, overtaken>>
    BY <1>5 DEF BeaconFound, Asserting, DelayedStartJoining, frames
  <2>2. Sigs({}, {}, ms \ {s}) /\ Timers("START_JOINING", Off, Off, Off)
    BY <1>1, <2>1, MacTakesIt, TimersNow
  <2>3. Typed'
    BY <1>1, <2>1, <2>2 DEF Typed, Sigs, Timers, TrackerState, RadioState
  <2>4. Stored' /\ Late'
    BY <1>1, <1>2, <2>1, StoredKept DEF Joined
  <2>5. RadioUses' /\ TrackerUses'
    BY <2>1, <2>2 DEF RadioUses, TrackerUses, Sigs, Timers, RXD, Off
  <2>6. EngineReceives' /\ EngineSends'
    <3>1. ~ToSend /\ ~Sent
      BY <1>1, EngineRests
    <3>2. /\ mac' \notin Transmitting /\ radio' \notin Sending /\ ~ToSend' /\ ~Sent' /\ radio' # "RX"
          /\ "RECV_FRAME" \in ms' => DUR \notin ms'
      BY <1>1, <2>1, <2>2, <3>1
         DEF Sending, Transmitting, ToSend, Sent, Sigs, Timers, EngineReceives
    <3> QED
      BY <3>2, EngineGoesOn
  <2> QED
    BY <2>3, <2>4, <2>5, <2>6 DEF Users
<1> QED
  BY <1>3, <1>4, <1>5

\* What the engine makes of a report of the tracker: it goes on, waits for its
\* part of the period, or starts again.
LEMMA AnswersUsers ==
    ASSUME Users, rs = {}, ts = {}, mac \in {"BEACON_FOUND", "IDLE"},
           NEW s, Signals("mac_engine", s, NoneRaised),
           AnswersBeacon \/ DelayedStartJoining(timer),
           UNCHANGED <<tracker, radio, caller, rx_buffer, bcn, expected, tx_due, halted, calm, overtaken>>,
           Stored', join_req' \in JoinReq, pending' \in 0..MaxMsgs, waiting' \subseteq Due \cup {-1}
    PROVE  Users'
<1>1. Typed /\ Late /\ EngineReceives /\ EngineSends /\ mac \notin Transmitting \cup Receiving
  BY DEF Users, Transmitting, Receiving
<1>2. PICK m \in {timer["mac"], "RECV_FRAME", "SEND_FRAME", "START_JOINING"} :
          /\ Timers(m, timer["tracker"], timer["periodic"], timer["rlc"])
          /\ m = "SEND_FRAME" <=> mac' \in Transmitting
          /\ mac' \in {"INITED"} \cup Joining \cup Joined
  <2>1. timer["mac"] # "SEND_FRAME"
    BY <1>1, EngineRests DEF ToSend
  <2>2. CASE mac' = mac /\ UNCHANGED timer
    BY <1>1, <2>1, <2>2, TimersNow DEF Joining, Joined
  <2>3. CASE mac' \in Receiving /\ timer' = Started(timer, "mac", "RECV_FRAME")
    BY <1>1, <2>3, TimersNow DEF Receiving, Transmitting, Joining, Joined
  <2>4. CASE mac' \in Transmitting /\ timer' = Started(timer, "mac", "SEND_FRAME")
    BY <1>1, <2>4, TimersNow DEF Transmitting, Joining, Joined
  <2>5. CASE DelayedStartJoining(timer)
    BY <1>1, <2>5, TimersNow DEF Transmitting, DelayedStartJoining
  <2> QED
    BY <2>2, <2>3, <2>4, <2>5 DEF AnswersBeacon
<1>3. Sigs({}, {}, ms \ {s})
  BY MacTakesIt
<1>4. Typed'
  BY <1>1, <1>2, <1>3 DEF Typed, Sigs, Timers
<1>5. Late'
  BY <1>1 DEF Late
<1>6. RadioUses' /\ TrackerUses' /\ EngineReceives' /\ EngineSends'
  <2>1. MacStep(m, timer["rlc"]) /\ ms' \subseteq ms \cup {"SEARCH_BEACON"}
    BY <1>2, <1>3 DEF MacStep, Sigs, Timers
  <2> QED
    BY <1>1, <1>2, <2>1, EngineBegins
<1> QED
  BY <1>4, <1>5, <1>6 DEF Users

LEMMA TrackedWhileJoiningUsers ==
    ASSUME Users, TrackedWhileJoining
    PROVE  Users'
<1> DEFINE s == "BEACON_TRACKED"
<1>1. Typed /\ Stored /\ rs = {} /\ ts = {} /\ mac = "BEACON_FOUND"
  BY MacTakesOne DEF TrackedWhileJoining, Users
<1>2. waiting = {} /\ join_req \in JoinReq /\ mac \notin Joined
  BY <1>1 DEF Stored, Typed, Joining, Joined
<1>3. CASE Halt("Assertion")
  BY <1>3, UsersHalt DEF Reason
<1>4. CASE ~Halt("Assertion")
  <2>1. /\ Signals("mac_engine", s, NoneRaised)
        /\ UNCHANGED <<tracker, radio, caller, rx_buffer, bcn, expected, pending, waiting, tx_due,
                       halted, calm, overtaken>>
        /\ \/ /\ join_req' = [join_req EXCEPT !.has_been_tx = FALSE]
              /\ DelayedTo("RX_JOIN_CONFIRM", "RECV_FRAME") \/ StaysIn(mac)
           \/ /\ UNCHANGED join_req
              /\ \/ has_pending_join_req /\ DelayedTo("TX_JOIN_REQ", "SEND_FRAME")
                 \/ StaysIn(mac)
    BY <1>4 DEF TrackedWhileJoining, Asserting
  <2>2. AnswersBeacon
    BY <1>1, <2>1
       DEF AnswersBeacon, DelayedTo, StaysIn, Receiving, Transmitting, has_pending_join_req
  <2>3. join_req' \in JoinReq
    BY <1>2, <2>1 DEF JoinReq
  <2>4. Stored'
    BY <1>1, <1>2, <2>1 DEF Stored, DelayedTo, StaysIn, Joined
  <2>5. pending' \in 0..MaxMsgs /\ waiting' \subseteq Due \cup {-1}
    BY <1>1, <2>1 DEF Typed
  <2> QED
    BY <1>1, <2>1, <2>2, <2>3, <2>4, <2>5, AnswersUsers
<1> QED
  BY <1>3, <1>4

LEMMA TrackedWhileJoinedUsers ==
    ASSUME Users, TrackedWhileJoined
    PROVE  Users'
<1> DEFINE s == "BEACON_TRACKED"
<1>1. Typed /\ Stored /\ rs = {} /\ ts = {} /\ mac = "IDLE"
  BY MacTakesOne DEF TrackedWhileJoined, Users
<1>2. CASE Halt("Assertion")
  BY <1>2, UsersHalt DEF Reason
<1>3. CASE ~Halt("Assertion")
  <2>1. /\ Signals("mac_engine", s, NoneRaised) /\ check_ack
        /\ UNCHANGED <<tracker, radio, caller, rx_buffer, bcn, expected, join_req, tx_due,
                       halted, calm, overtaken>>
        /\ \/ DelayedTo("RX_FRAME", "RECV_FRAME")
           \/ DelayedTo("TX_FRAME", "SEND_FRAME")
           \/ StaysIn(mac)
    BY <1>3 DEF TrackedWhileJoined, Asserting
  <2>2. AnswersBeacon
    BY <1>1, <2>1 DEF AnswersBeacon, DelayedTo, StaysIn, Receiving, Transmitting
  <2>3. /\ waiting' \subseteq waiting /\ IsFiniteSet(waiting')
        /\ pending' \in Nat /\ pending' + Cardinality(waiting') <= MaxMsgs
        /\ Cardinality(waiting') \in Nat
    BY <1>1, <2>1, CheckedFrames DEF Stored
  <2>4. mac' \in Joined /\ ~join_req.has_join_req
    BY <1>1, <2>1 DEF DelayedTo, StaysIn, Joined, Stored
  <2>5. Stored'
    BY <2>1, <2>3, <2>4 DEF Stored, Joined, Joining
  <2>6. join_req' \in JoinReq /\ pending' \in 0..MaxMsgs /\ waiting' \subseteq Due \cup {-1}
    BY <1>1, <2>1, <2>3, DeviceMacAssumption DEF Typed
  <2> QED
    BY <1>1, <2>1, <2>2, <2>5, <2>6, AnswersUsers
<1> QED
  BY <1>2, <1>3

LEMMA LostBeaconUsers ==
    ASSUME Users, LostBeacon \/ TrackFailed
    PROVE  Users'
<1>1. PICK state \in {"BEACON_FOUND", "IDLE"}, s \in {"TRACK_LOST_BEACON", "TRACK_FAILED"} :
          MacTakes(state, s)
  BY DEF LostBeacon, TrackFailed
<1>2. Typed /\ Stored /\ rs = {} /\ ts = {} /\ mac \in {"BEACON_FOUND", "IDLE"}
  BY <1>1, MacTakesOne DEF Users
<1>3. CASE Halt("Assertion")
  BY <1>3, UsersHalt DEF Reason
<1>4. CASE ~Halt("Assertion")
  <2>1. PICK u : Signals("mac_engine", u, NoneRaised)
    BY <1>4 DEF LostBeacon, TrackFailed, Asserting
  <2>2. /\ handle_lost_beacon
        /\ (mac' = mac /\ UNCHANGED timer) \/ DelayedStartJoining(timer)
        /\ UNCHANGED <<tracker, radio, caller, rx_buffer, bcn, expected, halted, calm, overtaken>>
    BY <1>4 DEF LostBeacon, TrackFailed, Asserting
  <2>3. /\ waiting' = {} /\ IsFiniteSet(waiting') /\ pending' \in 0..MaxMsgs
        /\ pending' + Cardinality(waiting') <= MaxMsgs /\ join_req' \in JoinReq
        /\ join_req' = join_req \/ join_req' = [join_req EXCEPT !.has_been_tx = FALSE]
        /\ tx_due' = tx_due
    BY <1>2, <2>2, LostStored
  <2>4. join_req'.has_join_req = join_req.has_join_req
    BY <1>2, <2>3 DEF Typed, JoinReq
  <2>5. mac' = mac \/ mac' \notin Joined
    BY <2>2 DEF DelayedStartJoining, Joined
  <2>6. Stored'
    BY <1>2, <2>3, <2>4, <2>5 DEF Stored
  <2>7. AnswersBeacon \/ DelayedStartJoining(timer)
    BY <1>2, <2>2 DEF AnswersBeacon
  <2> QED
    BY <1>2, <2>1, <2>2, <2>3, <2>6, <2>7, AnswersUsers
<1> QED
  BY <1>3, <1>4

\* The engine has its frame sent.
LEMMA SendsItUsers ==
    ASSUME Users, rs = {}, ts = {}, "SEND_FRAME" \in ms, radio = "IDLE",
           Signals("mac_engine", "SEND_FRAME", ToRlc("TX_START")),
           caller' = "mac_engine", radio' = "TX", mac = "TX_FRAME" => pending > 0,
           UNCHANGED <<mac, tracker, timer, pending>>
    PROVE  /\ Sigs({"TX_START"}, {}, ms \ {"SEND_FRAME"})
           /\ RadioUses' /\ TrackerUses' /\ EngineReceives' /\ EngineSends'
<1> DEFINE s == "SEND_FRAME"
<1>1. RadioUses /\ TrackerUses /\ EngineReceives /\ EngineSends
  BY DEF Users
<1>2. Sigs({"TX_START"}, {}, ms \ {s})
  <2>1. Sigs(rs \cup {"TX_START"}, ts, ms \ {s}) /\ rs \cup {"TX_START"} = {"TX_START"}
    BY MacTakesIt
  <2> QED
    BY <2>1
<1>3. RadioUses'
  BY <1>1, <1>2 DEF RadioUses, Sigs, RXD
<1>4. TrackerUses'
  BY <1>1, <1>2, TrackerKept DEF Sigs
<1>5. mac \in Transmitting /\ ~Sent /\ timer["mac"] # s
  BY <1>1 DEF EngineSends, ToSend
<1>6. ~ToSend' /\ ~Sent'
  BY <1>2, <1>5 DEF ToSend, Sent, Sigs
<1>7. EngineReceives'
  BY <1>1, <1>2 DEF EngineReceives, Sigs
<1>8. EngineSends'
  BY <1>1, <1>2, <1>5, <1>6 DEF EngineSends, Sigs, Sending, ToSend
<1> QED
  BY <1>2, <1>3, <1>4, <1>7, <1>8

LEMMA SendFrameUsers ==
    ASSUME Users, SendFrame
    PROVE  Users'
<1> DEFINE s == "SEND_FRAME"
<1>1. /\ Typed /\ Stored /\ Late /\ EngineReceives /\ EngineSends
      /\ rs = {} /\ ts = {} /\ s \in ms /\ mac \in Transmitting
  BY MacTakesOne DEF SendFrame, Users
<1>2. ToSend /\ ~Sent /\ timer["mac"] # s /\ radio \notin Sending
  BY <1>1 DEF EngineSends, ToSend
<1>3. CASE Halt("Assertion")
  BY <1>3, UsersHalt DEF Reason
<1>4. CASE mac = "TX_FRAME" /\ pending = 0
  <2>1. /\ Sigs({}, {}, ms \ {s}) /\ mac' = "IDLE"
        /\ Timers(timer["mac"], timer["tracker"], timer["periodic"], timer["rlc"])
        /\ UNCHANGED <<tracker, radio, caller, rx_buffer, bcn, expected, join_req, pending, waiting,
                       tx_due, halted, calm, overtaken>>
    BY <1>1, <1>4, MacTakesIt, TimersNow DEF SendFrame, frames
  <2>2. Typed'
    BY <1>1, <2>1 DEF Typed, Sigs, Timers, Joined
  <2>3. Stored' /\ Late'
    BY <1>1, <1>4, <2>1, StoredKept DEF Joined
  <2>4. RadioUses' /\ TrackerUses' /\ EngineReceives' /\ EngineSends'
    <3>1. /\ MacStep(timer["mac"], timer["rlc"]) /\ mac' \notin Transmitting
          /\ radio \in {"IDLE", "RX"} /\ ~(radio = "RX" /\ caller = "mac_engine")
      BY <1>1, <1>2, <2>1
         DEF MacStep, Sigs, Timers, Transmitting, Receiving, EngineReceives, Typed, RadioState
    <3>2. ms' \subseteq ms /\ s \notin ms' /\ ms' \cap Results = {}
      BY <1>2, <2>1 DEF Sigs, Sent
    <3> QED
      BY <1>2, <2>1, <3>1, <3>2, EngineEnds
  <2> QED
    BY <2>2, <2>3, <2>4 DEF Users
<1>5. CASE ~(mac = "TX_FRAME" /\ pending = 0) /\ ~Halt("Assertion")
  <2>1. /\ Signals("mac_engine", s, ToRlc("TX_START")) /\ radio = "IDLE"
        /\ caller' = "mac_engine" /\ radio' = "TX"
        /\ UNCHANGED <<mac, tracker, timer, rx_buffer, bcn, expected, pending, waiting,
                       halted, calm, overtaken>>
        /\ join_req' = join_req \/ join_req' = [join_req EXCEPT !.due = PACKED_ACK_DELAY_NUM]
        /\ tx_due' = tx_due \/ tx_due' = PACKED_ACK_DELAY_NUM
    BY <1>5 DEF SendFrame, Asserting
  <2>2. mac = "TX_FRAME" => pending > 0
    BY <1>1, <1>5 DEF Typed
  <2>3. /\ Sigs({"TX_START"}, {}, ms \ {s})
        /\ RadioUses' /\ TrackerUses' /\ EngineReceives' /\ EngineSends'
    BY <1>1, <2>1, <2>2, SendsItUsers
  <2>4. PACKED_ACK_DELAY_NUM \in Due
    BY DeviceMacAssumption DEF Due
  <2>5. join_req' \in JoinReq /\ join_req'.has_join_req = join_req.has_join_req
    BY <1>1, <2>1, <2>4 DEF Typed, JoinReq
  <2>6. Typed'
    BY <1>1, <2>1, <2>3, <2>5 DEF Typed, Sigs, RadioState, Sending, RlcSignals
  <2>7. Stored' /\ Late'
    BY <1>1, <2>1, <2>4, <2>5 DEF Stored, Late
  <2> QED
    BY <2>3, <2>6, <2>7 DEF Users
<1> QED
  BY <1>3, <1>4, <1>5 DEF SendFrame, Asserting

\* The result of a transmission has come.
LEMMA ResultUsers ==
    ASSUME Users, NEW state \in Transmitting, NEW s \in Results, MacTakes(state, s),
           Signals("mac_engine", s, NoneRaised), mac' \notin Transmitting,
           UNCHANGED <<tracker, radio, caller, timer>>
    PROVE  /\ Sigs({}, {}, ms \ {s}) /\ (mac = "TX_FRAME" => pending > 0)
           /\ RadioUses' /\ TrackerUses' /\ EngineReceives' /\ EngineSends'
<1>1. /\ Typed /\ EngineReceives /\ EngineSends
      /\ rs = {} /\ ts = {} /\ s \in ms /\ mac = state
  BY MacTakesOne DEF Users
<1>2. Sent /\ ~ToSend /\ radio \notin Sending /\ (mac = "TX_FRAME" => pending > 0)
  BY <1>1 DEF EngineSends, Sent
<1>3. (ms \ {s}) \cap Results = {}
  BY <1>1, <1>2 DEF EngineSends
<1>4. Sigs({}, {}, ms \ {s})
      /\ Timers(timer["mac"], timer["tracker"], timer["periodic"], timer["rlc"])
  BY <1>1, MacTakesIt, TimersNow
<1>5. /\ MacStep(timer["mac"], timer["rlc"])
      /\ radio \in {"IDLE", "RX"} /\ ~(radio = "RX" /\ caller = "mac_engine")
  BY <1>1, <1>2, <1>4 DEF MacStep, Sigs, Timers, Transmitting, Receiving, EngineReceives, Typed, RadioState
<1>6. /\ timer["mac"] # "SEND_FRAME" /\ ms' \subseteq ms /\ "SEND_FRAME" \notin ms'
      /\ ms' \cap Results = {}
  BY <1>2, <1>3, <1>4 DEF ToSend, Sigs
<1>7. RadioUses' /\ TrackerUses' /\ EngineReceives' /\ EngineSends'
  BY <1>5, <1>6, EngineEnds
<1> QED
  BY <1>2, <1>4, <1>7

LEMMA TxOkUsers ==
    ASSUME Users, TxOk
    PROVE  Users'
<1> DEFINE s == "RLC_TX_OK"
<1>1. PICK state \in Transmitting : MacTakes(state, s)
  BY DEF TxOk, Transmitting
<1>2. Typed /\ Stored /\ Late /\ mac = state /\ s \in Results
  BY <1>1, MacTakesOne DEF Users, Results
<1>3. /\ Signals("mac_engine", s, NoneRaised) /\ mac' \notin Transmitting
      /\ UNCHANGED <<tracker, radio, caller, timer, rx_buffer, bcn, expected, tx_due,
                     halted, calm, overtaken>>
  BY DEF TxOk, Transmitting
<1>4. /\ Sigs({}, {}, ms \ {s}) /\ (mac = "TX_FRAME" => pending > 0)
      /\ RadioUses' /\ TrackerUses' /\ EngineReceives' /\ EngineSends'
  BY <1>1, <1>2, <1>3, ResultUsers
<1>5. Late'
  BY <1>2, <1>3 DEF Late
<1>6. CASE mac = "TX_JOIN_REQ"
  <2>1. /\ mac' = "BEACON_FOUND" /\ join_req' = [join_req EXCEPT !.has_been_tx = TRUE]
        /\ UNCHANGED <<pending, waiting>>
    BY <1>6 DEF TxOk, MacTakes
  <2>2. join_req' \in JoinReq
    BY <1>2, <2>1 DEF Typed, JoinReq
  <2>3. Typed'
    BY <1>2, <1>3, <1>4, <2>1, <2>2 DEF Typed, Sigs, Joining
  <2>4. Stored'
    BY <1>2, <1>6, <2>1 DEF Stored, Joining, Joined
  <2> QED
    BY <1>4, <1>5, <2>3, <2>4 DEF Users
<1>7. CASE mac = "TX_FRAME"
  <2>1. /\ mac' = "IDLE" /\ pending' = pending - 1 /\ waiting' = waiting \cup {tx_due}
        /\ UNCHANGED join_req
    BY <1>7 DEF TxOk, MacTakes
  <2>2. /\ IsFiniteSet(waiting) /\ Cardinality(waiting) \in Nat /\ pending \in Nat /\ pending > 0
        /\ pending + Cardinality(waiting) <= MaxMsgs
    BY <1>2, <1>4, <1>7, FS_CardinalityType DEF Stored, Typed
  <2>3. /\ IsFiniteSet(waiting') /\ Cardinality(waiting') \in Nat
        /\ Cardinality(waiting') = Cardinality(waiting) \/ Cardinality(waiting') = Cardinality(waiting) + 1
    BY <2>1, <2>2, FS_AddElement, FS_CardinalityType
  <2>4. pending' \in 0..MaxMsgs /\ pending' + Cardinality(waiting') <= MaxMsgs
    BY <2>1, <2>2, <2>3, DeviceMacAssumption
  <2>5. Typed'
    BY <1>2, <1>3, <1>4, <2>1, <2>4 DEF Typed, Sigs, Joined, Late
  <2>6. Stored'
    BY <1>2, <1>7, <2>1, <2>3, <2>4 DEF Stored, Joining, Joined
  <2> QED
    BY <1>4, <1>5, <2>5, <2>6 DEF Users
<1> QED
  BY <1>2, <1>6, <1>7 DEF Transmitting

LEMMA FailedResults == Range(TxFailed) = Results \ {"RLC_TX_OK"}
<1>1. /\ DOMAIN TxFailed = 1..3 /\ TxFailed[1] = "RLC_TX_CCA_FAILED"
      /\ TxFailed[2] = "RLC_TX_CCA_CRC_FAIL" /\ TxFailed[3] = "RLC_TX_TIMEOUT"
  BY DEF TxFailed
<1>2. Range(TxFailed) = {TxFailed[1], TxFailed[2], TxFailed[3]}
  BY <1>1 DEF Range
<1> QED
  BY <1>1, <1>2 DEF Results

LEMMA TxFailureUsers ==
    ASSUME Users, TxFailure
    PROVE  Users'
<1>1. PICK s \in Range(TxFailed) :
        /\ \/ MacTakes("TX_JOIN_REQ", s) /\ mac' = "BEACON_FOUND"
           \/ MacTakes("TX_FRAME", s) /\ mac' = "IDLE"
        /\ Signals("mac_engine", s, NoneRaised)
        /\ UNCHANGED <<tracker, radio, caller, timer, rx_buffer, bcn, expected,
                       join_req, pending, waiting, tx_due, halted, calm, overtaken>>
  BY DEF TxFailure, frames
<1>2. PICK state \in Transmitting : MacTakes(state, s)
  BY <1>1 DEF Transmitting
<1>3. Typed /\ Stored /\ Late /\ mac = state /\ s \in Results /\ mac' \notin Transmitting
  BY <1>1, <1>2, MacTakesOne, FailedResults DEF Users, Transmitting
<1>4. /\ Sigs({}, {}, ms \ {s})
      /\ RadioUses' /\ TrackerUses' /\ EngineReceives' /\ EngineSends'
  BY <1>1, <1>2, <1>3, ResultUsers
<1>5. Typed'
  BY <1>1, <1>3, <1>4 DEF Typed, Sigs, Joined, Joining
<1>6. Stored' /\ Late'
  <2>1. CASE mac = "TX_FRAME"
    <3>1. mac' = "IDLE"
      BY <1>1, <2>1 DEF MacTakes
    <3> QED
      BY <1>1, <1>3, <2>1, <3>1, StoredKept DEF Joined
  <2>2. CASE mac = "TX_JOIN_REQ"
    <3>1. mac' = "BEACON_FOUND"
      BY <1>1, <2>2 DEF MacTakes
    <3> QED
      BY <1>1, <1>3, <2>2, <3>1, StoredKept DEF Stored, Joining, Joined
  <2> QED
    BY <1>3, <2>1, <2>2 DEF Transmitting
<1> QED
  BY <1>4, <1>5, <1>6 DEF Users

LEMMA RecvFrameUsers ==
    ASSUME Users, RecvFrame
    PROVE  Users'
<1> DEFINE s == "RECV_FRAME"
<1>1. /\ Typed /\ Stored /\ Late /\ RadioUses /\ TrackerUses /\ EngineReceives /\ EngineSends
      /\ rs = {} /\ ts = {} /\ s \in ms /\ mac \in Receiving
  BY MacTakesOne DEF RecvFrame, Users
<1>2. CASE Halt("Assertion")
  BY <1>2, UsersHalt DEF Reason
<1>3. CASE ~Halt("Assertion")
  <2>1. /\ Signals("mac_engine", s, NoneRaised) /\ Listening("mac_engine", timer, "mac", "RECV_TIMEOUT")
        /\ UNCHANGED <<mac, tracker, rx_buffer, bcn, expected, join_req, pending, waiting, tx_due,
                       halted, calm, overtaken>>
    BY <1>3 DEF RecvFrame, Asserting, frames
  <2>2. /\ Sigs({}, {}, ms \ {s}) /\ radio' = "RX" /\ caller' = "mac_engine"
        /\ Timers("RECV_TIMEOUT", timer["tracker"], timer["periodic"], RXD)
    BY <1>1, <2>1, MacTakesIt, TimersAfterStop DEF Listening, RXD
  <2>3. Typed'
    BY <1>1, <2>1, <2>2 DEF Typed, Sigs, Timers, RadioState, RlcSignals, RXD
  <2>4. Stored' /\ Late'
    BY <1>1, <2>1, StoredKept
  <2>5. RadioUses'
    BY <2>2 DEF RadioUses, Sigs, Timers
  <2>6. TrackerUses'
    BY <1>1, <2>1, <2>2, TrackerKept DEF Sigs, Timers
  <2>7. EngineReceives'
    BY <1>1, <2>1, <2>2 DEF EngineReceives, Sigs, Timers, DUR
  <2>8. EngineSends'
    <3>1. ~ToSend /\ ~Sent /\ mac \notin Transmitting
      BY <1>1 DEF EngineSends, Transmitting, Receiving
    <3>2. ~ToSend' /\ ~Sent' /\ radio' \notin Sending
      BY <2>2, <3>1 DEF ToSend, Sent, Sigs, Timers, Sending
    <3> QED
      BY <2>1, <3>1, <3>2 DEF EngineSends, ToSend
  <2> QED
    BY <2>3, <2>4, <2>5, <2>6, <2>7, <2>8 DEF Users
<1> QED
  BY <1>2, <1>3

\* The engine stops receiving, or has been told that it has stopped.
LEMMA StopsUsers ==
    ASSUME Users, NEW state \in Receiving, NEW s, MacTakes(state, s),
           Signals("mac_engine", s, NoneRaised), mac' \in {"INITED", "IDLE", "BEACON_FOUND"},
           \/ s = DUR /\ UNCHANGED radio /\ timer' = Stopped(timer, {"mac"})
           \/ radio' = "IDLE" /\ \/ timer' = AfterStop
                                 \/ timer' = Stopped(AfterStop, {"mac"})
                                 \/ timer' = Started(Stopped(AfterStop, {"mac"}), "mac", "START_JOINING"),
           UNCHANGED <<tracker, caller, rx_buffer, bcn, expected, pending, waiting, tx_due,
                       halted, overtaken>>,
           calm' = calm \/ calm' = FALSE, join_req' \in JoinReq, Stored'
    PROVE  Users'
<1>1. /\ Typed /\ Late /\ RadioUses /\ EngineReceives /\ EngineSends
      /\ rs = {} /\ ts = {} /\ s \in ms /\ mac \in Receiving
  BY MacTakesOne DEF Users
<1>2. /\ ~ToSend /\ ~Sent /\ radio \in {"IDLE", "RX"} /\ mac' \notin Transmitting
  BY <1>1 DEF EngineSends, Transmitting, Receiving, Typed, RadioState
<1>3. Sigs({}, {}, ms \ {s})
  BY <1>1, MacTakesIt
<1>4. RlcStopped \in {Off} \cup RlcSignals /\ RlcStopped \in {Off, "TX_RAND_WAIT_TIMEOUT"}
  BY <1>1 DEF RlcStopped, Typed, RadioUses, RXD, Off
<1>5. PICK m \in {timer["mac"], Off, "START_JOINING"},
               t \in {Off} \cup RlcSignals :
          /\ Timers(m, timer["tracker"], timer["periodic"], t)
          /\ (t = timer["rlc"] /\ radio' = radio) \/ t \in {Off, "TX_RAND_WAIT_TIMEOUT"}
  <2>1. CASE UNCHANGED radio /\ timer' = Stopped(timer, {"mac"})
    <3>1. Timers(Off, timer["tracker"], timer["periodic"], timer["rlc"])
      BY <1>1, <2>1, TimersNow
    <3>2. timer["rlc"] \in {Off} \cup RlcSignals
      BY <1>1 DEF Typed
    <3> QED
      BY <2>1, <3>1, <3>2
  <2>2. CASE timer' = AfterStop
    BY <1>1, <1>4, <2>2, TimersAfterStop
  <2>3. CASE timer' = Stopped(AfterStop, {"mac"})
    BY <1>1, <1>4, <2>3, TimersAfterStop
  <2>4. CASE timer' = Started(Stopped(AfterStop, {"mac"}), "mac", "START_JOINING")
    BY <1>1, <1>4, <2>4, TimersAfterStop
  <2> QED
    BY <2>1, <2>2, <2>3, <2>4
<1>6. Typed'
  BY <1>1, <1>3, <1>5 DEF Typed, Sigs, Timers, RadioState, Joined, Joining
<1>7. Late'
  BY <1>1 DEF Late
<1>8. RadioUses' /\ TrackerUses' /\ EngineReceives' /\ EngineSends'
  <2>1. /\ MacStep(m, t) /\ m # "SEND_FRAME"
        /\ ms' \subseteq ms /\ "SEND_FRAME" \notin ms' /\ ms' \cap Results = {}
    BY <1>1, <1>2, <1>3, <1>5 DEF MacStep, Sigs, Timers, ToSend, Sent, Off
  <2>2. radio' \in {"IDLE", "RX"} /\ (radio' = radio \/ radio' = "IDLE")
    BY <1>2
  <2>3. ~(radio' = "RX" /\ caller = "mac_engine")
    BY <1>1 DEF EngineReceives
  <2> QED
    BY <1>2, <1>5, <2>1, <2>2, <2>3, EngineEnds
<1> QED
  BY <1>6, <1>7, <1>8 DEF Users

\* The frame buffers when the engine goes on after a reception.
LEMMA AfterRxStored ==
    ASSUME Stored, Late, mac \in Receiving, mac' = AfterRx, calm' => calm,
           UNCHANGED <<join_req, pending, waiting, tx_due, overtaken>>
    PROVE  Stored' /\ mac' \in {"IDLE", "BEACON_FOUND"}
<1>1. CASE mac = "RX_FRAME"
  BY <1>1, StoredKept DEF AfterRx, Joined
<1>2. CASE mac = "RX_JOIN_CONFIRM"
  BY <1>2, StoredKept DEF AfterRx, Joined, Stored, Joining
<1> QED
  BY <1>1, <1>2 DEF Receiving

LEMMA StoppingUsers ==
    ASSUME Users, RxDurationTimeout \/ RecvTimeout \/ RxDownlink
    PROVE  Users'
<1>1. Typed /\ Stored /\ Late
  BY DEF Users
<1>2. CASE RxDurationTimeout
  <2>1. PICK state \in Receiving : MacTakes(state, DUR)
    BY <1>2 DEF RxDurationTimeout, DUR
  <2>2. /\ Signals("mac_engine", DUR, NoneRaised) /\ timer' = Stopped(timer, {"mac"}) /\ mac' = AfterRx
        /\ UNCHANGED <<tracker, radio, caller, rx_buffer, bcn, expected, join_req, pending, waiting,
                       tx_due, halted, calm, overtaken>>
    BY <1>2 DEF RxDurationTimeout, frames, DUR
  <2>3. Stored' /\ mac' \in {"IDLE", "BEACON_FOUND"} /\ join_req' \in JoinReq
    BY <1>1, <2>1, <2>2, MacTakesOne, AfterRxStored DEF Typed
  <2> QED
    BY <2>1, <2>2, <2>3, StopsUsers
<1>3. CASE RecvTimeout
  <2>1. PICK state \in Receiving : MacTakes(state, "RECV_TIMEOUT")
    BY <1>3 DEF RecvTimeout
  <2>2. CASE Halt("Assertion")
    BY <2>2, UsersHalt DEF Reason
  <2>3. CASE ~Halt("Assertion")
    <3>1. /\ Signals("mac_engine", "RECV_TIMEOUT", NoneRaised) /\ timer' = AfterStop /\ mac' = AfterRx
          /\ radio' = "IDLE"
          /\ UNCHANGED <<tracker, caller, rx_buffer, bcn, expected, join_req, pending, waiting,
                         tx_due, halted, calm, overtaken>>
      BY <1>3, <2>3 DEF RecvTimeout, Asserting, rx_stop, frames
    <3>2. Stored' /\ mac' \in {"IDLE", "BEACON_FOUND"} /\ join_req' \in JoinReq
      BY <1>1, <2>1, <3>1, MacTakesOne, AfterRxStored DEF Typed
    <3> QED
      BY <2>1, <3>1, <3>2, StopsUsers
  <2> QED
    BY <2>2, <2>3
<1>4. CASE RxDownlink
  <2>1. MacTakes("RX_FRAME", "RLC_RX_OK") /\ mac = "RX_FRAME" /\ mac \in Receiving
    BY <1>4, MacTakesOne DEF RxDownlink, Receiving
  <2>2. CASE Halt("Assertion")
    BY <2>2, UsersHalt DEF Reason
  <2>3. CASE ~Halt("Assertion")
    <3>1. /\ Signals("mac_engine", "RLC_RX_OK", NoneRaised)
          /\ timer' = Stopped(AfterStop, {"mac"}) /\ mac' = "IDLE" /\ radio' = "IDLE"
          /\ UNCHANGED <<tracker, caller, rx_buffer, bcn, expected, join_req, pending, waiting,
                         tx_due, halted, calm, overtaken>>
      BY <1>4, <2>3 DEF RxDownlink, Asserting, rx_stop, frames
    <3>2. Stored' /\ join_req' \in JoinReq
      BY <1>1, <2>1, <3>1, StoredKept DEF Typed, Joined
    <3> QED
      BY <2>1, <3>1, <3>2, StopsUsers
  <2> QED
    BY <2>2, <2>3
<1> QED
  BY <1>2, <1>3, <1>4

LEMMA RxJoinConfirmUsers ==
    ASSUME Users, RxJoinConfirm
    PROVE  Users'
<1>1. /\ MacTakes("RX_JOIN_CONFIRM", "RLC_RX_OK") /\ mac = "RX_JOIN_CONFIRM"
      /\ mac \in Receiving /\ Typed /\ Stored
  BY MacTakesOne DEF RxJoinConfirm, Receiving, Users
<1>2. waiting = {} /\ join_req \in JoinReq
  BY <1>1 DEF Stored, Typed, Joining
<1>3. CASE Halt("Assertion")
  BY <1>3, UsersHalt DEF Reason
<1>4. CASE ~Halt("Assertion")
  <2>1. /\ Signals("mac_engine", "RLC_RX_OK", NoneRaised) /\ radio' = "IDLE"
        /\ join_req' = [join_req EXCEPT !.has_join_req = FALSE, !.has_been_tx = FALSE]
        /\ \/ mac' = "IDLE" /\ timer' = Stopped(AfterStop, {"mac"}) /\ UNCHANGED calm
           \/ /\ mac' = "INITED" /\ calm' = FALSE
              /\ timer' = Started(Stopped(AfterStop, {"mac"}), "mac", "START_JOINING")
        /\ UNCHANGED <<tracker, caller, rx_buffer, bcn, expected, pending, waiting, tx_due,
                       halted, overtaken>>
    BY <1>4 DEF RxJoinConfirm, rx_stop, NoJoinReq, DelayedStartJoining
  <2>2. join_req' \in JoinReq /\ ~join_req'.has_join_req
    BY <1>2, <2>1 DEF JoinReq
  <2>3. Stored'
    BY <1>1, <1>2, <2>1, <2>2 DEF Stored
  <2> QED
    BY <1>1, <2>1, <2>2, <2>3, StopsUsers
<1> QED
  BY <1>3, <1>4

LEMMA RxOtherUsers ==
    ASSUME Users, RxOther
    PROVE  Users'
<1> DEFINE s == "RLC_RX_OK"
<1>1. /\ Typed /\ Stored /\ Late /\ RadioUses /\ TrackerUses /\ EngineReceives /\ EngineSends
      /\ rs = {} /\ ts = {} /\ mac \in Receiving
  BY MacTakesOne DEF RxOther, Users
<1>2. /\ Sigs({}, {}, ms \ {s})
      /\ UNCHANGED <<mac, tracker, radio, caller, timer, rx_buffer, bcn, expected,
                     join_req, pending, waiting, tx_due, halted, calm, overtaken>>
  BY <1>1, MacTakesIt DEF RxOther, frames
<1>3. Typed'
  BY <1>1, <1>2 DEF Typed, Sigs
<1>4. Stored' /\ Late'
  BY <1>1, <1>2, StoredKept
<1>5. RadioUses' /\ TrackerUses'
  BY <1>1, <1>2 DEF RadioUses, TrackerUses, Sigs
<1>6. EngineReceives'
  BY <1>1, <1>2 DEF EngineReceives, Sigs
<1>7. EngineSends'
  <2>1. (ToSend' <=> ToSend) /\ ms' \cap Results = ms \cap Results
    BY <1>2 DEF ToSend, Sigs, Results
  <2> QED
    BY <1>1, <1>2, <2>1 DEF EngineSends, Sent, Sigs
<1> QED
  BY <1>3, <1>4, <1>5, <1>6, <1>7 DEF Users

LEMMA MacEngineUsers ==
    ASSUME Users, MacEngine
    PROVE  Users'
<1>1. MacWrongSignal => Users'
  BY UsersHalt DEF MacWrongSignal, Reason
<1> QED
  BY <1>1, AttemptUsers, StartJoiningUsers, SearchBeaconUsers, BeaconFoundUsers,
     TrackedWhileJoiningUsers, TrackedWhileJoinedUsers, LostBeaconUsers, SendFrameUsers, TxOkUsers,
     TxFailureUsers, RecvFrameUsers, StoppingUsers, RxJoinConfirmUsers, RxOtherUsers
     DEF MacEngine

----------------------------------------------------------------------------
(* The radio controller's steps, and what comes from outside              *)

\* It is told something of a reception, and tells the receiver u or nobody.
LEMMA ReceptionUsers ==
    ASSUME Users, radio = "RX", NEW s, NEW u \in {"RLC_RX_OK", DUR},
           Signals("rlc", s, NoneRaised) \/ Signals("rlc", s, ToCaller(u)),
           \/ UNCHANGED radio /\ u = "RLC_RX_OK"
           \/ radio' = "IDLE" /\ s = RXD /\ s \in rs,
           rx_buffer' \in Frame,
           UNCHANGED <<mac, tracker, caller, timer, bcn, expected, join_req, pending, waiting, tx_due,
                       halted, calm, overtaken>>
    PROVE  Users'
<1>1. /\ Typed /\ Stored /\ Late /\ RadioUses /\ TrackerUses /\ EngineReceives /\ EngineSends
      /\ caller \in {"btracker", "mac_engine"} /\ radio \notin Sending /\ radio' \notin Sending
      /\ radio' \in {"IDLE", "RX"}
  BY DEF Users, RadioUses, Typed, Sending
<1>2. PICK S, T \in SUBSET {u} :
          /\ Sigs(rs \ {s}, ts \cup S, ms \cup T)
          /\ caller = "btracker" => T = {}
          /\ caller = "mac_engine" => S = {}
  <2>1. CASE Signals("rlc", s, NoneRaised)
    <3>1. Sigs(rs \ {s}, ts \cup {}, ms \cup {})
      <4>1. Sigs(rs \ {s}, ts, ms) /\ ts \cup {} = ts /\ ms \cup {} = ms
        BY <2>1, RlcTakesIt
      <4> QED
        BY <4>1
    <3> QED
      BY <3>1, {} \in SUBSET {u}
  <2>2. CASE Signals("rlc", s, ToCaller(u)) /\ caller = "btracker"
    <3>1. Sigs(rs \ {s}, ts \cup {u}, ms \cup {})
      <4>1. Sigs(rs \ {s}, ts \cup {u}, ms) /\ ms \cup {} = ms
        BY <2>2, RlcTakesIt
      <4> QED
        BY <4>1
    <3> QED
      BY <2>2, <3>1, {} \in SUBSET {u}, {u} \in SUBSET {u}
  <2>3. CASE Signals("rlc", s, ToCaller(u)) /\ caller = "mac_engine"
    <3>1. Sigs(rs \ {s}, ts \cup {}, ms \cup {u})
      <4>1. Sigs(rs \ {s}, ts, ms \cup {u}) /\ ts \cup {} = ts
        BY <2>3, RlcTakesIt
      <4> QED
        BY <4>1
    <3> QED
      BY <2>3, <3>1, {} \in SUBSET {u}, {u} \in SUBSET {u}
  <2> QED
    BY <1>1, <2>1, <2>2, <2>3
<1>3. Typed'
  BY <1>1, <1>2 DEF Typed, Sigs, RadioState, TrackerSignals, MacSignals, DUR
<1>4. Stored' /\ Late'
  BY <1>1, StoredKept
<1>5. RadioUses'
  <2>1. CASE UNCHANGED radio
    BY <1>1, <1>2, <2>1 DEF RadioUses, Sigs
  <2>2. CASE radio' = "IDLE" /\ s = RXD /\ s \in rs
    BY <1>1, <1>2, <2>2 DEF RadioUses, Sigs
  <2> QED
    BY <2>1, <2>2
<1>6. TrackerUses'
  <2>1. "TRACK_BEACON" \in ts' <=> "TRACK_BEACON" \in ts
    BY <1>2 DEF Sigs, DUR
  <2>2. radio' = "RX" => radio = "RX"
    BY <1>1
  <2> QED
    BY <1>1, <2>1, <2>2 DEF TrackerUses
<1>7. /\ ms' \cap Results = ms \cap Results
      /\ "SEND_FRAME" \in ms' <=> "SEND_FRAME" \in ms
      /\ "RECV_FRAME" \in ms' <=> "RECV_FRAME" \in ms
  BY <1>2 DEF Sigs, DUR, Results
<1>8. EngineReceives'
  <2>1. CASE DUR \in ms' <=> DUR \in ms
    BY <1>1, <1>7, <2>1 DEF EngineReceives
  <2>2. CASE caller = "mac_engine" /\ radio' = "IDLE"
    BY <1>1, <1>7, <2>2 DEF EngineReceives
  <2>3. caller = "btracker" \/ UNCHANGED radio => (DUR \in ms' <=> DUR \in ms)
    BY <1>2 DEF Sigs, DUR, RXD
  <2> QED
    BY <1>1, <2>1, <2>2, <2>3
<1>9. EngineSends'
  <2>1. (ToSend' <=> ToSend) /\ (Sent' <=> Sent)
    BY <1>7 DEF ToSend, Sent
  <2> QED
    BY <1>1, <1>7, <2>1 DEF EngineSends
<1> QED
  BY <1>3, <1>4, <1>5, <1>6, <1>8, <1>9 DEF Users

\* A transmission goes on, or has its result.
LEMMA TransmissionUsers ==
    ASSUME Users, radio \in Sending, NEW s,
           \/ Signals("rlc", s, NoneRaised) /\ radio' \in Sending
           \/ \E u \in Results : Result(s, u),
           \/ UNCHANGED timer
           \/ timer' = Started(timer, "rlc", "TX_RAND_WAIT_TIMEOUT"),
           rx_buffer' \in Frame,
           UNCHANGED <<mac, tracker, caller, bcn, expected, join_req, pending, waiting, tx_due,
                       halted, calm, overtaken>>
    PROVE  Users'
<1>1. /\ Typed /\ Stored /\ Late /\ RadioUses /\ TrackerUses /\ EngineReceives /\ EngineSends
      /\ caller = "mac_engine" /\ mac \in Transmitting /\ ~ToSend /\ ~Sent
      /\ radio # "RX" /\ RXD \notin rs /\ timer["rlc"] # RXD /\ "INITED" \notin rs
  BY DEF Users, RadioUses, EngineSends, Sending
<1>2. PICK t \in {timer["rlc"], "TX_RAND_WAIT_TIMEOUT"} :
          Timers(timer["mac"], timer["tracker"], timer["periodic"], t)
  BY <1>1, TimersNow
<1>3. /\ t \in {Off} \cup RlcSignals
      /\ t \in {Off, "TX_RAND_WAIT_TIMEOUT", RXD} /\ t # RXD
  BY <1>1 DEF Typed, RlcSignals, RadioUses, RXD
<1>4. Stored' /\ Late'
  BY <1>1, StoredKept
<1>5. CASE Signals("rlc", s, NoneRaised) /\ radio' \in Sending
  <2>1. Sigs(rs \ {s}, ts, ms)
    BY <1>5, RlcTakesIt
  <2>2. Typed'
    BY <1>1, <1>2, <1>3, <1>5, <2>1 DEF Typed, Sigs, Timers, RadioState
  <2>3. radio' # "IDLE" /\ radio' # "RX"
    BY <1>5 DEF Sending
  <2>4. RadioUses'
    BY <1>1, <1>2, <1>3, <2>1, <2>3 DEF RadioUses, Sigs, Timers
  <2>5. TrackerUses'
    BY <1>1, <1>2, <2>1, <2>3 DEF TrackerUses, Sigs, Timers
  <2>6. (ToSend' <=> ToSend) /\ (Sent' <=> Sent)
    BY <1>2, <2>1 DEF ToSend, Sent, Sigs, Timers
  <2>7. EngineReceives'
    BY <1>1, <1>2, <2>1, <2>3 DEF EngineReceives, Sigs, Timers
  <2>8. EngineSends'
    BY <1>1, <1>2, <1>5, <2>1, <2>6 DEF EngineSends, Sigs, Timers
  <2> QED
    BY <1>4, <2>2, <2>4, <2>5, <2>7, <2>8 DEF Users
<1>6. ASSUME NEW u \in Results, Result(s, u)
      PROVE  Users'
  <2>1. Sigs(rs \ {s}, ts, ms \cup {u}) /\ radio' = "IDLE"
    BY <1>1, <1>6, RlcTakesIt DEF Result
  <2>2. Typed'
    BY <1>1, <1>2, <1>3, <2>1 DEF Typed, Sigs, Timers, RadioState, MacSignals
  <2>3. RadioUses'
    BY <1>1, <1>2, <1>3, <2>1 DEF RadioUses, Sigs, Timers
  <2>4. TrackerUses'
    BY <1>1, <1>2, <2>1 DEF TrackerUses, Sigs, Timers
  <2>5. /\ ~ToSend' /\ ms' \cap Results = {u}
        /\ "SEND_FRAME" \in ms' <=> "SEND_FRAME" \in ms
        /\ "RECV_FRAME" \in ms' <=> "RECV_FRAME" \in ms
        /\ DUR \in ms' <=> DUR \in ms
    BY <1>1, <1>2, <2>1 DEF ToSend, Sent, Sigs, Timers, Results, DUR
  <2>6. EngineReceives'
    BY <1>1, <2>1, <2>5 DEF EngineReceives
  <2>7. radio' \notin Sending
    BY <2>1 DEF Sending
  <2>8. Sent' /\ \E r \in Results : ms' \cap Results = {r}
    BY <1>6, <2>5 DEF Sent
  <2>9. mac = "TX_FRAME" => pending > 0
    BY <1>1 DEF EngineSends
  <2>10. EngineSends'
    BY <1>1, <2>5, <2>7, <2>8, <2>9 DEF EngineSends, ToSend
  <2> QED
    BY <1>4, <2>2, <2>3, <2>4, <2>6, <2>10 DEF Users
<1> QED
  BY <1>5, <1>6

\* The controller does nothing but take signals.
LEMMA ForgetsUsers ==
    ASSUME Users, NEW S \in SUBSET rs, Sigs(S, ts, ms),
           UNCHANGED <<mac, tracker, radio, caller, timer, rx_buffer, bcn, expected,
                       join_req, pending, waiting, tx_due, halted, calm, overtaken>>
    PROVE  Users'
<1>1. Typed /\ Stored /\ Late /\ RadioUses /\ TrackerUses /\ EngineReceives /\ EngineSends
  BY DEF Users
<1>2. Typed'
  BY <1>1 DEF Typed, Sigs
<1>3. Stored' /\ Late'
  BY <1>1, StoredKept
<1>4. RadioUses' /\ TrackerUses'
  BY <1>1 DEF RadioUses, TrackerUses, Sigs
<1>5. EngineReceives' /\ EngineSends'
  BY <1>1 DEF EngineReceives, EngineSends, ToSend, Sent, Sigs
<1> QED
  BY <1>2, <1>3, <1>4, <1>5 DEF Users

LEMMA RlcHandlesRadioUsers ==
    ASSUME Users, RlcHandlesRadio
    PROVE  Users'
<1>1. Typed /\ RadioUses /\ rx_buffer \in Frame
  BY DEF Users, Typed
<1>2. CASE radio = "IDLE"
  <2>1. sig' = [sig EXCEPT !["rlc"] = {}]
        /\ UNCHANGED <<mac, tracker, radio, caller, timer, rx_buffer, bcn, expected,
                       join_req, pending, waiting, tx_due, halted, calm, overtaken>>
    BY <1>2 DEF RlcHandlesRadio, frames
  <2>2. Sigs({}, ts, ms)
    BY <1>1, <2>1, AllProcesses DEF Sigs, Typed, rs, ts, ms
  <2> QED
    BY <2>1, <2>2, ForgetsUsers
<1>3. CASE Halt("WrongSignal")
  BY <1>3, UsersHalt DEF Reason
<1>4. CASE radio # "IDLE" /\ ~Halt("WrongSignal")
  <2>1. PICK s \in RadioEvent :
          /\ RlcReceives(s) \/ RlcListens(s) \/ RlcHasSent(s)
          /\ UNCHANGED <<mac, tracker, caller, timer, bcn, expected, join_req, pending, waiting, tx_due,
                         halted, calm, overtaken>>
    BY <1>4 DEF RlcHandlesRadio, Asserting, frames
  <2>2. CASE RlcReceives(s)
    <3>1. /\ radio = "RX" /\ UNCHANGED radio /\ rx_buffer' \in Frame
          /\ Signals("rlc", s, NoneRaised) \/ Signals("rlc", s, ToCaller("RLC_RX_OK"))
      BY <1>1, <2>2 DEF RlcReceives
    <3> QED
      BY <2>1, <3>1, ReceptionUsers
  <2>3. CASE RlcListens(s) \/ RlcHasSent(s)
    <3>1. /\ radio \in Sending /\ rx_buffer' \in Frame
          /\ \/ Signals("rlc", s, NoneRaised) /\ radio' \in Sending
             \/ \E u \in Results : Result(s, u)
      BY <1>1, <2>3 DEF RlcListens, RlcHasSent, Sending, Results
    <3> QED
      BY <2>1, <3>1, TransmissionUsers
  <2> QED
    BY <2>1, <2>2, <2>3
<1> QED
  BY <1>2, <1>3, <1>4

LEMMA RadioControllerUsers ==
    ASSUME Users, RadioController
    PROVE  Users'
<1>1. Typed /\ RadioUses /\ rx_buffer \in Frame
  BY DEF Users, Typed
<1>2. CASE RlcInited
  <2>1. "INITED" \in rs
    BY <1>2, First DEF RlcInited, RlcTakes, rs
  <2>2. /\ Sigs(rs \ {"INITED"}, ts, ms)
        /\ UNCHANGED <<mac, tracker, radio, caller, timer, rx_buffer, bcn, expected,
                       join_req, pending, waiting, tx_due, halted, calm, overtaken>>
    BY <1>1, <1>2, <2>1, RlcTakesIt DEF RlcInited, RadioUses, frames
  <2> QED
    BY <2>2, ForgetsUsers
<1>3. CASE Halt("Assertion")
  BY <1>3, UsersHalt DEF Reason
<1>4. CASE RlcTxStart /\ ~Halt("Assertion")
  <2>1. /\ radio = "TX" /\ Signals("rlc", "TX_START", NoneRaised)
        /\ timer' = Started(timer, "rlc", "TX_RAND_WAIT_TIMEOUT")
        /\ UNCHANGED <<mac, tracker, radio, caller, rx_buffer, bcn, expected,
                       join_req, pending, waiting, tx_due, halted, calm, overtaken>>
    BY <1>4 DEF RlcTxStart, Asserting, frames
  <2>2. radio \in Sending /\ radio' \in Sending
    BY <2>1 DEF Sending
  <2> QED
    BY <1>1, <2>1, <2>2, TransmissionUsers
<1>5. CASE RlcTxRandWaitTimeout /\ ~Halt("Assertion")
  <2>1. /\ radio = "TX" /\ Signals("rlc", "TX_RAND_WAIT_TIMEOUT", NoneRaised) /\ radio' = "TX_CCA"
        /\ UNCHANGED <<mac, tracker, caller, timer, rx_buffer, bcn, expected,
                       join_req, pending, waiting, tx_due, halted, calm, overtaken>>
    BY <1>5 DEF RlcTxRandWaitTimeout, Asserting, frames
  <2>2. radio \in Sending /\ radio' \in Sending
    BY <2>1 DEF Sending
  <2> QED
    BY <1>1, <2>1, <2>2, TransmissionUsers
<1>6. CASE RlcRxDurationTimeout
  <2>1. RXD \in rs
    BY <1>6, First DEF RlcRxDurationTimeout, RlcTakes, rs, RXD
  <2>2. radio = "RX"
    BY <1>1, <2>1 DEF RadioUses
  <2>3. /\ Signals("rlc", RXD, ToCaller(DUR)) /\ radio' = "IDLE"
        /\ UNCHANGED <<mac, tracker, caller, timer, rx_buffer, bcn, expected,
                       join_req, pending, waiting, tx_due, halted, calm, overtaken>>
    BY <1>6 DEF RlcRxDurationTimeout, Result, frames, RXD, DUR
  <2> QED
    BY <1>1, <2>1, <2>2, <2>3, ReceptionUsers
<1> QED
  BY <1>2, <1>3, <1>4, <1>5, <1>6, RlcHandlesRadioUsers DEF RadioController

LEMMA device_mac_send_msgUsers ==
    ASSUME Users, device_mac_send_msg
    PROVE  Users'
<1>1. /\ Typed /\ Stored /\ Late /\ RadioUses /\ TrackerUses /\ EngineReceives /\ EngineSends
      /\ pending \in Nat /\ Cardinality(waiting) \in Nat
      /\ mac \in Joined /\ pending + Cardinality(waiting) < MaxMsgs /\ pending' = pending + 1
      /\ UNCHANGED <<mac, tracker, radio, caller, sig, timer, rx_buffer, bcn, expected,
                     join_req, waiting, tx_due, halted, calm, overtaken>>
  BY FS_CardinalityType DEF Users, Stored, Typed, device_mac_send_msg, PoolHasRoom
<1>2. rs' = rs /\ ts' = ts /\ ms' = ms
  BY <1>1 DEF rs, ts, ms
<1>3. pending' \in 0..MaxMsgs /\ pending' + Cardinality(waiting) <= MaxMsgs
  BY <1>1, DeviceMacAssumption
<1>4. Typed'
  BY <1>1, <1>2, <1>3 DEF Typed
<1>5. Stored' /\ Late'
  BY <1>1, <1>3 DEF Stored, Late
<1>6. RadioUses' /\ TrackerUses' /\ EngineReceives'
  BY <1>1, <1>2 DEF RadioUses, TrackerUses, EngineReceives
<1>7. EngineSends'
  BY <1>1, <1>2 DEF EngineSends, ToSend, Sent
<1> QED
  BY <1>4, <1>5, <1>6, <1>7 DEF Users

LEMMA QuietSignals ==
    ASSUME Quiet
    PROVE  rs = {} /\ ts = {} /\ ms = {}
BY AllProcesses DEF Quiet, rs, ts, ms

LEMMA RadioRaisesUsers ==
    ASSUME Users, RadioRaises
    PROVE  Users'
<1>1. /\ Typed /\ Stored /\ Late /\ RadioUses /\ TrackerUses /\ EngineReceives /\ EngineSends
      /\ UNCHANGED <<mac, tracker, radio, caller, timer, rx_buffer, bcn, expected,
                     join_req, pending, waiting, tx_due, halted, calm, overtaken>>
  BY DEF Users, RadioRaises, frames
<1>2. PICK s \in RadioEvent : Sigs({s}, ts, ms)
  <2>1. PICK s \in Range(radio_order[radio]) : sig' = [sig EXCEPT !["rlc"] = {s}]
    BY DEF RadioRaises
  <2>2. radio \in {"RX", "TX_CCA", "TX_ING"}
    BY DEF RadioRaises, radio_order
  <2>3. s \in RadioEvent
    BY <2>1, <2>2, RadioKnows DEF RadioEvent
  <2>4. Sigs({s}, ts, ms)
    BY <1>1, <2>1, AllProcesses DEF Sigs, Typed, rs, ts, ms
  <2> QED
    BY <2>3, <2>4
<1>3. Typed'
  BY <1>1, <1>2 DEF Typed, Sigs, RlcSignals
<1>4. Stored' /\ Late'
  BY <1>1, StoredKept
<1>5. RadioUses' /\ TrackerUses'
  BY <1>1, <1>2 DEF RadioUses, TrackerUses, Sigs, RXD, RadioEvent
<1>6. EngineReceives' /\ EngineSends'
  BY <1>1, <1>2 DEF EngineReceives, EngineSends, ToSend, Sent, Sigs
<1> QED
  BY <1>3, <1>4, <1>5, <1>6 DEF Users

LEMMA ExpireUsers ==
    ASSUME Users, NEW t \in Timer, Expire(t)
    PROVE  Users'
<1>1. /\ Typed /\ Stored /\ Late /\ RadioUses /\ TrackerUses /\ EngineReceives /\ EngineSends
      /\ timer[t] # Off
      /\ timer[t] \notin Timeout \cup {RXD} => rs = {} /\ ts = {} /\ ms = {}
      /\ UNCHANGED <<mac, tracker, radio, caller, rx_buffer, bcn, expected,
                     join_req, pending, waiting, tx_due, halted>>
      /\ calm' = (calm /\ Quiet /\ ~Overtakes(t)) /\ overtaken' = (overtaken \/ Overtakes(t))
  BY QuietSignals DEF Users, Expire, MayExpire, frames, RXD
<1>2. Typed' /\ t \in {"mac", "tracker", "periodic", "rlc"}
  BY <1>1, ExpiresTyped DEF Timer
<1>3. Stored' /\ Late'
  BY <1>1 DEF Stored, Late
<1>4. CASE t = "mac"
  <2> DEFINE x == timer["mac"]
  <2>1. /\ Sigs(rs, ts, ms \cup {x})
        /\ Timers(Off, timer["tracker"], timer["periodic"], timer["rlc"])
        /\ x \in {"START_JOINING", "SEND_FRAME", "RECV_FRAME", "RECV_TIMEOUT"}
        /\ x # "RECV_TIMEOUT" => ms = {}
    BY <1>1, <1>4, ExpiresTyped DEF Typed, Timeout, RXD
  <2> HIDE DEF x
  <2>2. RadioUses' /\ TrackerUses'
    BY <1>1, <2>1 DEF RadioUses, TrackerUses, Sigs, Timers
  <2>3. EngineReceives'
    <3>1. DUR \in ms' <=> DUR \in ms
      BY <2>1 DEF Sigs, DUR
    <3>2. "RECV_FRAME" \in ms' => "RECV_FRAME" \in ms \/ (x = "RECV_FRAME" /\ DUR \notin ms)
      BY <2>1 DEF Sigs
    <3>3. radio = "RX" /\ caller = "mac_engine" => x # "RECV_FRAME"
      BY <1>1 DEF EngineReceives, x
    <3> QED
      BY <1>1, <2>1, <3>1, <3>2, <3>3 DEF EngineReceives, Timers, Off
  <2>4. EngineSends'
    <3>1. ms' \cap Results = ms \cap Results
      BY <2>1 DEF Sigs, Results
    <3>2. (ToSend' <=> ToSend) /\ (Sent' <=> Sent)
      BY <2>1, <3>1 DEF ToSend, Sent, Sigs, Timers, Off, x
    <3> QED
      BY <1>1, <2>1, <3>1, <3>2 DEF EngineSends, Sigs, Timers, Off
  <2> QED
    BY <1>2, <1>3, <2>2, <2>3, <2>4 DEF Users
<1>5. CASE t = "tracker"
  <2> DEFINE x == timer["tracker"]
  <2>1. /\ Sigs(rs, ts \cup {x}, ms)
        /\ Timers(timer["mac"], Off, timer["periodic"], timer["rlc"])
        /\ x \in {"SEARCH_TIMEOUT", "TRACK_TIMEOUT", "BEGIN_TRACK_SEARCH", "TRACK_SEARCH_TIMEOUT"}
    BY <1>1, <1>5, ExpiresTyped DEF Typed
  <2> HIDE DEF x
  <2>2. RadioUses' /\ TrackerUses'
    BY <1>1, <2>1 DEF RadioUses, TrackerUses, Sigs, Timers
  <2>3. EngineReceives' /\ EngineSends'
    BY <1>1, <2>1 DEF EngineReceives, EngineSends, ToSend, Sent, Sigs, Timers, DUR
  <2> QED
    BY <1>2, <1>3, <2>2, <2>3 DEF Users
<1>6. CASE t = "periodic"
  <2>1. /\ Sigs(rs, ts \cup {"TRACK_BEACON"}, ms) /\ timer["periodic"] # Off
        /\ Timers(timer["mac"], timer["tracker"], Off, timer["rlc"])
    BY <1>1, <1>6, ExpiresTyped DEF Typed
  <2>2. RadioUses'
    BY <1>1, <2>1 DEF RadioUses, Sigs, Timers
  <2>3. TrackerUses'
    BY <1>1, <2>1 DEF TrackerUses, Sigs, Timers
  <2>4. EngineReceives' /\ EngineSends'
    BY <1>1, <2>1 DEF EngineReceives, EngineSends, ToSend, Sent, Sigs, Timers, DUR
  <2> QED
    BY <1>2, <1>3, <2>2, <2>3, <2>4 DEF Users
<1>7. CASE t = "rlc"
  <2> DEFINE x == timer["rlc"]
  <2>1. /\ Sigs(rs \cup {x}, ts, ms)
        /\ Timers(timer["mac"], timer["tracker"], timer["periodic"], Off)
        /\ x \in {"TX_RAND_WAIT_TIMEOUT", RXD} /\ (x = RXD => radio = "RX")
    BY <1>1, <1>7, ExpiresTyped DEF RadioUses
  <2> HIDE DEF x
  <2>2. RadioUses'
    BY <1>1, <2>1 DEF RadioUses, Sigs, Timers, RXD, Off
  <2>3. TrackerUses'
    BY <1>1, <2>1 DEF TrackerUses, Sigs, Timers
  <2>4. EngineReceives' /\ EngineSends'
    BY <1>1, <2>1 DEF EngineReceives, EngineSends, ToSend, Sent, Sigs, Timers
  <2> QED
    BY <1>2, <1>3, <2>2, <2>3, <2>4 DEF Users
<1> QED
  BY <1>2, <1>4, <1>5, <1>6, <1>7

LEMMA UsersInit ==
    ASSUME Init
    PROVE  Users
<1>1. /\ Typed /\ Stored
  BY InitHolds DEF IInv, Buffers, Stored
<1>2. /\ rs = {"INITED"} /\ ts = {"INIT_FINISHED"} /\ ms = {"INIT_FINISHED"}
      /\ radio = "IDLE" /\ mac = "INITED" /\ tx_due = 0 /\ overtaken = FALSE
  BY DEF Init, rs, ts, ms
<1>3. /\ timer["mac"] = Off /\ timer["periodic"] = Off /\ timer["rlc"] = Off
  BY DEF Init, Timer
<1>4. Late
  <2>1. 0 \in Due
    BY DeviceMacAssumption DEF Due
  <2>2. tx_due \in Due \cup {-1} /\ overtaken \in BOOLEAN /\ ~overtaken
    BY <1>2, <2>1
  <2> QED
    BY <2>2 DEF Late
<1>5. RadioUses /\ TrackerUses
  BY <1>2, <1>3 DEF RadioUses, TrackerUses, RXD, Off
<1>6. EngineReceives /\ EngineSends
  BY <1>2, <1>3 DEF EngineReceives, EngineSends, ToSend, Sent, Sending, Transmitting, Results, Off
<1> QED
  BY <1>1, <1>4, <1>5, <1>6 DEF Users

LEMMA UsersStay ==
    ASSUME Users, [Next]_vars
    PROVE  Users'
<1>1. CASE UNCHANGED vars
  <2>1. /\ UNCHANGED <<mac, tracker, radio, caller, sig, timer, rx_buffer, bcn, expected, calm,
                       overtaken, join_req, pending, waiting, tx_due, halted>>
    BY <1>1 DEF vars, frames
  <2>2. rs' = rs /\ ts' = ts /\ ms' = ms
    BY <2>1 DEF rs, ts, ms
  <2>3. Typed' /\ Stored' /\ Late'
    BY <2>1, <2>2 DEF Users, Typed, Stored, Late
  <2>4. RadioUses' /\ TrackerUses' /\ EngineReceives' /\ EngineSends'
    BY <2>1, <2>2 DEF Users, RadioUses, TrackerUses, EngineReceives, EngineSends, ToSend, Sent
  <2> QED
    BY <2>3, <2>4 DEF Users
<1> QED
  BY <1>1, RadioControllerUsers, BeaconTrackerUsers, MacEngineUsers, device_mac_send_msgUsers,
     RadioRaisesUsers, ExpireUsers DEF Next

----------------------------------------------------------------------------
(* What the device promises                                               *)

Inv == Users /\ (~overtaken => IInv)

\* Whatever the timers, the radio and the host do, the radio is used as the
\* section above says; and as long as the tracker has not turned to a beacon
\* while the engine was at work, the device is in one of the phases until an
\* assertion fails (the three process entries, the radio's flags and
\* device_mac_send_msg).
THEOREM Invariance == Spec => []Inv
<1>1. Init => Inv
  BY InitHolds, UsersInit DEF Inv
<1>2. Inv /\ [Next]_vars => Inv'
  <2> SUFFICES ASSUME Inv, [Next]_vars
               PROVE  Inv'
    OBVIOUS
  <2>1. Users'
    BY UsersStay DEF Inv
  <2>2. ASSUME ~overtaken', ~(\E t \in Timer : Expire(t))
        PROVE  ~overtaken
    <3>1. CASE RadioController \/ RadioRaises \/ device_mac_send_msg
      BY <2>2, <3>1
         DEF RadioController, RlcHandlesRadio, RlcInited, RlcTxStart, RlcTxRandWaitTimeout,
             RlcRxDurationTimeout, RadioRaises, device_mac_send_msg, Asserting, Halt
    <3>2. CASE BeaconTracker
      BY <2>2, <3>2
         DEF BeaconTracker, TrackerWrongSignal, BtrackerInitFinished, SearchTimeout,
             SearchRxDurationTimeout, SearchRxOk, BeginBeaconTracking, TrackBeacon, TrackRxOk,
             TrackRxDurationTimeout, TrackTimeout, BeginTrackSearch, TrackSearchRxOk,
             TrackSearchTimeout, RxOk, Asserting, Halt
    <3>3. CASE MacEngine
      BY <2>2, <3>3
         DEF MacEngine, MacWrongSignal, MacInitFinished, StartJoining, SearchBeacon, BeaconNotFound,
             BeaconFound, TrackedWhileJoining, TrackedWhileJoined, LostBeacon, TrackFailed, SendFrame,
             TxOk, TxFailure, RecvFrame, RxOther, RxDownlink, RxJoinConfirm, RxDurationTimeout,
             RecvTimeout, Asserting, Halt
    <3>4. CASE UNCHANGED vars
      BY <2>2, <3>4 DEF vars
    <3> QED
      BY <2>2, <3>1, <3>2, <3>3, <3>4 DEF Next
  <2>3. ASSUME ~overtaken', IInv
        PROVE  IInv'
    <3>1. CASE RadioController
      BY <2>3, <3>1, RadioControllerKeeps
    <3>2. CASE BeaconTracker
      BY <2>3, <3>2, BeaconTrackerKeeps
    <3>3. CASE MacEngine
      BY <2>3, <3>3, MacEngineKeeps
    <3>4. CASE device_mac_send_msg
      BY <2>3, <3>4, device_mac_send_msgKeeps
    <3>5. CASE RadioRaises
      BY <2>3, <3>5, RadioRaisesKeeps
    <3>6. ASSUME NEW t \in Timer, Expire(t)
          PROVE  IInv'
      <4>1. ~Overtakes(t)
        BY <2>3, <3>6 DEF Expire
      <4> QED
        BY <2>3, <3>6, <4>1, ExpireMacKeeps, ExpireTrackerKeeps, ExpirePeriodicKeeps, ExpireRlcKeeps
           DEF Timer
    <3>7. CASE UNCHANGED vars
      BY <2>3, <3>7, NothingChanges
    <3> QED
      BY <3>1, <3>2, <3>3, <3>4, <3>5, <3>6, <3>7 DEF Next
  <2>4. ASSUME NEW t \in Timer, Expire(t), ~overtaken'
        PROVE  ~overtaken
    BY <2>4 DEF Expire
  <2> QED
    BY <2>1, <2>2, <2>3, <2>4 DEF Inv
<1> QED
  BY <1>1, <1>2, PTL DEF Spec

\* The variables keep their types: the signals a process is sent are signals
\* its entry knows in some state, the timers run for them only.
THEOREM TypeCorrect == Spec => []TypeOK
<1>1. Inv => TypeOK
  BY TypedIsTypeOK DEF Inv, Users, Late
<1> QED
  BY <1>1, Invariance, PTL

\* While no timer comes at a bad moment and nobody is denied, no assertion
\* fails and no signal comes that its process does not expect (the switches of
\* mac_engine_entry, btracker_entry and radio_controller_entry).
THEOREM DeviceDoesNotHang == Spec => []NoHang
<1>1. Inv => NoHang
  BY DEF Inv, Users, Late, IInv, OneAtATime, Running, NoHang
<1> QED
  BY <1>1, Invariance, PTL

\* Whatever the order of timers, and in particular when the tracker wakes up for
\* a beacon while the engine sends or receives: a reception is that of the
\* caller the radio controller knows, who waits for it; a transmission is the
\* engine's until it is told the result, and none is lost on the way
\* (radio_controller_rx_continuously, radio_controller_tx and rx_stop, which
\* take any caller).
THEOREM RadioHasItsUser == Spec => []RadioHasOneUser
<1>1. TxResult = Results
  BY FailedResults DEF TxResult, Results
<1>2. ASSUME Users PROVE RadioHasOneUser
  <2>1. TrackerUses /\ EngineReceives /\ EngineSends
    BY <1>2 DEF Users
  <2>2. mac \in Transmitting => ToSend \/ radio \in Sending \/ ms \cap TxResult # {}
    BY <1>1, <2>1 DEF EngineSends, Sent
  <2> QED
    BY <2>1, <2>2 DEF RadioHasOneUser, TrackerUses, EngineReceives, EngineSends, ToSend, ms
<1> QED
  BY <1>2, Invariance, PTL DEF Inv

\* As long as the tracker has not overtaken the engine, a beacon that is to
\* acknowledge a frame or the JOIN_REQ is never passed over (mac_engine's
\* handling of BEACON_TRACKED and TRACK_LOST_BEACON, which count the beacons
\* off, and the tracker's choice of the beacon it wakes up for).
THEOREM NoAckIsOverdue == Spec => []NothingOverdue
<1>1. Inv => (~overtaken => NoneMissed)
  BY DEF Inv, IInv, Buffers
<1>2. (~overtaken => NoneMissed) => NothingOverdue
  BY DEF NoneMissed, NothingOverdue
<1> QED
  BY <1>1, <1>2, Invariance, PTL

----------------------------------------------------------------------------
(* Whom the radio controller tells                                        *)

FromRadio == {"RLC_RX_OK", DUR} \cup Results

\* Nobody is told anything by the radio controller.
NobodyTold == ts' \cap FromRadio \subseteq ts /\ ms' \cap FromRadio \subseteq ms

\* Only who asked is.
AsAsked ==
    /\ \A s \in ts' \ ts : s \in {"RLC_RX_OK", DUR} => s \in Range(tracker_order[tracker])
    /\ \A s \in ms' \ ms : s \in FromRadio => s \in Range(mac_order[mac])

LEMMA TakenOnly ==
    ASSUME NEW p \in Process, NEW s, Signals(p, s, NoneRaised)
    PROVE  NobodyTold
<1>1. \A q \in Process : sig'[q] = IF q = p THEN sig[q] \ {s} ELSE sig[q]
  BY NoneIsRaised
<1> QED
  BY <1>1, AllProcesses DEF NobodyTold, ts, ms

LEMMA OwnRaised ==
    ASSUME NEW p \in Process, NEW s, NEW u, u \notin FromRadio
    PROVE  /\ Signals(p, s, ToMac(u)) => NobodyTold
           /\ Signals(p, s, ToTracker(u)) => NobodyTold
           /\ Signals(p, s, ToRlc(u)) => NobodyTold
<1>1. ASSUME NEW r, RaisedOne(p, s, r, u)
      PROVE  NobodyTold
  <2>1. \A q \in Process : sig'[q] \subseteq sig[q] \cup {u}
    BY <1>1 DEF RaisedOne
  <2> QED
    BY <2>1, AllProcesses DEF NobodyTold, ts, ms
<1>2. ASSUME Signals(p, s, ToMac(u)) PROVE NobodyTold
  <2> DEFINE raised == ToMac(u)
  <2>1. DOMAIN raised = {"mac_engine"} /\ raised["mac_engine"] = {u} /\ Signals(p, s, raised)
    BY <1>2 DEF ToMac
  <2> HIDE DEF raised
  <2>2. RaisedOne(p, s, "mac_engine", u)
    BY ONLY <2>1, p \in Process, OneIsRaised
  <2> QED
    BY <1>1, <2>2
<1>3. ASSUME Signals(p, s, ToTracker(u)) PROVE NobodyTold
  <2> DEFINE raised == ToTracker(u)
  <2>1. DOMAIN raised = {"btracker"} /\ raised["btracker"] = {u} /\ Signals(p, s, raised)
    BY <1>3 DEF ToTracker
  <2> HIDE DEF raised
  <2>2. RaisedOne(p, s, "btracker", u)
    BY ONLY <2>1, p \in Process, OneIsRaised
  <2> QED
    BY <1>1, <2>2
<1>4. ASSUME Signals(p, s, ToRlc(u)) PROVE NobodyTold
  <2> DEFINE raised == ToRlc(u)
  <2>1. DOMAIN raised = {"rlc"} /\ raised["rlc"] = {u} /\ Signals(p, s, raised)
    BY <1>4 DEF ToRlc
  <2> HIDE DEF raised
  <2>2. RaisedOne(p, s, "rlc", u)
    BY ONLY <2>1, p \in Process, OneIsRaised
  <2> QED
    BY <1>1, <2>2
<1> QED
  BY <1>2, <1>3, <1>4

LEMMA SameSignals ==
    ASSUME UNCHANGED sig
    PROVE  NobodyTold
BY DEF NobodyTold, ts, ms

LEMMA TrackerTellsOwn ==
    ASSUME BeaconTracker
    PROVE  NobodyTold
<1>1. /\ TrackerWrongSignal => NobodyTold
      /\ BtrackerInitFinished => NobodyTold
  BY SameSignals, TakenOnly, AllProcesses DEF TrackerWrongSignal, BtrackerInitFinished, Halt
<1>2. /\ SearchTimeout => NobodyTold
      /\ TrackSearchTimeout => NobodyTold
      /\ SearchRxDurationTimeout => NobodyTold
  <2>1. ASSUME NEW s, NEW u, u \in {"BEACON_NOT_FOUND", "TRACK_FAILED"}, GivesUp(s, u)
        PROVE  NobodyTold
    BY <2>1, OwnRaised, AllProcesses DEF GivesUp, FromRadio, Results, DUR
  <2> QED
    BY <2>1, SameSignals
       DEF SearchTimeout, TrackSearchTimeout, SearchRxDurationTimeout, Asserting, Halt
<1>3. ASSUME NEW state, NEW newState, NEW u, u \in {"BEACON_FOUND", "BEACON_TRACKED"},
             RxOk(state, u, newState)
      PROVE  NobodyTold
  <2>1. \/ Signals("btracker", "RLC_RX_OK", NoneRaised)
        \/ Signals("btracker", "RLC_RX_OK", ToMac(u))
        \/ UNCHANGED sig
    BY <1>3 DEF RxOk, Asserting, Halt
  <2> QED
    BY <1>3, <2>1, OwnRaised, TakenOnly, SameSignals, AllProcesses DEF FromRadio, Results, DUR
<1>4. BeginBeaconTracking => NobodyTold
  BY TakenOnly, SameSignals, AllProcesses DEF BeginBeaconTracking, Asserting, Halt
<1>5. ASSUME TrackBeacon PROVE NobodyTold
  <2>1. Signals("btracker", "TRACK_BEACON", NoneRaised) \/ UNCHANGED sig
    BY <1>5 DEF TrackBeacon, Asserting, Halt
  <2> QED
    BY <2>1, TakenOnly, SameSignals, AllProcesses
<1>6. TrackTimeout \/ TrackRxDurationTimeout => NobodyTold
  <2>1. ASSUME NEW s, TrackingLost(s) PROVE NobodyTold
    BY <2>1, OwnRaised, AllProcesses DEF TrackingLost, FromRadio, Results, DUR
  <2> QED
    BY <2>1, SameSignals DEF TrackTimeout, TrackRxDurationTimeout, Asserting, Halt
<1>7. BeginTrackSearch => NobodyTold
  BY TakenOnly, SameSignals, AllProcesses DEF BeginTrackSearch, Asserting, Halt
<1> QED
  BY <1>1, <1>2, <1>3, <1>4, <1>5, <1>6, <1>7
     DEF BeaconTracker, SearchRxOk, TrackRxOk, TrackSearchRxOk

LEMMA EngineTellsOwn ==
    ASSUME MacEngine
    PROVE  NobodyTold
<1>1. MacWrongSignal \/ MacInitFinished \/ BeaconNotFound => NobodyTold
  BY SameSignals, TakenOnly, AllProcesses
     DEF MacWrongSignal, MacInitFinished, BeaconNotFound, Asserting, Halt
<1>2. ASSUME StartJoining PROVE NobodyTold
  <2>1. Signals("mac_engine", "START_JOINING", ToMac("SEARCH_BEACON"))
    BY <1>2 DEF StartJoining, ToMac
  <2> QED
    BY <2>1, OwnRaised, AllProcesses DEF FromRadio, Results, DUR
<1>3. ASSUME SearchBeacon PROVE NobodyTold
  <2>1. Signals("mac_engine", "SEARCH_BEACON", NoneRaised) \/ UNCHANGED sig
    BY <1>3 DEF SearchBeacon, Asserting, Halt
  <2> QED
    BY <2>1, TakenOnly, SameSignals, AllProcesses
<1>4. ASSUME BeaconFound PROVE NobodyTold
  <2>1. \/ Signals("mac_engine", "BEACON_FOUND", ToTracker("BEGIN_BEACON_TRACKING"))
        \/ Signals("mac_engine", "BEACON_FOUND", NoneRaised)
        \/ UNCHANGED sig
    BY <1>4 DEF BeaconFound, Asserting, Halt
  <2>2. "BEGIN_BEACON_TRACKING" \notin FromRadio
    BY DEF FromRadio, Results, DUR
  <2> QED
    BY <2>1, <2>2, OwnRaised, TakenOnly, SameSignals, AllProcesses
<1>5. ASSUME TrackedWhileJoining \/ TrackedWhileJoined \/ LostBeacon \/ TrackFailed
      PROVE  NobodyTold
  <2>1. (\E s : Signals("mac_engine", s, NoneRaised)) \/ UNCHANGED sig
    BY <1>5 DEF TrackedWhileJoining, TrackedWhileJoined, LostBeacon, TrackFailed, Asserting, Halt
  <2> QED
    BY <2>1, TakenOnly, SameSignals, AllProcesses
<1>6. ASSUME SendFrame PROVE NobodyTold
  <2>1. \/ Signals("mac_engine", "SEND_FRAME", NoneRaised)
        \/ Signals("mac_engine", "SEND_FRAME", ToRlc("TX_START"))
        \/ UNCHANGED sig
    BY <1>6 DEF SendFrame, Asserting, Halt
  <2>2. "TX_START" \notin FromRadio
    BY DEF FromRadio, Results, DUR
  <2> QED
    BY <2>1, <2>2, OwnRaised, TakenOnly, SameSignals, AllProcesses
<1>7. ASSUME TxOk \/ TxFailure \/ RecvFrame \/ RxOther PROVE NobodyTold
  <2>1. (\E s : Signals("mac_engine", s, NoneRaised)) \/ UNCHANGED sig
    BY <1>7 DEF TxOk, TxFailure, RecvFrame, RxOther, Asserting, Halt
  <2> QED
    BY <2>1, TakenOnly, SameSignals, AllProcesses
<1>8. ASSUME RxDownlink \/ RxJoinConfirm \/ RxDurationTimeout \/ RecvTimeout PROVE NobodyTold
  <2>1. (\E s : Signals("mac_engine", s, NoneRaised)) \/ UNCHANGED sig
    BY <1>8 DEF RxDownlink, RxJoinConfirm, RxDurationTimeout, RecvTimeout, Asserting, Halt
  <2> QED
    BY <2>1, TakenOnly, SameSignals, AllProcesses
<1> QED
  BY <1>1, <1>2, <1>3, <1>4, <1>5, <1>6, <1>7, <1>8 DEF MacEngine

\* What comes from outside sets no signal of the radio controller.
LEMMA OutsideTellsOwn ==
    ASSUME Typed, device_mac_send_msg \/ RadioRaises \/ \E t \in Timer : Expire(t)
    PROVE  NobodyTold
<1>1. Typed
  OBVIOUS
<1>2. device_mac_send_msg => NobodyTold
  BY SameSignals DEF device_mac_send_msg
<1>3. RadioRaises => NobodyTold
  BY <1>1 DEF RadioRaises, NobodyTold, Typed, ts, ms
<1>4. ASSUME NEW t \in Timer, Expire(t) PROVE NobodyTold
  <2>1. sig' = [sig EXCEPT ![Owner[t]] = @ \cup {timer[t]}]
    BY <1>4 DEF Expire
  <2>2. \/ Owner[t] = "rlc"
        \/ timer[t] \notin FromRadio
    BY <1>1, <1>4 DEF Expire, Typed, Timer, Owner, FromRadio, Results, DUR
  <2> QED
    BY <1>1, <2>1, <2>2 DEF NobodyTold, Typed, ts, ms
<1> QED
  BY <1>2, <1>3, <1>4

\* The radio controller's own steps: its caller waits for what it is told.
LEMMA ReceiverAsked ==
    ASSUME Users, radio = "RX"
    PROVE  \/ caller = "btracker" /\ {"RLC_RX_OK", DUR} \subseteq Range(tracker_order[tracker])
           \/ caller = "mac_engine" /\ {"RLC_RX_OK", DUR} \subseteq Range(mac_order[mac])
<1>1. caller \in {"btracker", "mac_engine"}
  BY DEF Users, Typed, RadioUses
<1>2. CASE caller = "btracker"
  <2>1. tracker \in {"SEARCH_BEACON", "BCN_TRACKING_SEARCH", "BCN_TRACKING"}
    BY <1>2 DEF Users, TrackerUses
  <2> QED
    BY <1>2, <2>1, TrackerKnows DEF DUR
<1>3. CASE caller = "mac_engine"
  <2>1. mac \in Receiving
    BY <1>3 DEF Users, EngineReceives
  <2> QED
    BY <1>3, <2>1, MacKnows DEF DUR
<1> QED
  BY <1>1, <1>2, <1>3

LEMMA CallerTold ==
    ASSUME NEW s, NEW u, Signals("rlc", s, ToCaller(u)),
           \/ caller = "btracker" /\ u \in Range(tracker_order[tracker])
           \/ caller = "mac_engine" /\ u \in Range(mac_order[mac])
    PROVE  AsAsked
<1>1. CASE caller = "btracker" /\ u \in Range(tracker_order[tracker])
  <2>1. Sigs(rs \ {s}, ts \cup {u}, ms)
    BY <1>1, RlcTakesIt
  <2> QED
    BY <1>1, <2>1 DEF AsAsked, Sigs
<1>2. CASE caller = "mac_engine" /\ u \in Range(mac_order[mac])
  <2>1. Sigs(rs \ {s}, ts, ms \cup {u})
    BY <1>2, RlcTakesIt
  <2> QED
    BY <1>2, <2>1 DEF AsAsked, Sigs
<1> QED
  BY <1>1, <1>2

LEMMA NobodyIsAsAsked ==
    ASSUME NobodyTold
    PROVE  AsAsked
BY DEF NobodyTold, AsAsked, FromRadio

LEMMA ControllerTellsWhoAsked ==
    ASSUME Users, RadioController
    PROVE  AsAsked
<1>1. ASSUME radio \in Sending
      PROVE  caller = "mac_engine" /\ Results \subseteq Range(mac_order[mac])
  <2>1. caller = "mac_engine" /\ mac \in Transmitting
    BY <1>1 DEF Users, EngineSends
  <2> QED
    BY <2>1, MacKnows
<1>2. CASE RlcHandlesRadio
  <2>1. CASE radio = "IDLE"
    <3>1. sig' = [sig EXCEPT !["rlc"] = {}]
      BY <1>2, <2>1 DEF RlcHandlesRadio
    <3>2. NobodyTold
      BY <3>1 DEF NobodyTold, Users, Typed, ts, ms
    <3> QED
      BY <3>2, NobodyIsAsAsked
  <2>2. CASE radio # "IDLE" /\ UNCHANGED sig
    BY <2>2, SameSignals, NobodyIsAsAsked
  <2>3. CASE /\ radio # "IDLE"
             /\ \E s \in RadioEvent : RlcReceives(s) \/ RlcListens(s) \/ RlcHasSent(s)
    <3>1. PICK s : RlcReceives(s) \/ RlcListens(s) \/ RlcHasSent(s)
      BY <2>3
    <3>2. CASE Signals("rlc", s, NoneRaised)
      BY <3>2, TakenOnly, AllProcesses, NobodyIsAsAsked
    <3>3. CASE radio = "RX" /\ Signals("rlc", s, ToCaller("RLC_RX_OK"))
      BY <3>3, ReceiverAsked, CallerTold
    <3>4. CASE /\ radio \in {"TX_CCA", "TX_ING"}
               /\ \E u \in Results : Signals("rlc", s, ToCaller(u))
      BY <1>1, <3>4, CallerTold DEF Sending
    <3> QED
      BY <3>1, <3>2, <3>3, <3>4 DEF RlcReceives, RlcListens, RlcHasSent, Result, Results
  <2> QED
    BY <1>2, <2>1, <2>2, <2>3 DEF RlcHandlesRadio, Asserting, Halt
<1>3. CASE RlcInited
  BY <1>3, TakenOnly, AllProcesses, NobodyIsAsAsked DEF RlcInited
<1>4. CASE RlcTxStart \/ RlcTxRandWaitTimeout
  BY <1>4, TakenOnly, SameSignals, AllProcesses, NobodyIsAsAsked
     DEF RlcTxStart, RlcTxRandWaitTimeout, Asserting, Halt
<1>5. CASE RlcRxDurationTimeout
  <2>1. RXD \in rs
    BY <1>5, First DEF RlcRxDurationTimeout, RlcTakes, rs, RXD
  <2>2. radio = "RX"
    BY <2>1 DEF Users, RadioUses
  <2> QED
    BY <1>5, <2>2, ReceiverAsked, CallerTold DEF RlcRxDurationTimeout, Result, DUR
<1> QED
  BY <1>2, <1>3, <1>4, <1>5 DEF RadioController

\* The radio controller tells a process only what it waits for
\* (gl_registered_rlc_caller, which both processes overwrite): a result of a
\* reception or of a transmission is never sent to a process that has gone on
\* to another state, whatever the order of timers and frames.
THEOREM RadioTellsWhoAsked == Spec => ReportsToWhoAsked
<1>1. ASSUME Users, [Next]_vars
      PROVE  AsAsked
  <2>1. CASE RadioController
    BY <1>1, <2>1, ControllerTellsWhoAsked
  <2>2. CASE BeaconTracker \/ MacEngine
    BY <2>2, TrackerTellsOwn, EngineTellsOwn, NobodyIsAsAsked
  <2>3. CASE device_mac_send_msg \/ RadioRaises \/ \E t \in Timer : Expire(t)
    BY <1>1, <2>3, OutsideTellsOwn, NobodyIsAsAsked DEF Users
  <2>4. CASE UNCHANGED vars
    BY <2>4, SameSignals, NobodyIsAsAsked DEF vars
  <2> QED
    BY <1>1, <2>1, <2>2, <2>3, <2>4 DEF Next
<1>2. TxResult = Results
  BY FailedResults DEF TxResult, Results
<1>3. ASSUME AsAsked
      PROVE  /\ \A s \in sig'["btracker"] \ sig["btracker"] :
                    s \in {"RLC_RX_OK", "RLC_RX_DURATION_TIMEOUT"} =>
                        s \in Range(tracker_order[tracker])
             /\ \A s \in sig'["mac_engine"] \ sig["mac_engine"] :
                    s \in {"RLC_RX_OK", "RLC_RX_DURATION_TIMEOUT"} \cup TxResult =>
                        s \in Range(mac_order[mac])
  BY <1>2, <1>3 DEF AsAsked, FromRadio, DUR, ts, ms
<1>4. Inv => Users
  BY DEF Inv
<1> QED
  BY <1>1, <1>3, <1>4, Invariance, PTL DEF Spec, ReportsToWhoAsked
=============================================================================
