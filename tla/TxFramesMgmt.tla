---------------------------- MODULE TxFramesMgmt ----------------------------
(***************************************************************************)
(* The uplink frame buffers of an end device (tx_frames_mgmt.c).           *)
(*                                                                         *)
(* A message is copied into a block of a fixed pool and linked to the      *)
(* pending list.  When it has been sent its frame moves to the wait list   *)
(* until the beacon that is due to carry its packed ACK.  Then it is       *)
(* freed, or goes back to the pending list to be sent again, or is         *)
(* dropped.  A beacon that is lost has the same effect on every waiting    *)
(* frame.  The JOIN_REQ has a buffer of its own.                           *)
(*                                                                         *)
(* The functions are called by the MAC engine and by the beacon tracker.   *)
(* Of those this module keeps only what restricts the order of the calls:  *)
(* the state of the MAC engine and the frame that the radio has now.  What *)
(* a beacon says (its number, the confirmed sequence number) is arbitrary. *)
(*                                                                         *)
(* haddock_assert() stops the device for good when its condition is false. *)
(* `halted` names the assertion that did it.                               *)
(*                                                                         *)
(* Two history variables, which no guard reads, keep what properties speak *)
(* of and the code does not remember: on_air, the frames that the radio    *)
(* has sent since the device last joined, and heard, what the packed ACK   *)
(* that is being handled confirms.                                         *)
(***************************************************************************)
EXTENDS BeaconSeq, Sequences, FiniteSets, Functions

CONSTANTS
    Slot,                         \* the blocks of gl_uplink_frame_pool
    JoinReq,                      \* the buffer gl_tx_join_req.fbuf
    NoFrame,                      \* not a frame
    Beacon,                       \* the beacon numbers that occur
    PACKED_ACK_DELAY_NUM,         \* periods from a frame to its packed ACK
    LPWAN_DE_MAX_RETRANSMIT_NUM,
    LPWAN_DE_MAX_TX_FAIL_NUM,
    FRAME_SEQ_NUM,                \* how many frame sequence numbers there are
    MaxSurplus                    \* bound: see mac_tx_frames_handle_tx_msg_failed

ASSUME TxFramesMgmtAssumption ==
    /\ IsFiniteSet(Slot)
    /\ JoinReq \notin Slot /\ NoFrame \notin Slot /\ JoinReq # NoFrame
    /\ Beacon \subseteq BeaconSeqNum
    /\ PACKED_ACK_DELAY_NUM \in 1..BEACON_MAX_SEQ_NUM
    /\ LPWAN_DE_MAX_RETRANSMIT_NUM \in Nat
    /\ LPWAN_DE_MAX_TX_FAIL_NUM \in Nat
    /\ FRAME_SEQ_NUM \in Nat \ {0}
    /\ MaxSurplus \in Nat

VARIABLES
    wait_ack_list,        \* frames that wait for their ACK, oldest first
    wait_ack_list_len,    \* the counter kept next to it
    pending_tx_list,      \* frames to send, the next one first
    pending_tx_list_len,  \* the counter kept next to it
    used,                 \* the allocated blocks of the pool
    fbuf,                 \* the contents of the blocks
    tx_frame_seq_id,      \* the last frame sequence number given out
    run_first_time,       \* no JOIN_REQ has been made since power on
    join_req,             \* gl_tx_join_req
    mac_state,            \* the MAC engine's state, as far as it matters here
    cur_tx,               \* the frame the radio is sending
    halted,               \* the assertion that failed
    on_air,               \* history: frames sent in this membership
    heard                 \* history: the ACK that this step handles, if any

pool  == <<wait_ack_list, wait_ack_list_len, pending_tx_list,
           pending_tx_list_len, used, fbuf>>
seqid == <<tx_frame_seq_id, run_first_time>>
history == <<on_air, heard>>
vars  == <<pool, seqid, join_req, mac_state, cur_tx, halted, history>>

FrameSeq == 0..(FRAME_SEQ_NUM - 1)
MaxTransmissions == LPWAN_DE_MAX_RETRANSMIT_NUM + 1

\* The fields of struct tx_fbuf that decide anything.
Fbuf == [transmit_times : Nat, tx_fail_times : Nat,
         seq : FrameSeq, expected : BeaconSeqNum]

\* What the allocator's memset() leaves.  A free block is kept in this form:
\* nothing reads it before it is allocated, and zeroed, again.
ZeroFbuf == [transmit_times |-> 0, tx_fail_times |-> 0, seq |-> 0, expected |-> 0]

\* JOINING is split in two: SEARCHING until a beacon has been found.  DENIED
\* is INITED after a join that was denied: the tracker then goes on.
MacState == {"INITED", "DENIED", "SEARCHING", "JOINING", "JOINED"}

Assertion == {"PendingListNotEmpty", "IsWithinPendingList", "WaitListDrained",
              "AckNotOverdue", "JoinReqOnlyWhileJoining"}

TypeOK ==
    /\ wait_ack_list \in Seq(Slot) /\ wait_ack_list_len \in Int
    /\ pending_tx_list \in Seq(Slot) /\ pending_tx_list_len \in Int
    /\ used \in SUBSET Slot
    /\ fbuf \in [Slot -> Fbuf]
    /\ tx_frame_seq_id \in FrameSeq /\ run_first_time \in BOOLEAN
    /\ join_req \in [has_join_req : BOOLEAN, has_been_tx : BOOLEAN,
                     seq : FrameSeq, expected : BeaconSeqNum]
    /\ mac_state \in MacState
    /\ cur_tx \in Slot \cup {JoinReq, NoFrame}
    /\ halted \in Assertion \cup {"no"}
    /\ on_air \in SUBSET Slot
    /\ heard \in SUBSET [beacon : BeaconSeqNum, seq : FrameSeq]

\* mac_tx_frames_mgmt_init(), and the zeroed statics.
Init ==
    /\ wait_ack_list = <<>> /\ wait_ack_list_len = 0
    /\ pending_tx_list = <<>> /\ pending_tx_list_len = 0
    /\ used = {}
    /\ fbuf = [f \in Slot |-> ZeroFbuf]
    /\ tx_frame_seq_id = 0 /\ run_first_time = TRUE
    /\ join_req = [has_join_req |-> FALSE, has_been_tx |-> FALSE,
                   seq |-> 0, expected |-> 0]
    /\ mac_state = "INITED"
    /\ cur_tx = NoFrame
    /\ halted = "no"
    /\ on_air = {} /\ heard = {}
-----------------------------------------------------------------------------
\* x is linked before y.
Before(list, x, y) ==
    \E i, j \in DOMAIN list : i < j /\ list[i] = x /\ list[j] = y

\* The list that a walk over `list` leaves when it keeps exactly the members
\* of S, in their order.  There is one such list, given as a set.
SubList(list, S) ==
    {l \in [1..Cardinality(S) -> S] :
        /\ Range(l) = S
        /\ \A i, j \in DOMAIN l : i < j => Before(list, l[i], l[j])}

\* list_del() of the members of S, and the frames that only look unlinked.
NotUnlinked(list, S) == {list}
Unlinked(list, S) == SubList(list, Range(list) \ S)

Running == halted = "no"

\* The history of a step that handles `ack`.  A frame has been on the air when
\* it is linked to the wait list; joining begins a new count.
Record(ack) ==
    /\ heard' = ack
    /\ on_air' = IF mac_state # "JOINED" /\ mac_state' = "JOINED" THEN {}
                 ELSE (on_air \cup Range(wait_ack_list')) \cap used'
NoAck == {}

\* A haddock_assert() whose condition does not hold.
Halt(assertion) ==
    /\ halted' = assertion
    /\ UNCHANGED <<pool, seqid, join_req, mac_state, cur_tx>>
    /\ Record(NoAck)

IsWithinPendingList(f) == pending_tx_list_len > 0 /\ f \in Range(pending_tx_list)

HasPendingJoinReq == join_req.has_join_req /\ ~join_req.has_been_tx

HasWaitingJoinConfirm(bcn) ==
    join_req.has_join_req /\ join_req.has_been_tx /\ join_req.expected = bcn

HasWaitingAck(bcn) ==
    \/ HasWaitingJoinConfirm(bcn)
    \/ \E f \in Range(wait_ack_list) : fbuf[f].expected = bcn

NextFrameSeqWithoutWrap == tx_frame_seq_id + 1
NextFrameSeq == (tx_frame_seq_id + 1) % FRAME_SEQ_NUM

\* A frame that has never been on the air: it gets a new sequence number.
AlwaysNew(f) == TRUE
IsNewTx(f) == fbuf[f].transmit_times = 0
-----------------------------------------------------------------------------
\* The messages.

\* device_mac_send_msg(): refused unless JOINED, and when the pool is full.
mac_tx_frames_put_msg ==
    /\ Running
    /\ mac_state = "JOINED"
    /\ \E f \in Slot \ used :
        /\ used' = used \cup {f}
        /\ fbuf' = [fbuf EXCEPT ![f] = ZeroFbuf]
        /\ pending_tx_list' = Append(pending_tx_list, f)
    /\ pending_tx_list_len' = pending_tx_list_len + 1
    /\ UNCHANGED <<wait_ack_list, wait_ack_list_len, seqid, join_req,
                   mac_state, cur_tx, halted>>
    /\ Record(NoAck)

\* The tracker and the MAC engine ask in every period whether something is to
\* be sent.  The answer changes nothing, but its assertions can fail.  They
\* ask while they track a beacon; a join that was denied leaves them tracking.
mac_tx_frames_has_pending_tx ==
    /\ Running
    /\ mac_state \in {"DENIED", "JOINING", "JOINED"}
    /\ \/ /\ pending_tx_list_len # 0
          /\ pending_tx_list = <<>>
          /\ Halt("PendingListNotEmpty")
       \/ /\ pending_tx_list_len = 0
          /\ HasPendingJoinReq
          /\ mac_state # "JOINING"
          /\ Halt("JoinReqOnlyWhileJoining")

\* SEND_FRAME while joined: mac_tx_frames_get_msg() takes the head of the
\* pending list and mac_tx_frames_prepare_tx_msg() fills it in.  The frame
\* stays on the pending list.  A frame that has never been on the air gets a
\* new sequence number; one that has keeps it.
mac_tx_frames_prepare_tx_msg(bcn) ==
    /\ Running
    /\ mac_state = "JOINED" /\ cur_tx = NoFrame
    /\ pending_tx_list_len > 0
    /\ IF pending_tx_list = <<>>
       THEN Halt("PendingListNotEmpty")
       ELSE LET f   == Head(pending_tx_list)
                new == IsNewTx(f)
                seq == IF new THEN NextFrameSeq ELSE fbuf[f].seq
            IN  /\ fbuf' = [fbuf EXCEPT
                      ![f].transmit_times = @ + 1,
                      ![f].seq = seq,
                      ![f].expected = calc_expected_beacon_seq_id(bcn, PACKED_ACK_DELAY_NUM)]
                /\ tx_frame_seq_id' = IF new THEN seq ELSE tx_frame_seq_id
                /\ cur_tx' = f
                /\ UNCHANGED <<wait_ack_list, wait_ack_list_len, pending_tx_list,
                               pending_tx_list_len, used, run_first_time,
                               join_req, mac_state, halted>>
                /\ Record(NoAck)

mac_tx_frames_handle_tx_msg_ok ==
    /\ Running
    /\ cur_tx \in Slot
    /\ IF ~IsWithinPendingList(cur_tx)
       THEN Halt("IsWithinPendingList")
       ELSE /\ pending_tx_list' \in Unlinked(pending_tx_list, {cur_tx})
            /\ wait_ack_list' = Append(wait_ack_list, cur_tx)
            /\ pending_tx_list_len' = pending_tx_list_len - 1
            /\ wait_ack_list_len' = wait_ack_list_len + 1
            /\ cur_tx' = NoFrame
            /\ UNCHANGED <<used, fbuf, seqid, join_req, mac_state, halted>>
            /\ Record(NoAck)

\* The frame was not sent: CCA failed or the radio timed out.  After too many
\* failures it is unlinked and freed.  pending_tx_list_len is not decremented
\* then, so it exceeds the length of the list from there on.  The surplus is
\* bounded by MaxSurplus, below what would overflow an os_uint8.
mac_tx_frames_handle_tx_msg_failed ==
    /\ Running
    /\ cur_tx \in Slot
    /\ IF ~IsWithinPendingList(cur_tx)
       THEN Halt("IsWithinPendingList")
       ELSE LET times == fbuf[cur_tx].transmit_times - 1
                fails == fbuf[cur_tx].tx_fail_times + 1
                drop  == times >= MaxTransmissions \/ fails > LPWAN_DE_MAX_TX_FAIL_NUM
            IN  /\ \/ /\ drop
                      /\ pending_tx_list_len - Len(pending_tx_list) < MaxSurplus
                      /\ pending_tx_list' \in Unlinked(pending_tx_list, {cur_tx})
                      /\ used' = used \ {cur_tx}
                      /\ fbuf' = [fbuf EXCEPT ![cur_tx] = ZeroFbuf]
                   \/ /\ ~drop
                      /\ fbuf' = [fbuf EXCEPT ![cur_tx].transmit_times = times,
                                              ![cur_tx].tx_fail_times = fails]
                      /\ UNCHANGED <<pending_tx_list, used>>
                /\ cur_tx' = NoFrame
                /\ UNCHANGED <<wait_ack_list, wait_ack_list_len, pending_tx_list_len,
                               seqid, join_req, mac_state, halted>>
                /\ Record(NoAck)

\* May be sent once more after it has been sent and not acknowledged.
MayRetryOnceTooOften(f) ==
    /\ fbuf[f].transmit_times <= MaxTransmissions
    /\ fbuf[f].tx_fail_times < LPWAN_DE_MAX_TX_FAIL_NUM
MayRetry(f) ==
    /\ fbuf[f].transmit_times < MaxTransmissions
    /\ fbuf[f].tx_fail_times < LPWAN_DE_MAX_TX_FAIL_NUM

\* Of the frames that are due, those that are sent again.
Retried(due, acked) == {f \in due \ acked : MayRetry(f)}

\* Where list_move_tail() links the frames that are sent again.
AtHead(pending, retries) == retries \o pending
AtTail(pending, retries) == pending \o retries

\* The frames in `due` leave the wait list: those in `acked` are freed, of the
\* others those that may be sent again go to the tail of the pending list and
\* the rest is freed.
Settle(due, acked) ==
    LET gone == due \ Retried(due, acked)
    IN  /\ wait_ack_list' \in Unlinked(wait_ack_list, due)
        /\ \E moved \in SubList(wait_ack_list, Retried(due, acked)) :
              pending_tx_list' = AtTail(pending_tx_list, moved)
        /\ wait_ack_list_len' = wait_ack_list_len - Cardinality(due)
        /\ pending_tx_list_len' = pending_tx_list_len + Cardinality(Retried(due, acked))
        /\ used' = used \ gone
        /\ fbuf' = [f \in Slot |-> IF f \in gone THEN ZeroFbuf ELSE fbuf[f]]

\* How far the beacon of f's ACK is ahead of beacon bcn.
AckDelta(f, bcn) == calc_bcn_seq_delta(fbuf[f].expected, bcn)

\* The frames of `due` whose sequence number is confirmed.
AnyConfirms(due, confirmed) == IF confirmed = {} THEN {} ELSE due
Confirmed(due, confirmed) == {f \in due : fbuf[f].seq \in confirmed}

\* Beacon bcn has been received and some frame waits for it.  The frame whose
\* sequence number it confirms is acknowledged.  Without an ACK for this
\* device (mac_tx_frames_handle_no_ack) confirmed is empty.  Each waiting
\* frame that is passed on the way must not be overdue.
CheckAck(bcn, confirmed) ==
    /\ Running
    /\ mac_state = "JOINED" /\ cur_tx = NoFrame
    /\ HasWaitingAck(bcn)
    /\ IF \E f \in Range(wait_ack_list) : AckDelta(f, bcn) < 0
       THEN Halt("AckNotOverdue")
       ELSE LET due == {f \in Range(wait_ack_list) : AckDelta(f, bcn) = 0}
            IN  /\ Settle(due, Confirmed(due, confirmed))
                /\ UNCHANGED <<seqid, join_req, mac_state, cur_tx, halted>>
                /\ Record([beacon : {bcn}, seq : confirmed])

mac_tx_frames_handle_check_ack(bcn, confirm_seq) == CheckAck(bcn, {confirm_seq})

mac_tx_frames_handle_no_ack(bcn) == CheckAck(bcn, {})

\* What a lost beacon settles: every waiting frame.
OnlyThoseToRetry == {f \in Range(wait_ack_list) : MayRetry(f)}
WaitingFrames == Range(wait_ack_list)

\* A tracked beacon has not come.
mac_tx_frames_handle_lost_beacon ==
    /\ Running
    /\ cur_tx = NoFrame
    /\ \/ /\ mac_state = "JOINING"
          /\ join_req' = [join_req EXCEPT !.has_been_tx = FALSE]
          /\ UNCHANGED pool
       \/ /\ mac_state = "JOINED"
          /\ Settle(WaitingFrames, {})
          /\ UNCHANGED join_req

\* LOST_BEACON keeps the MAC engine's state; the later TRACK_FAILED sends it
\* back to INITED.  Both make the call; the assertion at its end compares the
\* counter, not the list.
LostBeacon(next_state) ==
    /\ mac_tx_frames_handle_lost_beacon
    /\ halted' = IF mac_state = "JOINED" /\ wait_ack_list_len' # 0
                 THEN "WaitListDrained" ELSE halted
    /\ mac_state' = next_state
    /\ UNCHANGED <<seqid, cur_tx>>
    /\ Record(NoAck)
-----------------------------------------------------------------------------
\* Joining.

\* The MAC engine's search for a beacon: no call of this component.
StartJoining ==
    /\ Running
    /\ mac_state \in {"INITED", "DENIED"}
    /\ mac_state' = "SEARCHING"
    /\ UNCHANGED <<pool, seqid, join_req, cur_tx, halted>>
    /\ Record(NoAck)

\* No beacon, or one that does not allow joining.
SearchFailed ==
    /\ Running
    /\ mac_state = "SEARCHING"
    /\ mac_state' = "INITED"
    /\ UNCHANGED <<pool, seqid, join_req, cur_tx, halted>>
    /\ Record(NoAck)

\* A beacon has been found.  The first sequence number is random, later
\* JOIN_REQs count on.
mac_tx_frames_init_join_req ==
    /\ Running
    /\ mac_state = "SEARCHING"
    /\ tx_frame_seq_id' \in IF run_first_time THEN FrameSeq ELSE {NextFrameSeq}
    /\ run_first_time' = FALSE
    /\ join_req' = [join_req EXCEPT !.has_join_req = TRUE, !.has_been_tx = FALSE,
                                    !.seq = tx_frame_seq_id']
    /\ mac_state' = "JOINING"
    /\ UNCHANGED <<pool, cur_tx, halted>>
    /\ Record(NoAck)

\* SEND_FRAME while joining.
mac_tx_frames_prepare_join_req(bcn) ==
    /\ Running
    /\ mac_state = "JOINING" /\ cur_tx = NoFrame
    /\ HasPendingJoinReq
    /\ join_req' = [join_req EXCEPT
                      !.expected = calc_expected_beacon_seq_id(bcn, PACKED_ACK_DELAY_NUM)]
    /\ cur_tx' = JoinReq
    /\ UNCHANGED <<pool, seqid, mac_state, halted>>
    /\ Record(NoAck)

\* mac_tx_frames_handle_tx_join_ok(), mac_tx_frames_handle_tx_join_failed():
\* the two differ in what has_been_tx becomes.
HandleTxJoin(sent) ==
    /\ Running
    /\ cur_tx = JoinReq
    /\ join_req' = [join_req EXCEPT !.has_been_tx = sent]
    /\ cur_tx' = NoFrame
    /\ UNCHANGED <<pool, seqid, mac_state, halted>>
    /\ Record(NoAck)

\* mac_tx_frames_handle_join_ack(), mac_tx_frames_handle_no_join_ack(): either
\* way the JOIN_REQ no longer waits.
HandleJoinAck(bcn) ==
    /\ Running
    /\ mac_state = "JOINING" /\ cur_tx = NoFrame
    /\ HasWaitingJoinConfirm(bcn)
    /\ join_req' = [join_req EXCEPT !.has_been_tx = FALSE]
    /\ UNCHANGED <<pool, seqid, mac_state, cur_tx, halted>>
    /\ Record(NoAck)

\* The end of joining, either way: there is no JOIN_REQ any more.
JoinReqStays == [join_req EXCEPT !.has_been_tx = FALSE]
JoinReqGone == [join_req EXCEPT !.has_join_req = FALSE, !.has_been_tx = FALSE]

\* JOIN_CONFIRM.  The frames left from an earlier membership start afresh.
mac_tx_frames_handle_join_ok ==
    /\ Running
    /\ mac_state = "JOINING" /\ cur_tx = NoFrame
    /\ HasPendingJoinReq
    /\ IF wait_ack_list_len # 0
       THEN Halt("WaitListDrained")
       ELSE /\ fbuf' = [f \in Slot |->
                          IF f \in Range(pending_tx_list)
                          THEN [fbuf[f] EXCEPT !.transmit_times = 0, !.tx_fail_times = 0]
                          ELSE fbuf[f]]
            /\ join_req' = JoinReqGone
            /\ mac_state' = "JOINED"
            /\ UNCHANGED <<wait_ack_list, wait_ack_list_len, pending_tx_list,
                           pending_tx_list_len, used, seqid, cur_tx, halted>>
            /\ Record(NoAck)

mac_tx_frames_handle_join_denied ==
    /\ Running
    /\ mac_state = "JOINING" /\ cur_tx = NoFrame
    /\ HasPendingJoinReq
    /\ join_req' = JoinReqGone
    /\ mac_state' = "DENIED"
    /\ UNCHANGED <<pool, seqid, cur_tx, halted>>
    /\ Record(NoAck)
-----------------------------------------------------------------------------
Next ==
    \/ mac_tx_frames_put_msg
    \/ mac_tx_frames_has_pending_tx
    \/ \E bcn \in Beacon : mac_tx_frames_prepare_tx_msg(bcn)
    \/ mac_tx_frames_handle_tx_msg_ok
    \/ mac_tx_frames_handle_tx_msg_failed
    \/ \E bcn \in Beacon, seq \in FrameSeq : mac_tx_frames_handle_check_ack(bcn, seq)
    \/ \E bcn \in Beacon : mac_tx_frames_handle_no_ack(bcn)
    \/ LostBeacon(mac_state)
    \/ LostBeacon("INITED")
    \/ StartJoining
    \/ SearchFailed
    \/ mac_tx_frames_init_join_req
    \/ \E bcn \in Beacon : mac_tx_frames_prepare_join_req(bcn)
    \/ \E sent \in BOOLEAN : HandleTxJoin(sent)
    \/ \E bcn \in Beacon : HandleJoinAck(bcn)
    \/ mac_tx_frames_handle_join_ok
    \/ mac_tx_frames_handle_join_denied

Spec == Init /\ [][Next]_vars
-----------------------------------------------------------------------------
\* Every allocated block is linked to exactly one of the two lists, exactly
\* once, and no free block is linked: no buffer leaks and none is used after it
\* has been freed, however sending, failing, ACKs, lost beacons and new joins
\* follow each other.
BlocksAccounted ==
    /\ used = Range(pending_tx_list) \cup Range(wait_ack_list)
    /\ Range(pending_tx_list) \cap Range(wait_ack_list) = {}
    /\ IsInjective(pending_tx_list) /\ IsInjective(wait_ack_list)

\* The wait counter is the length of its list.  The pending counter is never
\* below the length of its list, so no message is overlooked by the code that
\* looks at the counter only; it can exceed it.
CountersCover ==
    /\ wait_ack_list_len = Len(wait_ack_list)
    /\ pending_tx_list_len >= Len(pending_tx_list)

\* The bookkeeping of the buffers as a whole.
Bookkeeping == BlocksAccounted /\ CountersCover

\* Frames wait for an ACK only while the device is joined, a message is on the
\* air only while it heads the pending list of a joined device, and a JOIN_REQ
\* only while joining: no state of an earlier membership survives a lost link.
MembershipScoped ==
    /\ mac_state # "JOINED" => wait_ack_list = <<>>
    /\ cur_tx \in Slot => mac_state = "JOINED" /\ cur_tx \in Range(pending_tx_list)
    /\ cur_tx = JoinReq => mac_state = "JOINING" /\ HasPendingJoinReq
    /\ mac_state \in {"JOINED", "DENIED"} => ~join_req.has_join_req

\* In one membership no frame is sent more than LPWAN_DE_MAX_RETRANSMIT_NUM + 1
\* times, and it is not kept after it has failed to be sent more than
\* LPWAN_DE_MAX_TX_FAIL_NUM times; a frame that waits has been sent.
AttemptsBounded ==
    \A f \in used :
        /\ fbuf[f].tx_fail_times <= LPWAN_DE_MAX_TX_FAIL_NUM
        /\ IF f \in Range(wait_ack_list) \/ f = cur_tx
           THEN fbuf[f].transmit_times \in 1..MaxTransmissions
           ELSE fbuf[f].transmit_times < MaxTransmissions

\* Of the assertions, the one that a frame on the air is still linked, the one
\* that the wait list is empty after a lost beacon and at a new join, and the
\* one that a JOIN_REQ is pending only while joining cannot fail.
AssertionsHold ==
    halted \notin {"IsWithinPendingList", "WaitListDrained", "JoinReqOnlyWhileJoining"}

\* A retransmission carries the sequence number of the first transmission, by
\* which the gateway confirms it and two copies of a message can be told from
\* two messages: from when it has been on the air a frame keeps its number
\* until it is freed or the device joins again.  A frame that has not been on
\* the air in this membership always goes out under the next number of the count.
\* So a message left over from an earlier membership goes out under a new
\* number, also when the gateway has relayed it already: join_ok() lets its
\* attempts start afresh, and nothing remembers the old number.
SeqKept ==
    [][/\ \A f \in on_air \cap used' : fbuf'[f].seq = fbuf[f].seq
       /\ cur_tx' # cur_tx /\ cur_tx' \in Slot \ on_air
             => /\ fbuf'[cur_tx'].seq = NextFrameSeq
                /\ tx_frame_seq_id' = NextFrameSeq]_vars

\* Messages are freed for a reason.  A frame that has attempts left is freed
\* only by the packed ACK that has just arrived, with the beacon that the frame
\* waits for and with the frame's number; not by the ACK of another frame, nor
\* by a beacon without one, nor by a lost beacon.
FreedOnlyIfConfirmed ==
    [][\A f \in used \ used' :
          \/ f \in Range(wait_ack_list)
             /\ (MayRetry(f) =>
                   [beacon |-> fbuf[f].expected, seq |-> fbuf[f].seq] \in heard')
          \/ f = cur_tx /\ fbuf[f].tx_fail_times = LPWAN_DE_MAX_TX_FAIL_NUM]_vars

\* f is in front of g among the frames still to be sent: both are pending, f
\* is and g is not, or both wait and f has been sent first.
Ahead(f, g) ==
    \/ Before(pending_tx_list, f, g)
    \/ f \in Range(pending_tx_list) /\ g \notin Range(pending_tx_list)
    \/ Before(wait_ack_list, f, g)

\* Messages do not overtake each other in the pending list.  Pending frames
\* stay in order, a frame that becomes pending comes behind all of them, a new
\* one and one that is sent again alike, and those that are sent again together
\* keep the order in which they were sent.
NoOvertaking ==
    [][\A f, g \in Range(pending_tx_list') :
          Ahead(f, g) => Before(pending_tx_list', f, g)]_vars

\* The assertion in mac_tx_frames_get_msg() and mac_tx_frames_has_pending_tx():
\* with a pending counter above zero the pending list is not empty.
PendingAssertionHolds == halted # "PendingListNotEmpty"
=============================================================================
