------------------------- MODULE TxFramesMgmtProofs -------------------------
(***************************************************************************)
(* What TxFramesMgmt promises for any number of blocks, any limits and any *)
(* length of the lollipop, proved with one inductive invariant.            *)
(***************************************************************************)
EXTENDS TxFramesMgmt, BeaconSeqProofs, FiniteSetTheorems

(***************************************************************************)
(* Lists.                                                                  *)
(***************************************************************************)

\* The counter that is kept next to a list counts its members: a list in
\* which no frame occurs twice is as long as its set of members is large.
LEMMA InjectiveLength ==
    ASSUME NEW S, NEW list \in Seq(S), IsInjective(list)
    PROVE  /\ IsFiniteSet(Range(list))
           /\ Cardinality(Range(list)) = Len(list)
<1>1. DOMAIN list = 1..Len(list) /\ Len(list) \in Nat
  OBVIOUS
<1>2. list \in Bijection(1..Len(list), Range(list))
  BY <1>1 DEF Bijection, Injection, Surjection, Range
<1>3. IsFiniteSet(1..Len(list)) /\ Cardinality(1..Len(list)) = Len(list)
  BY <1>1, FS_Interval
<1> QED
  BY <1>2, <1>3, FS_Bijection DEF ExistsBijection

\* What a walk over a list that unlinks some of its members leaves.
LEMMA SubListProperties ==
    ASSUME NEW S, NEW list \in Seq(S), NEW K \in SUBSET Range(list),
           IsFiniteSet(Range(list)), NEW l \in SubList(list, K)
    PROVE  /\ l \in Seq(S)
           /\ Range(l) = K
           /\ IsInjective(l)
           /\ Len(l) = Cardinality(K)
           /\ \A f, g \in K : Before(l, f, g) => Before(list, f, g)
<1> DEFINE n == Cardinality(K)
<1>1. Range(list) \subseteq S
  BY DEF Range
<1>2. IsFiniteSet(K) /\ n \in Nat
  BY FS_Subset, FS_CardinalityType
<1>3. l \in [1..n -> K] /\ Range(l) = K
  BY DEF SubList
<1>4. DOMAIN l = 1..n
  BY <1>3
<1>5. l \in Seq(S) /\ Len(l) = n
  BY <1>1, <1>2, <1>3, <1>4
<1>6. l \in Surjection(1..n, K)
  BY <1>3, <1>4 DEF Surjection, Range
<1>7. IsFiniteSet(1..n) /\ Cardinality(1..n) = n
  BY <1>2, FS_Interval
<1>8. l \in Injection(1..n, K)
  BY <1>2, <1>6, <1>7, FS_SurjSameCardinalityImpliesInj
<1>9. IsInjective(l)
  BY <1>8 DEF Injection
<1>10. \A f, g \in K : Before(l, f, g) => Before(list, f, g)
  BY DEF SubList, Before
<1> QED
  BY <1>3, <1>5, <1>9, <1>10

\* Linking a frame, or several, behind a list.
LEMMA ConcatRange ==
    ASSUME NEW S, NEW a \in Seq(S), NEW b \in Seq(S)
    PROVE  /\ a \o b \in Seq(S)
           /\ Len(a \o b) = Len(a) + Len(b)
           /\ Range(a \o b) = Range(a) \cup Range(b)
           /\ IsInjective(a) /\ IsInjective(b) /\ Range(a) \cap Range(b) = {}
                => IsInjective(a \o b)
<1> DEFINE c == a \o b
<1>1. /\ DOMAIN a = 1..Len(a) /\ DOMAIN b = 1..Len(b)
      /\ Len(a) \in Nat /\ Len(b) \in Nat
  OBVIOUS
<1>2. /\ c \in Seq(S)
      /\ Len(c) = Len(a) + Len(b)
      /\ DOMAIN c = 1..(Len(a) + Len(b))
      /\ \A i \in DOMAIN c : c[i] = IF i <= Len(a) THEN a[i] ELSE b[i - Len(a)]
  OBVIOUS
<1>3. ASSUME NEW x \in Range(a) \cup Range(b) PROVE x \in Range(c)
  <2>1. CASE x \in Range(a)
    <3>1. PICK i \in DOMAIN a : x = a[i]
      BY <2>1 DEF Range
    <3>2. i \in DOMAIN c /\ c[i] = x
      BY <1>1, <1>2, <3>1
    <3> QED BY <3>2 DEF Range
  <2>2. CASE x \in Range(b)
    <3>1. PICK i \in DOMAIN b : x = b[i]
      BY <2>2 DEF Range
    <3>2. i + Len(a) \in DOMAIN c /\ c[i + Len(a)] = x
      BY <1>1, <1>2, <3>1
    <3> QED BY <3>2 DEF Range
  <2> QED BY <1>3, <2>1, <2>2
<1>4. ASSUME NEW x \in Range(c) PROVE x \in Range(a) \cup Range(b)
  <2>1. PICK i \in DOMAIN c : x = c[i]
    BY <1>4 DEF Range
  <2>2. CASE i <= Len(a)
    BY <1>1, <1>2, <2>1, <2>2 DEF Range
  <2>3. CASE i > Len(a)
    <3>1. i - Len(a) \in DOMAIN b /\ x = b[i - Len(a)]
      BY <1>1, <1>2, <2>1, <2>3
    <3> QED BY <3>1 DEF Range
  <2> QED BY <1>1, <1>2, <2>2, <2>3
<1>5. ASSUME IsInjective(a), IsInjective(b), Range(a) \cap Range(b) = {},
             NEW i \in DOMAIN c, NEW j \in DOMAIN c, c[i] = c[j]
      PROVE  i = j
  <2>1. CASE i <= Len(a) /\ j <= Len(a)
    BY <1>1, <1>2, <1>5, <2>1 DEF IsInjective
  <2>2. CASE i > Len(a) /\ j > Len(a)
    <3>1. i - Len(a) \in DOMAIN b /\ j - Len(a) \in DOMAIN b
      BY <1>1, <1>2, <2>2
    <3>2. b[i - Len(a)] = b[j - Len(a)]
      BY <1>1, <1>2, <1>5, <2>2
    <3>3. i - Len(a) = j - Len(a)
      BY <1>5, <3>1, <3>2 DEF IsInjective
    <3> QED BY <1>1, <1>2, <3>3
  <2>3. ASSUME NEW p \in DOMAIN c, NEW q \in DOMAIN c,
               p <= Len(a), q > Len(a), c[p] = c[q]
        PROVE  FALSE
    <3>1. p \in DOMAIN a /\ c[p] = a[p]
      BY <1>1, <1>2, <2>3
    <3>2. q - Len(a) \in DOMAIN b /\ c[q] = b[q - Len(a)]
      BY <1>1, <1>2, <2>3
    <3> QED BY <1>5, <2>3, <3>1, <3>2 DEF Range
  <2> QED BY <1>1, <1>2, <1>5, <2>1, <2>2, <2>3
<1> QED
  BY <1>2, <1>3, <1>4, <1>5 DEF IsInjective

\* Only the empty list has no members.
LEMMA EmptyRange ==
    ASSUME NEW S, NEW list \in Seq(S), Range(list) = {}
    PROVE  list = <<>>
<1>1. Len(list) \in Nat /\ DOMAIN list = 1..Len(list)
  OBVIOUS
<1>2. Len(list) = 0
  BY <1>1 DEF Range
<1> QED
  BY <1>2

\* Append is concatenation with a list of one.
LEMMA AppendRange ==
    ASSUME NEW S, NEW a \in Seq(S), NEW x \in S
    PROVE  /\ Append(a, x) \in Seq(S)
           /\ Len(Append(a, x)) = Len(a) + 1
           /\ Range(Append(a, x)) = Range(a) \cup {x}
           /\ IsInjective(a) /\ x \notin Range(a) => IsInjective(Append(a, x))
<1>1. <<x>> \in Seq(S) /\ Len(<<x>>) = 1 /\ DOMAIN <<x>> = {1} /\ <<x>>[1] = x
  OBVIOUS
<1>2. Append(a, x) = a \o <<x>>
  OBVIOUS
<1>3. Range(<<x>>) = {x} /\ IsInjective(<<x>>)
  BY <1>1 DEF Range, IsInjective
<1> DEFINE b == <<x>>
<1> HIDE DEF b
<1>4. b \in Seq(S) /\ Len(b) = 1 /\ Append(a, x) = a \o b /\ Range(b) = {x} /\ IsInjective(b)
  BY <1>1, <1>2, <1>3 DEF b
<1>5. /\ a \o b \in Seq(S)
      /\ Len(a \o b) = Len(a) + Len(b)
      /\ Range(a \o b) = Range(a) \cup Range(b)
      /\ IsInjective(a) /\ IsInjective(b) /\ Range(a) \cap Range(b) = {}
           => IsInjective(a \o b)
  BY <1>4, ConcatRange
<1> QED
  BY <1>4, <1>5

(***************************************************************************)
(* The inductive invariant.  Type correctness needs the bound on the       *)
(* attempts (a counter is decremented), the assertions need all the rest.  *)
(***************************************************************************)
IInv ==
    /\ TypeOK
    /\ Bookkeeping
    /\ MembershipScoped
    /\ AttemptsBounded
    /\ AssertionsHold

LEMMA ZeroFbufType == ZeroFbuf \in Fbuf
BY TxFramesMgmtAssumption, BeaconMaxSeqNumAssumption
   DEF ZeroFbuf, Fbuf, FrameSeq, BeaconSeqNum, BEACON_OVERFLOW_SEQ_NUM

LEMMA NextFrameSeqType == tx_frame_seq_id \in FrameSeq => NextFrameSeq \in FrameSeq
BY TxFramesMgmtAssumption DEF NextFrameSeq, FrameSeq

\* What the history of a step can be.
HistoryType ==
    /\ on_air \in SUBSET Slot
    /\ heard \in SUBSET [beacon : BeaconSeqNum, seq : FrameSeq]

LEMMA RecordType ==
    ASSUME NEW ack \in SUBSET [beacon : BeaconSeqNum, seq : FrameSeq], Record(ack),
           used' \in SUBSET Slot
    PROVE  HistoryType'
<1>1. heard' = ack /\ on_air' \subseteq used'
  BY DEF Record
<1> QED
  BY <1>1 DEF HistoryType

LEMMA QuietRecordType == Record(NoAck) /\ used' \in SUBSET Slot => HistoryType'
BY RecordType DEF NoAck

\* The two lists are finite, whatever happens: their members are blocks.
LEMMA ListsFinite ==
    ASSUME TypeOK
    PROVE  /\ Range(wait_ack_list) \subseteq Slot /\ IsFiniteSet(Range(wait_ack_list))
           /\ Range(pending_tx_list) \subseteq Slot /\ IsFiniteSet(Range(pending_tx_list))
<1>1. Range(wait_ack_list) \subseteq Slot /\ Range(pending_tx_list) \subseteq Slot
  BY DEF TypeOK, Range
<1> QED
  BY <1>1, FS_Subset, TxFramesMgmtAssumption

\* Unlinking the frame on the air.
LEMMA UnlinkCurTx ==
    ASSUME TypeOK, Bookkeeping, cur_tx \in Range(pending_tx_list),
           NEW l \in Unlinked(pending_tx_list, {cur_tx})
    PROVE  /\ l \in Seq(Slot)
           /\ Range(l) = Range(pending_tx_list) \ {cur_tx}
           /\ IsInjective(l)
           /\ Len(l) = Len(pending_tx_list) - 1
           /\ \A f, g \in Range(l) : Before(l, f, g) => Before(pending_tx_list, f, g)
<1> DEFINE K == Range(pending_tx_list) \ {cur_tx}
<1>1. pending_tx_list \in Seq(Slot) /\ IsInjective(pending_tx_list)
  BY DEF TypeOK, Bookkeeping, BlocksAccounted
<1>2. IsFiniteSet(Range(pending_tx_list)) /\ K \subseteq Range(pending_tx_list)
  BY ListsFinite
<1>3. Cardinality(K) = Len(pending_tx_list) - 1
  BY <1>1, <1>2, InjectiveLength, FS_RemoveElement
<1>4. l \in SubList(pending_tx_list, K)
  BY DEF Unlinked
<1> HIDE DEF K
<1>5. /\ l \in Seq(Slot) /\ Range(l) = K /\ IsInjective(l) /\ Len(l) = Cardinality(K)
      /\ \A f, g \in K : Before(l, f, g) => Before(pending_tx_list, f, g)
  BY <1>1, <1>2, <1>4, SubListProperties
<1> QED
  BY <1>3, <1>5 DEF K

\* Frames that are due leave one list, and some of them join the other.
LEMMA MoveLists ==
    ASSUME NEW S, NEW wait \in Seq(S), NEW pend \in Seq(S),
           IsInjective(wait), IsInjective(pend), Range(pend) \cap Range(wait) = {},
           NEW due \in SUBSET Range(wait), NEW R \in SUBSET due,
           NEW left \in Unlinked(wait, due), NEW moved \in SubList(wait, R)
    PROVE  /\ left \in Seq(S) /\ IsInjective(left)
           /\ Range(left) = Range(wait) \ due
           /\ Len(left) = Len(wait) - Cardinality(due)
           /\ pend \o moved \in Seq(S) /\ IsInjective(pend \o moved)
           /\ Range(pend \o moved) = Range(pend) \cup R
           /\ Len(pend \o moved) = Len(pend) + Cardinality(R)
           /\ Cardinality(due) \in Nat /\ Cardinality(R) \in Nat
<1>1. IsFiniteSet(Range(wait)) /\ Cardinality(Range(wait)) = Len(wait)
  BY InjectiveLength
<1>2. IsFiniteSet(due) /\ Cardinality(due) \in Nat
  BY <1>1, FS_Subset, FS_CardinalityType
<1>3. IsFiniteSet(R) /\ Cardinality(R) \in Nat
  BY <1>2, FS_Subset, FS_CardinalityType
<1> DEFINE D == Range(wait) \ due
<1>4. D \in SUBSET Range(wait) /\ left \in SubList(wait, D)
  BY DEF Unlinked
<1>5. Cardinality(D) = Len(wait) - Cardinality(due)
  <2>1. Range(wait) \cap due = due
    OBVIOUS
  <2>2. Cardinality(D) = Cardinality(Range(wait)) - Cardinality(Range(wait) \cap due)
    BY <1>1, FS_Difference
  <2> QED BY <1>1, <2>1, <2>2
<1> HIDE DEF D
<1>6. /\ left \in Seq(S) /\ Range(left) = D /\ IsInjective(left)
      /\ Len(left) = Cardinality(D)
  BY <1>1, <1>4, SubListProperties
<1>7. R \in SUBSET Range(wait)
  OBVIOUS
<1>8. /\ moved \in Seq(S) /\ Range(moved) = R /\ IsInjective(moved)
      /\ Len(moved) = Cardinality(R)
  BY <1>1, <1>7, SubListProperties
<1>9. Range(pend) \cap Range(moved) = {}
  BY <1>7, <1>8
<1>10. /\ pend \o moved \in Seq(S) /\ Len(pend \o moved) = Len(pend) + Len(moved)
       /\ Range(pend \o moved) = Range(pend) \cup Range(moved)
       /\ IsInjective(pend \o moved)
  BY <1>8, <1>9, ConcatRange
<1> QED
  BY <1>2, <1>3, <1>5, <1>6, <1>8, <1>10 DEF D

\* What settling does to the lists and the pool.
LEMMA SettleLists ==
    ASSUME TypeOK, Bookkeeping,
           NEW due \in SUBSET Range(wait_ack_list), NEW acked,
           Settle(due, acked)
    PROVE  /\ wait_ack_list' \in Seq(Slot) /\ pending_tx_list' \in Seq(Slot)
           /\ Range(wait_ack_list') = Range(wait_ack_list) \ due
           /\ Range(pending_tx_list') = Range(pending_tx_list) \cup Retried(due, acked)
           /\ wait_ack_list_len' \in Int /\ pending_tx_list_len' \in Int
           /\ used' = used \ (due \ Retried(due, acked))
           /\ Bookkeeping'
<1>1. /\ wait_ack_list \in Seq(Slot) /\ IsInjective(wait_ack_list)
      /\ pending_tx_list \in Seq(Slot) /\ IsInjective(pending_tx_list)
      /\ used = Range(pending_tx_list) \cup Range(wait_ack_list)
      /\ Range(pending_tx_list) \cap Range(wait_ack_list) = {}
      /\ wait_ack_list_len = Len(wait_ack_list)
      /\ pending_tx_list_len >= Len(pending_tx_list)
      /\ wait_ack_list_len \in Int /\ pending_tx_list_len \in Int
  BY DEF TypeOK, Bookkeeping, BlocksAccounted, CountersCover
<1>2. Retried(due, acked) \in SUBSET due
  BY DEF Retried
<1>3. /\ wait_ack_list' \in Unlinked(wait_ack_list, due)
      /\ wait_ack_list_len' = wait_ack_list_len - Cardinality(due)
      /\ pending_tx_list_len' = pending_tx_list_len + Cardinality(Retried(due, acked))
      /\ used' = used \ (due \ Retried(due, acked))
  BY DEF Settle
<1>4. PICK moved \in SubList(wait_ack_list, Retried(due, acked)) :
          pending_tx_list' = pending_tx_list \o moved
  BY DEF Settle, AtTail
<1>5. /\ wait_ack_list' \in Seq(Slot) /\ IsInjective(wait_ack_list')
      /\ Range(wait_ack_list') = Range(wait_ack_list) \ due
      /\ Len(wait_ack_list') = Len(wait_ack_list) - Cardinality(due)
      /\ pending_tx_list' \in Seq(Slot) /\ IsInjective(pending_tx_list')
      /\ Range(pending_tx_list') = Range(pending_tx_list) \cup Retried(due, acked)
      /\ Len(pending_tx_list') = Len(pending_tx_list) + Cardinality(Retried(due, acked))
      /\ Cardinality(due) \in Nat /\ Cardinality(Retried(due, acked)) \in Nat
  <2> DEFINE W == wait_ack_list  P == pending_tx_list  L == wait_ack_list'
             R == Retried(due, acked)
  <2>1. /\ W \in Seq(Slot) /\ IsInjective(W) /\ P \in Seq(Slot) /\ IsInjective(P)
        /\ Range(P) \cap Range(W) = {}
        /\ due \in SUBSET Range(W) /\ R \in SUBSET due
        /\ L \in Unlinked(W, due) /\ moved \in SubList(W, R)
    BY <1>1, <1>2, <1>3
  <2> HIDE DEF W, P, L, R
  <2>2. /\ L \in Seq(Slot) /\ IsInjective(L)
        /\ Range(L) = Range(W) \ due
        /\ Len(L) = Len(W) - Cardinality(due)
        /\ P \o moved \in Seq(Slot) /\ IsInjective(P \o moved)
        /\ Range(P \o moved) = Range(P) \cup R
        /\ Len(P \o moved) = Len(P) + Cardinality(R)
        /\ Cardinality(due) \in Nat /\ Cardinality(R) \in Nat
    BY <2>1, MoveLists
  <2> QED BY <1>4, <2>2 DEF W, P, L, R
<1>6. BlocksAccounted'
  BY <1>1, <1>2, <1>3, <1>5 DEF BlocksAccounted
<1>7. CountersCover'
  <2>1. Len(pending_tx_list) \in Nat /\ Len(wait_ack_list) \in Nat
    BY <1>1
  <2> QED BY <1>1, <1>3, <1>5, <2>1 DEF CountersCover
<1> QED
  BY <1>1, <1>3, <1>5, <1>6, <1>7 DEF Bookkeeping

\* What settling does to the frames: those that remain keep what they have,
\* and those that are pending afterwards may be sent once more.
LEMMA SettleFrames ==
    ASSUME TypeOK, Bookkeeping, AttemptsBounded, cur_tx = NoFrame,
           NEW due \in SUBSET Range(wait_ack_list), NEW acked,
           Settle(due, acked), cur_tx' = cur_tx
    PROVE  /\ used' \in SUBSET Slot
           /\ fbuf' \in [Slot -> Fbuf]
           /\ AttemptsBounded'
<1> DEFINE R == Retried(due, acked)
<1>1. /\ Range(wait_ack_list') = Range(wait_ack_list) \ due
      /\ Range(pending_tx_list') = Range(pending_tx_list) \cup R
      /\ used' = used \ (due \ R) /\ Bookkeeping'
  BY SettleLists
<1>2. fbuf' = [f \in Slot |-> IF f \in due \ R THEN ZeroFbuf ELSE fbuf[f]]
  BY DEF Settle
<1>3. used' \in SUBSET Slot /\ fbuf' \in [Slot -> Fbuf]
  BY <1>1, <1>2, ZeroFbufType DEF TypeOK
<1>4. ASSUME NEW f \in used'
      PROVE  /\ fbuf'[f].tx_fail_times <= LPWAN_DE_MAX_TX_FAIL_NUM
             /\ IF f \in Range(wait_ack_list') \/ f = cur_tx'
                THEN fbuf'[f].transmit_times \in 1..MaxTransmissions
                ELSE fbuf'[f].transmit_times < MaxTransmissions
  <2>1. f \in used /\ f \in Slot /\ f # cur_tx /\ fbuf'[f] = fbuf[f] /\ fbuf[f] \in Fbuf
    BY <1>1, <1>2, <1>3, TxFramesMgmtAssumption DEF TypeOK
  <2>2. CASE f \in R
    <3>1. f \notin Range(wait_ack_list') /\ MayRetry(f)
      BY <1>1, <2>2 DEF Retried
    <3> QED BY <2>1, <3>1 DEF MayRetry, AttemptsBounded
  <2>3. CASE f \notin R
    <3>1. f \in Range(wait_ack_list') <=> f \in Range(wait_ack_list)
      BY <1>1, <2>1, <2>3
    <3> QED BY <2>1, <3>1 DEF AttemptsBounded
  <2> QED BY <2>2, <2>3
<1> QED
  BY <1>3, <1>4 DEF AttemptsBounded

(***************************************************************************)
(* Every action preserves the invariant.                                   *)
(***************************************************************************)
LEMMA InitInvariant == Init => IInv
<1> SUFFICES ASSUME Init PROVE IInv
  OBVIOUS
<1>1. <<>> \in Seq(Slot) /\ Range(<<>>) = {} /\ IsInjective(<<>>) /\ Len(<<>>) = 0
  BY DEF Range, IsInjective
<1>2. 0 \in FrameSeq /\ 0 \in BeaconSeqNum
  BY TxFramesMgmtAssumption, BeaconMaxSeqNumAssumption
     DEF FrameSeq, BeaconSeqNum, BEACON_OVERFLOW_SEQ_NUM
<1>3. TypeOK
  BY <1>1, <1>2, ZeroFbufType DEF Init, TypeOK, MacState
<1>4. Bookkeeping
  BY <1>1 DEF Init, Bookkeeping, BlocksAccounted, CountersCover
<1>5. MembershipScoped /\ AttemptsBounded /\ AssertionsHold
  BY TxFramesMgmtAssumption DEF Init, MembershipScoped, AttemptsBounded, AssertionsHold
<1> QED
  BY <1>3, <1>4, <1>5 DEF IInv

\* A failed assertion leaves everything else alone.
LEMMA HaltInvariant ==
    ASSUME IInv, NEW a \in {"PendingListNotEmpty", "AckNotOverdue"}, Halt(a)
    PROVE  IInv'
<1>1. TypeOK'
  <2>1. used' \in SUBSET Slot /\ Record(NoAck)
    BY DEF IInv, TypeOK, Halt, pool
  <2>2. HistoryType'
    BY <2>1, QuietRecordType
  <2> QED BY <2>2 DEF IInv, TypeOK, Halt, pool, seqid, Assertion, HistoryType
<1>2. Bookkeeping'
  BY DEF IInv, Bookkeeping, BlocksAccounted, CountersCover, Halt, pool
<1>3. MembershipScoped' /\ AttemptsBounded'
  BY DEF IInv, MembershipScoped, AttemptsBounded, HasPendingJoinReq, MayRetry, Halt, pool
<1>4. AssertionsHold'
  BY DEF AssertionsHold, Halt
<1> QED
  BY <1>1, <1>2, <1>3, <1>4 DEF IInv

LEMMA PutMsgInvariant == IInv /\ mac_tx_frames_put_msg => IInv'
<1> SUFFICES ASSUME IInv, mac_tx_frames_put_msg PROVE IInv'
  OBVIOUS
<1> USE DEF IInv, pool, seqid
<1>1. PICK f \in Slot \ used :
        /\ used' = used \cup {f}
        /\ fbuf' = [fbuf EXCEPT ![f] = ZeroFbuf]
        /\ pending_tx_list' = Append(pending_tx_list, f)
  BY DEF mac_tx_frames_put_msg
<1>2. /\ pending_tx_list_len' = pending_tx_list_len + 1 /\ mac_state = "JOINED"
      /\ UNCHANGED <<wait_ack_list, wait_ack_list_len, seqid, join_req,
                     mac_state, cur_tx, halted>>
      /\ Record(NoAck)
  BY DEF mac_tx_frames_put_msg
<1>3. /\ f \in Slot /\ f \notin Range(pending_tx_list) /\ f \notin Range(wait_ack_list)
      /\ pending_tx_list \in Seq(Slot) /\ IsInjective(pending_tx_list)
  BY <1>1 DEF TypeOK, Bookkeeping, BlocksAccounted
<1>4. /\ pending_tx_list' \in Seq(Slot) /\ IsInjective(pending_tx_list')
      /\ Len(pending_tx_list') = Len(pending_tx_list) + 1
      /\ Range(pending_tx_list') = Range(pending_tx_list) \cup {f}
  BY <1>1, <1>3, AppendRange
<1>5. TypeOK'
  <2>1. used' \in SUBSET Slot
    BY <1>1 DEF TypeOK
  <2>2. HistoryType'
    BY <1>2, <2>1, QuietRecordType
  <2> QED BY <1>1, <1>2, <1>4, <2>1, <2>2, ZeroFbufType DEF TypeOK, HistoryType
<1>6. Bookkeeping'
  <2>1. Len(pending_tx_list) \in Nat /\ pending_tx_list_len \in Int
    BY DEF TypeOK
  <2> QED BY <1>1, <1>2, <1>3, <1>4, <2>1 DEF Bookkeeping, BlocksAccounted, CountersCover
<1>7. MembershipScoped'
  BY <1>1, <1>2, <1>4 DEF MembershipScoped, HasPendingJoinReq
<1>8. AttemptsBounded'
  <2>1. f # cur_tx
    BY <1>3 DEF MembershipScoped
  <2>2. /\ ZeroFbuf.transmit_times = 0 /\ ZeroFbuf.tx_fail_times = 0
        /\ 0 <= LPWAN_DE_MAX_TX_FAIL_NUM /\ 0 < MaxTransmissions
    BY TxFramesMgmtAssumption DEF ZeroFbuf, MaxTransmissions
  <2>3. fbuf'[f] = ZeroFbuf /\ \A g \in used : fbuf'[g] = fbuf[g]
    BY <1>1 DEF TypeOK
  <2> QED BY <1>1, <1>2, <1>3, <2>1, <2>2, <2>3 DEF AttemptsBounded
<1>9. AssertionsHold'
  BY <1>2 DEF AssertionsHold
<1> QED
  BY <1>5, <1>6, <1>7, <1>8, <1>9

LEMMA HasPendingTxInvariant == IInv /\ mac_tx_frames_has_pending_tx => IInv'
<1> SUFFICES ASSUME IInv, mac_tx_frames_has_pending_tx PROVE IInv'
  OBVIOUS
<1>1. CASE Halt("PendingListNotEmpty")
  BY <1>1, HaltInvariant
<1>2. CASE /\ mac_state \in {"DENIED", "JOINING", "JOINED"} /\ HasPendingJoinReq
           /\ mac_state # "JOINING"
  BY <1>2 DEF IInv, MembershipScoped, HasPendingJoinReq
<1> QED
  BY <1>1, <1>2 DEF mac_tx_frames_has_pending_tx

LEMMA PrepareTxMsgInvariant ==
    ASSUME IInv, NEW bcn \in Beacon, mac_tx_frames_prepare_tx_msg(bcn)
    PROVE  IInv'
<1>1. CASE pending_tx_list = <<>>
  BY <1>1, HaltInvariant DEF mac_tx_frames_prepare_tx_msg
<1>2. CASE pending_tx_list # <<>>
  <2> DEFINE f   == Head(pending_tx_list)
             seq == IF IsNewTx(f) THEN NextFrameSeq ELSE fbuf[f].seq
             exp == calc_expected_beacon_seq_id(bcn, PACKED_ACK_DELAY_NUM)
  <2>1. /\ mac_state = "JOINED" /\ cur_tx = NoFrame
        /\ fbuf' = [fbuf EXCEPT ![f].transmit_times = @ + 1,
                                ![f].seq = seq, ![f].expected = exp]
        /\ tx_frame_seq_id' = IF IsNewTx(f) THEN seq ELSE tx_frame_seq_id
        /\ cur_tx' = f
        /\ UNCHANGED <<wait_ack_list, wait_ack_list_len, pending_tx_list,
                       pending_tx_list_len, used, run_first_time,
                       join_req, mac_state, halted>>
        /\ Record(NoAck)
    BY <1>2 DEF mac_tx_frames_prepare_tx_msg
  <2>2. f \in Range(pending_tx_list) /\ f \in Slot
    BY <1>2 DEF IInv, TypeOK, Range
  <2>3. fbuf[f] \in Fbuf /\ seq \in FrameSeq /\ exp \in BeaconSeqNum
    BY <2>2, NextFrameSeqType, ExpectedType, TxFramesMgmtAssumption
       DEF IInv, TypeOK, Fbuf
  <2> HIDE DEF f, seq, exp
  <2>4. /\ fbuf'[f] = [fbuf[f] EXCEPT !.transmit_times = @ + 1, !.seq = seq, !.expected = exp]
        /\ \A g \in Slot : g # f => fbuf'[g] = fbuf[g]
    BY <2>1, <2>2 DEF IInv, TypeOK
  <2>5. TypeOK'
    <3>1. fbuf' \in [Slot -> Fbuf]
      <4>1. fbuf'[f] \in Fbuf
        <5>1. [fbuf[f] EXCEPT !.transmit_times = @ + 1] \in Fbuf
          BY <2>3 DEF Fbuf
        <5>2. \A r \in Fbuf : [r EXCEPT !.seq = seq, !.expected = exp] \in Fbuf
          BY <2>3 DEF Fbuf
        <5>3. fbuf'[f] = [[fbuf[f] EXCEPT !.transmit_times = @ + 1]
                            EXCEPT !.seq = seq, !.expected = exp]
          BY <2>4
        <5> QED BY <5>1, <5>2, <5>3
      <4>2. fbuf' = [g \in Slot |-> fbuf'[g]]
        BY <2>1 DEF IInv, TypeOK
      <4>3. \A g \in Slot : fbuf'[g] \in Fbuf
        BY <2>4, <4>1 DEF IInv, TypeOK
      <4> HIDE DEF Fbuf
      <4> QED BY <4>2, <4>3
    <3>2. tx_frame_seq_id' \in FrameSeq
      BY <2>1, <2>3 DEF IInv, TypeOK
    <3>3. HistoryType'
      BY <2>1, QuietRecordType DEF IInv, TypeOK
    <3> QED BY <2>1, <2>2, <3>1, <3>2, <3>3 DEF IInv, TypeOK, HistoryType
  <2>6. Bookkeeping'
    BY <2>1 DEF IInv, Bookkeeping, BlocksAccounted, CountersCover
  <2>7. MembershipScoped'
    <3>1. f # JoinReq
      BY <2>2, TxFramesMgmtAssumption
    <3> QED BY <2>1, <2>2, <3>1 DEF IInv, MembershipScoped, HasPendingJoinReq
  <2>8. AttemptsBounded'
    <3>1. f \in used /\ f \notin Range(wait_ack_list) /\ f # cur_tx
      BY <2>1, <2>2, TxFramesMgmtAssumption DEF IInv, Bookkeeping, BlocksAccounted
    <3>2. /\ fbuf[f].transmit_times < MaxTransmissions /\ fbuf[f].transmit_times \in Nat
          /\ fbuf[f].tx_fail_times <= LPWAN_DE_MAX_TX_FAIL_NUM
      BY <2>3, <3>1 DEF IInv, AttemptsBounded, Fbuf
    <3>3. /\ fbuf'[f].transmit_times \in 1..MaxTransmissions
          /\ fbuf'[f].tx_fail_times <= LPWAN_DE_MAX_TX_FAIL_NUM
      BY <2>3, <2>4, <3>2, TxFramesMgmtAssumption DEF Fbuf, MaxTransmissions
    <3>4. used \subseteq Slot /\ NoFrame \notin Slot
      BY TxFramesMgmtAssumption DEF IInv, TypeOK
    <3> QED BY <2>1, <2>4, <3>1, <3>3, <3>4 DEF IInv, AttemptsBounded
  <2>9. AssertionsHold'
    BY <2>1 DEF IInv, AssertionsHold
  <2> QED
    BY <2>5, <2>6, <2>7, <2>8, <2>9 DEF IInv
<1> QED
  BY <1>1, <1>2

LEMMA TxMsgOkInvariant == IInv /\ mac_tx_frames_handle_tx_msg_ok => IInv'
<1> SUFFICES ASSUME IInv, mac_tx_frames_handle_tx_msg_ok PROVE IInv'
  OBVIOUS
<1>1. cur_tx \in Slot /\ mac_state = "JOINED" /\ cur_tx \in Range(pending_tx_list)
  BY DEF IInv, MembershipScoped, mac_tx_frames_handle_tx_msg_ok
<1>2. IsWithinPendingList(cur_tx)
  <2>1. pending_tx_list \in Seq(Slot) /\ pending_tx_list_len \in Int
    BY DEF IInv, TypeOK
  <2>2. Len(pending_tx_list) > 0
    BY <1>1, <2>1 DEF Range
  <2>3. pending_tx_list_len >= Len(pending_tx_list)
    BY DEF IInv, Bookkeeping, CountersCover
  <2> QED BY <1>1, <2>1, <2>2, <2>3 DEF IsWithinPendingList
<1>3. /\ pending_tx_list' \in Unlinked(pending_tx_list, {cur_tx})
      /\ wait_ack_list' = Append(wait_ack_list, cur_tx)
      /\ pending_tx_list_len' = pending_tx_list_len - 1
      /\ wait_ack_list_len' = wait_ack_list_len + 1
      /\ cur_tx' = NoFrame
      /\ UNCHANGED <<used, fbuf, seqid, join_req, mac_state, halted>>
      /\ Record(NoAck)
  BY <1>2 DEF mac_tx_frames_handle_tx_msg_ok
<1>4. /\ pending_tx_list' \in Seq(Slot) /\ IsInjective(pending_tx_list')
      /\ Range(pending_tx_list') = Range(pending_tx_list) \ {cur_tx}
      /\ Len(pending_tx_list') = Len(pending_tx_list) - 1
  BY <1>1, <1>3, UnlinkCurTx DEF IInv
<1>5. /\ wait_ack_list \in Seq(Slot) /\ IsInjective(wait_ack_list)
      /\ used = Range(pending_tx_list) \cup Range(wait_ack_list)
      /\ Range(pending_tx_list) \cap Range(wait_ack_list) = {}
      /\ wait_ack_list_len = Len(wait_ack_list)
      /\ pending_tx_list_len >= Len(pending_tx_list)
      /\ pending_tx_list_len \in Int /\ pending_tx_list \in Seq(Slot)
  BY DEF IInv, TypeOK, Bookkeeping, BlocksAccounted, CountersCover
<1>6. /\ wait_ack_list' \in Seq(Slot) /\ IsInjective(wait_ack_list')
      /\ Range(wait_ack_list') = Range(wait_ack_list) \cup {cur_tx}
      /\ Len(wait_ack_list') = Len(wait_ack_list) + 1
  BY <1>1, <1>3, <1>5, AppendRange
<1>7. Len(pending_tx_list) \in Nat /\ Len(wait_ack_list) \in Nat
  BY <1>5
<1>8. TypeOK'
  <2>1. HistoryType'
    BY <1>3, QuietRecordType DEF IInv, TypeOK
  <2> QED BY <1>3, <1>4, <1>5, <1>6, <1>7, <2>1 DEF IInv, TypeOK, seqid, HistoryType
<1>9. Bookkeeping'
  BY <1>1, <1>3, <1>4, <1>5, <1>6, <1>7 DEF Bookkeeping, BlocksAccounted, CountersCover
<1>10. MembershipScoped'
  BY <1>1, <1>3, TxFramesMgmtAssumption DEF IInv, MembershipScoped
<1>11. AttemptsBounded'
  <2>1. used \subseteq Slot /\ NoFrame \notin Slot
    BY TxFramesMgmtAssumption DEF IInv, TypeOK
  <2> QED BY <1>3, <1>6, <2>1 DEF IInv, AttemptsBounded
<1> QED
  BY <1>3, <1>8, <1>9, <1>10, <1>11 DEF IInv, AssertionsHold

LEMMA TxMsgFailedInvariant == IInv /\ mac_tx_frames_handle_tx_msg_failed => IInv'
<1> SUFFICES ASSUME IInv, mac_tx_frames_handle_tx_msg_failed PROVE IInv'
  OBVIOUS
<1> DEFINE times == fbuf[cur_tx].transmit_times - 1
           fails == fbuf[cur_tx].tx_fail_times + 1
           drop  == times >= MaxTransmissions \/ fails > LPWAN_DE_MAX_TX_FAIL_NUM
<1>1. cur_tx \in Slot /\ mac_state = "JOINED" /\ cur_tx \in Range(pending_tx_list)
  BY DEF IInv, MembershipScoped, mac_tx_frames_handle_tx_msg_failed
<1>2. /\ pending_tx_list \in Seq(Slot) /\ Len(pending_tx_list) \in Nat
      /\ pending_tx_list_len \in Int /\ pending_tx_list_len >= Len(pending_tx_list)
      /\ used = Range(pending_tx_list) \cup Range(wait_ack_list)
      /\ Range(pending_tx_list) \cap Range(wait_ack_list) = {}
      /\ used \subseteq Slot /\ fbuf \in [Slot -> Fbuf]
  BY DEF IInv, TypeOK, Bookkeeping, BlocksAccounted, CountersCover
<1>3. IsWithinPendingList(cur_tx)
  <2>1. Len(pending_tx_list) > 0
    BY <1>1, <1>2 DEF Range
  <2> QED BY <1>1, <1>2, <2>1 DEF IsWithinPendingList
<1>4. /\ cur_tx' = NoFrame
      /\ UNCHANGED <<wait_ack_list, wait_ack_list_len, pending_tx_list_len,
                     seqid, join_req, mac_state, halted>>
      /\ Record(NoAck)
      /\ \/ /\ pending_tx_list' \in Unlinked(pending_tx_list, {cur_tx})
            /\ used' = used \ {cur_tx}
            /\ fbuf' = [fbuf EXCEPT ![cur_tx] = ZeroFbuf]
         \/ /\ ~drop
            /\ fbuf' = [fbuf EXCEPT ![cur_tx].transmit_times = times,
                                    ![cur_tx].tx_fail_times = fails]
            /\ UNCHANGED <<pending_tx_list, used>>
  BY <1>3 DEF mac_tx_frames_handle_tx_msg_failed
<1>5. /\ fbuf[cur_tx] \in Fbuf /\ cur_tx \in used
      /\ fbuf[cur_tx].transmit_times \in 1..MaxTransmissions
  BY <1>1, <1>2 DEF IInv, AttemptsBounded
<1>6. MembershipScoped' /\ AssertionsHold'
  BY <1>1, <1>4, TxFramesMgmtAssumption DEF IInv, MembershipScoped, AssertionsHold
<1>7. NoFrame \notin Slot /\ MaxTransmissions \in Nat /\ LPWAN_DE_MAX_TX_FAIL_NUM \in Nat
  BY TxFramesMgmtAssumption DEF MaxTransmissions
<1>8. CASE /\ pending_tx_list' \in Unlinked(pending_tx_list, {cur_tx})
           /\ used' = used \ {cur_tx}
           /\ fbuf' = [fbuf EXCEPT ![cur_tx] = ZeroFbuf]
  <2>1. /\ pending_tx_list' \in Seq(Slot) /\ IsInjective(pending_tx_list')
        /\ Range(pending_tx_list') = Range(pending_tx_list) \ {cur_tx}
        /\ Len(pending_tx_list') = Len(pending_tx_list) - 1
    BY <1>1, <1>8, UnlinkCurTx DEF IInv
  <2>2. TypeOK'
    <3>1. HistoryType'
      BY <1>2, <1>4, <1>8, QuietRecordType
    <3> QED BY <1>2, <1>4, <1>8, <2>1, <3>1, ZeroFbufType
            DEF IInv, TypeOK, seqid, HistoryType
  <2>3. Bookkeeping'
    BY <1>1, <1>2, <1>4, <1>8, <2>1
       DEF IInv, Bookkeeping, BlocksAccounted, CountersCover
  <2>4. AttemptsBounded'
    <3>1. \A g \in used' : g \in used /\ g # cur_tx /\ fbuf'[g] = fbuf[g]
      BY <1>2, <1>8
    <3> QED BY <1>2, <1>4, <1>7, <1>8, <3>1 DEF IInv, AttemptsBounded
  <2> QED BY <1>6, <2>2, <2>3, <2>4 DEF IInv
<1>9. CASE /\ ~drop
           /\ fbuf' = [fbuf EXCEPT ![cur_tx].transmit_times = times,
                                   ![cur_tx].tx_fail_times = fails]
           /\ UNCHANGED <<pending_tx_list, used>>
  <2>1. times \in Nat /\ fails \in Nat /\ times < MaxTransmissions
        /\ fails <= LPWAN_DE_MAX_TX_FAIL_NUM
    BY <1>5, <1>7, <1>9 DEF Fbuf
  <2> HIDE DEF times, fails, drop
  <2>2. /\ fbuf'[cur_tx] = [fbuf[cur_tx] EXCEPT !.transmit_times = times,
                                               !.tx_fail_times = fails]
        /\ \A g \in Slot : g # cur_tx => fbuf'[g] = fbuf[g]
        /\ fbuf' = [g \in Slot |-> fbuf'[g]]
    BY <1>1, <1>2, <1>9
  <2>3. TypeOK'
    <3>1. fbuf'[cur_tx] \in Fbuf
      BY <1>5, <2>1, <2>2 DEF Fbuf
    <3>2. fbuf' \in [Slot -> Fbuf]
      BY <1>2, <2>2, <3>1
    <3>3. HistoryType'
      BY <1>2, <1>4, <1>9, QuietRecordType
    <3> QED BY <1>4, <1>9, <3>2, <3>3 DEF IInv, TypeOK, seqid, HistoryType
  <2>4. Bookkeeping'
    BY <1>4, <1>9 DEF IInv, Bookkeeping, BlocksAccounted, CountersCover
  <2>5. AttemptsBounded'
    <3>1. cur_tx \notin Range(wait_ack_list)
      BY <1>1, <1>2
    <3>2. /\ fbuf'[cur_tx].transmit_times < MaxTransmissions
          /\ fbuf'[cur_tx].tx_fail_times <= LPWAN_DE_MAX_TX_FAIL_NUM
      BY <1>5, <2>1, <2>2 DEF Fbuf
    <3> QED BY <1>2, <1>4, <1>7, <1>9, <2>2, <3>1, <3>2 DEF IInv, AttemptsBounded
  <2> QED BY <1>6, <2>3, <2>4, <2>5 DEF IInv
<1> QED
  BY <1>4, <1>8, <1>9

LEMMA CheckAckInvariant ==
    ASSUME IInv, NEW bcn \in Beacon, NEW confirmed \in SUBSET FrameSeq,
           CheckAck(bcn, confirmed)
    PROVE  IInv'
<1>1. CASE Halt("AckNotOverdue")
  BY <1>1, HaltInvariant
<1>2. CASE ~Halt("AckNotOverdue")
  <2> DEFINE due   == {f \in Range(wait_ack_list) : AckDelta(f, bcn) = 0}
             acked == Confirmed(due, confirmed)
  <2>1. /\ mac_state = "JOINED" /\ cur_tx = NoFrame /\ Settle(due, acked)
        /\ UNCHANGED <<seqid, join_req, mac_state, cur_tx, halted>>
        /\ Record([beacon : {bcn}, seq : confirmed])
    BY <1>2 DEF CheckAck
  <2>2. due \in SUBSET Range(wait_ack_list)
    OBVIOUS
  <2> HIDE DEF due, acked
  <2>3. /\ wait_ack_list' \in Seq(Slot) /\ pending_tx_list' \in Seq(Slot)
        /\ wait_ack_list_len' \in Int /\ pending_tx_list_len' \in Int
        /\ Bookkeeping'
    BY <2>1, <2>2, SettleLists DEF IInv
  <2>4. used' \in SUBSET Slot /\ fbuf' \in [Slot -> Fbuf] /\ AttemptsBounded'
    BY <2>1, <2>2, SettleFrames DEF IInv
  <2>5. TypeOK'
    <3>1. [beacon : {bcn}, seq : confirmed] \in SUBSET [beacon : BeaconSeqNum, seq : FrameSeq]
      BY TxFramesMgmtAssumption
    <3>2. HistoryType'
      BY <2>1, <2>4, <3>1, RecordType
    <3> QED BY <2>1, <2>3, <2>4, <3>2 DEF IInv, TypeOK, seqid, HistoryType
  <2>6. MembershipScoped' /\ AssertionsHold'
    BY <2>1, TxFramesMgmtAssumption
       DEF IInv, MembershipScoped, AssertionsHold, HasPendingJoinReq
  <2> QED BY <2>3, <2>4, <2>5, <2>6 DEF IInv
<1> QED
  BY <1>1, <1>2

\* With every waiting frame settled the wait list is empty.
LEMMA LostBeaconInvariant ==
    ASSUME IInv, NEW next_state \in {mac_state, "INITED"}, LostBeacon(next_state)
    PROVE  IInv'
<1>1. /\ cur_tx = NoFrame /\ mac_state' = next_state /\ UNCHANGED <<seqid, cur_tx>>
      /\ mac_state \in {"JOINING", "JOINED"} /\ cur_tx \notin Slot /\ cur_tx # JoinReq
      /\ Record(NoAck)
  BY TxFramesMgmtAssumption DEF LostBeacon, mac_tx_frames_handle_lost_beacon
<1>2. CASE mac_state = "JOINING"
  <2>1. /\ join_req' = [join_req EXCEPT !.has_been_tx = FALSE]
        /\ halted' = halted /\ UNCHANGED pool
    BY <1>2 DEF LostBeacon, mac_tx_frames_handle_lost_beacon
  <2>2. TypeOK'
    <3>1. HistoryType'
      BY <1>1, <2>1, QuietRecordType DEF IInv, TypeOK, pool
    <3> QED BY <1>1, <1>2, <2>1, <3>1 DEF IInv, TypeOK, MacState, seqid, pool, HistoryType
  <2>3. Bookkeeping'
    BY <2>1 DEF IInv, Bookkeeping, BlocksAccounted, CountersCover, pool
  <2>4. MembershipScoped' /\ AssertionsHold'
    BY <1>1, <1>2, <2>1 DEF IInv, MembershipScoped, AssertionsHold, pool
  <2>5. AttemptsBounded'
    BY <1>1, <2>1 DEF IInv, AttemptsBounded, pool
  <2> QED BY <2>2, <2>3, <2>4, <2>5 DEF IInv
<1>3. CASE mac_state = "JOINED"
  <2>1. /\ Settle(WaitingFrames, {}) /\ join_req' = join_req
        /\ halted' = IF wait_ack_list_len' # 0 THEN "WaitListDrained" ELSE halted
    BY <1>3 DEF LostBeacon, mac_tx_frames_handle_lost_beacon
  <2>2. WaitingFrames \in SUBSET Range(wait_ack_list)
        /\ Range(wait_ack_list) \ WaitingFrames = {}
    BY DEF WaitingFrames
  <2>3. /\ wait_ack_list' \in Seq(Slot) /\ pending_tx_list' \in Seq(Slot)
        /\ wait_ack_list_len' \in Int /\ pending_tx_list_len' \in Int
        /\ Range(wait_ack_list') = {} /\ Bookkeeping'
    BY <2>1, <2>2, SettleLists DEF IInv
  <2>4. used' \in SUBSET Slot /\ fbuf' \in [Slot -> Fbuf] /\ AttemptsBounded'
    BY <1>1, <2>1, <2>2, SettleFrames DEF IInv
  <2>5. wait_ack_list' = <<>> /\ wait_ack_list_len' = 0
    <3>1. wait_ack_list' = <<>>
      BY <2>3, EmptyRange
    <3> QED BY <2>3, <3>1 DEF Bookkeeping, CountersCover
  <2>6. TypeOK'
    <3>1. HistoryType'
      BY <1>1, <2>4, QuietRecordType
    <3> QED BY <1>1, <1>3, <2>1, <2>3, <2>4, <2>5, <3>1
            DEF IInv, TypeOK, MacState, seqid, HistoryType
  <2>7. MembershipScoped' /\ AssertionsHold'
    BY <1>1, <1>3, <2>1, <2>5 DEF IInv, MembershipScoped, AssertionsHold
  <2> QED BY <2>3, <2>4, <2>6, <2>7 DEF IInv
<1> QED
  BY <1>1, <1>2, <1>3

\* Searching for a beacon and the JOIN_REQ do not touch the pool.
LEMMA JoiningInvariant ==
    ASSUME IInv,
           \/ StartJoining \/ SearchFailed \/ mac_tx_frames_init_join_req
           \/ \E bcn \in Beacon : mac_tx_frames_prepare_join_req(bcn)
           \/ \E sent \in BOOLEAN : HandleTxJoin(sent)
           \/ \E bcn \in Beacon : HandleJoinAck(bcn)
           \/ mac_tx_frames_handle_join_denied
    PROVE  IInv'
<1> USE DEF seqid
<1>1. UNCHANGED <<pool, halted>> /\ mac_state # "JOINED" /\ mac_state' # "JOINED"
  <2>1. CASE cur_tx = JoinReq
    BY <2>1 DEF IInv, MembershipScoped, StartJoining, SearchFailed,
       mac_tx_frames_init_join_req, mac_tx_frames_prepare_join_req, HandleTxJoin,
       HandleJoinAck, mac_tx_frames_handle_join_denied
  <2>2. CASE cur_tx # JoinReq
    BY <2>2 DEF StartJoining, SearchFailed,
       mac_tx_frames_init_join_req, mac_tx_frames_prepare_join_req, HandleTxJoin,
       HandleJoinAck, mac_tx_frames_handle_join_denied
  <2> QED BY <2>1, <2>2
<1>2. cur_tx \notin Slot /\ cur_tx' \notin Slot
  BY <1>1, TxFramesMgmtAssumption
     DEF IInv, MembershipScoped, StartJoining, SearchFailed,
       mac_tx_frames_init_join_req, mac_tx_frames_prepare_join_req, HandleTxJoin,
       HandleJoinAck, mac_tx_frames_handle_join_denied
<1>3. TypeOK'
  <2>1. UNCHANGED pool /\ halted' = halted /\ HistoryType'
    <3>1. Record(NoAck)
      BY DEF StartJoining, SearchFailed,
       mac_tx_frames_init_join_req, mac_tx_frames_prepare_join_req, HandleTxJoin,
       HandleJoinAck, mac_tx_frames_handle_join_denied
    <3> QED BY <1>1, <3>1, QuietRecordType DEF IInv, TypeOK, pool
  <2> USE DEF HistoryType
  <2>2. CASE StartJoining \/ SearchFailed \/ mac_tx_frames_handle_join_denied
    BY <2>1, <2>2 DEF JoinReqGone, IInv, TypeOK, pool, MacState, StartJoining, SearchFailed,
       mac_tx_frames_handle_join_denied
  <2>3. CASE mac_tx_frames_init_join_req
    <3>1. tx_frame_seq_id' \in FrameSeq
      BY <2>3, NextFrameSeqType DEF IInv, TypeOK, mac_tx_frames_init_join_req
    <3> QED BY <2>1, <2>3, <3>1
            DEF IInv, TypeOK, pool, MacState, mac_tx_frames_init_join_req
  <2>4. ASSUME NEW bcn \in Beacon, mac_tx_frames_prepare_join_req(bcn) PROVE TypeOK'
    <3>1. calc_expected_beacon_seq_id(bcn, PACKED_ACK_DELAY_NUM) \in BeaconSeqNum
      BY ExpectedType, TxFramesMgmtAssumption
    <3> QED BY <2>1, <2>4, <3>1
            DEF IInv, TypeOK, pool, MacState, mac_tx_frames_prepare_join_req
  <2>5. ASSUME NEW sent \in BOOLEAN, HandleTxJoin(sent) PROVE TypeOK'
    BY <2>1, <2>5 DEF IInv, TypeOK, pool, MacState, HandleTxJoin
  <2>6. ASSUME NEW bcn \in Beacon, HandleJoinAck(bcn) PROVE TypeOK'
    BY <2>1, <2>6 DEF IInv, TypeOK, pool, MacState, HandleJoinAck
  <2> QED BY <2>2, <2>3, <2>4, <2>5, <2>6
<1>4. Bookkeeping' /\ AssertionsHold'
  BY <1>1 DEF IInv, Bookkeeping, BlocksAccounted, CountersCover, AssertionsHold, pool
<1>5. AttemptsBounded'
  <2>1. used \subseteq Slot
    BY DEF IInv, TypeOK
  <2> QED BY <1>1, <1>2, <2>1 DEF IInv, AttemptsBounded, pool
<1>6. wait_ack_list' = <<>>
  BY <1>1 DEF IInv, MembershipScoped, pool
<1>7. cur_tx' = JoinReq => mac_state' = "JOINING" /\ HasPendingJoinReq'
  BY TxFramesMgmtAssumption
     DEF IInv, TypeOK, MembershipScoped, HasPendingJoinReq, StartJoining, SearchFailed,
       mac_tx_frames_init_join_req, mac_tx_frames_prepare_join_req, HandleTxJoin,
       HandleJoinAck, mac_tx_frames_handle_join_denied
<1>8. mac_state' = "DENIED" => ~join_req'.has_join_req
  BY <1>1 DEF JoinReqGone, IInv, TypeOK, MembershipScoped, StartJoining, SearchFailed,
       mac_tx_frames_init_join_req, mac_tx_frames_prepare_join_req, HandleTxJoin,
       HandleJoinAck, mac_tx_frames_handle_join_denied
<1> QED
  BY <1>1, <1>2, <1>3, <1>4, <1>5, <1>6, <1>7, <1>8 DEF IInv, MembershipScoped

LEMMA JoinOkInvariant == IInv /\ mac_tx_frames_handle_join_ok => IInv'
<1> SUFFICES ASSUME IInv, mac_tx_frames_handle_join_ok PROVE IInv'
  OBVIOUS
<1>1. mac_state = "JOINING" /\ cur_tx = NoFrame /\ wait_ack_list = <<>>
  BY DEF IInv, MembershipScoped, mac_tx_frames_handle_join_ok
<1>2. wait_ack_list_len = 0 /\ used = Range(pending_tx_list)
  BY <1>1 DEF IInv, Bookkeeping, BlocksAccounted, CountersCover, Range
<1>3. /\ fbuf' = [f \in Slot |->
                     IF f \in Range(pending_tx_list)
                     THEN [fbuf[f] EXCEPT !.transmit_times = 0, !.tx_fail_times = 0]
                     ELSE fbuf[f]]
      /\ join_req' = JoinReqGone
      /\ mac_state' = "JOINED"
      /\ UNCHANGED <<wait_ack_list, wait_ack_list_len, pending_tx_list,
                     pending_tx_list_len, used, seqid, cur_tx, halted>>
      /\ Record(NoAck)
  BY <1>2 DEF mac_tx_frames_handle_join_ok
<1>4. TypeOK'
  <2>1. \A r \in Fbuf : [r EXCEPT !.transmit_times = 0, !.tx_fail_times = 0] \in Fbuf
    BY DEF Fbuf
  <2>2. fbuf' \in [Slot -> Fbuf]
    BY <1>3, <2>1 DEF IInv, TypeOK
  <2>3. HistoryType'
    BY <1>3, QuietRecordType DEF IInv, TypeOK
  <2> QED BY <1>3, <2>2, <2>3 DEF IInv, TypeOK, MacState, seqid, JoinReqGone, HistoryType
<1>5. Bookkeeping' /\ AssertionsHold'
  BY <1>3 DEF IInv, Bookkeeping, BlocksAccounted, CountersCover, AssertionsHold
<1>6. MembershipScoped'
  BY <1>1, <1>3, TxFramesMgmtAssumption DEF IInv, TypeOK, MembershipScoped, JoinReqGone
<1>7. AttemptsBounded'
  <2>1. ASSUME NEW f \in used
        PROVE  /\ fbuf'[f].transmit_times = 0 /\ fbuf'[f].tx_fail_times = 0
               /\ f \notin Range(wait_ack_list) /\ f # cur_tx
    <3>1. f \in Slot /\ fbuf[f] \in Fbuf
      BY <2>1 DEF IInv, TypeOK
    <3>2. fbuf'[f] = [fbuf[f] EXCEPT !.transmit_times = 0, !.tx_fail_times = 0]
      BY <1>2, <1>3, <3>1
    <3> QED BY <1>1, <3>1, <3>2, TxFramesMgmtAssumption DEF Fbuf, Range
  <2>2. 0 < MaxTransmissions /\ 0 <= LPWAN_DE_MAX_TX_FAIL_NUM
    BY TxFramesMgmtAssumption DEF MaxTransmissions
  <2> QED BY <1>3, <2>1, <2>2 DEF AttemptsBounded
<1> QED
  BY <1>4, <1>5, <1>6, <1>7 DEF IInv

LEMMA NextInvariant == IInv /\ [Next]_vars => IInv'
<1> SUFFICES ASSUME IInv, [Next]_vars PROVE IInv'
  OBVIOUS
<1>1. CASE UNCHANGED vars
  <2>1. UNCHANGED <<pool, seqid, join_req, mac_state, cur_tx, halted, history>>
    BY <1>1 DEF vars
  <2>2. TypeOK' /\ MembershipScoped' /\ AssertionsHold'
    BY <2>1 DEF IInv, TypeOK, MembershipScoped, HasPendingJoinReq, AssertionsHold,
       pool, seqid, history
  <2>3. Bookkeeping' /\ AttemptsBounded'
    BY <2>1 DEF IInv, Bookkeeping, BlocksAccounted, CountersCover, AttemptsBounded, pool
  <2> QED BY <2>2, <2>3 DEF IInv
<1>2. CASE mac_tx_frames_put_msg
  BY <1>2, PutMsgInvariant
<1>3. CASE mac_tx_frames_has_pending_tx
  BY <1>3, HasPendingTxInvariant
<1>4. CASE \E bcn \in Beacon : mac_tx_frames_prepare_tx_msg(bcn)
  BY <1>4, PrepareTxMsgInvariant
<1>5. CASE mac_tx_frames_handle_tx_msg_ok
  BY <1>5, TxMsgOkInvariant
<1>6. CASE mac_tx_frames_handle_tx_msg_failed
  BY <1>6, TxMsgFailedInvariant
<1>7. CASE \E bcn \in Beacon, seq \in FrameSeq : mac_tx_frames_handle_check_ack(bcn, seq)
  <2>1. PICK bcn \in Beacon, seq \in FrameSeq : CheckAck(bcn, {seq})
    BY <1>7 DEF mac_tx_frames_handle_check_ack
  <2> QED BY <2>1, CheckAckInvariant
<1>8. CASE \E bcn \in Beacon : mac_tx_frames_handle_no_ack(bcn)
  BY <1>8, CheckAckInvariant DEF mac_tx_frames_handle_no_ack
<1>9. CASE LostBeacon(mac_state) \/ LostBeacon("INITED")
  BY <1>9, LostBeaconInvariant
<1>10. CASE \/ StartJoining \/ SearchFailed \/ mac_tx_frames_init_join_req
            \/ \E bcn \in Beacon : mac_tx_frames_prepare_join_req(bcn)
            \/ \E sent \in BOOLEAN : HandleTxJoin(sent)
            \/ \E bcn \in Beacon : HandleJoinAck(bcn)
            \/ mac_tx_frames_handle_join_denied
  BY <1>10, JoiningInvariant
<1>11. CASE mac_tx_frames_handle_join_ok
  BY <1>11, JoinOkInvariant
<1> QED
  BY <1>1, <1>2, <1>3, <1>4, <1>5, <1>6, <1>7, <1>8, <1>9, <1>10, <1>11 DEF Next

(***************************************************************************)
(* What a step may not do.                                                 *)
(***************************************************************************)

\* The steps that change neither the pool nor the frame on the air, and the
\* others.
QuietStep ==
    /\ UNCHANGED pool
    /\ mac_state' = "JOINED" => mac_state = "JOINED"
    /\ cur_tx' # cur_tx => cur_tx' \notin Slot /\ cur_tx \notin Slot
    /\ Record(NoAck)

LostBeaconStep ==
    /\ mac_state = "JOINED" /\ cur_tx = NoFrame /\ cur_tx' = cur_tx
    /\ Settle(WaitingFrames, {})
    /\ Record(NoAck)

LEMMA PoolSteps ==
    ASSUME Next
    PROVE  \/ QuietStep
           \/ mac_tx_frames_put_msg
           \/ \E bcn \in Beacon :
                 mac_tx_frames_prepare_tx_msg(bcn) /\ pending_tx_list # <<>>
           \/ mac_tx_frames_handle_tx_msg_ok /\ IsWithinPendingList(cur_tx)
           \/ mac_tx_frames_handle_tx_msg_failed /\ IsWithinPendingList(cur_tx)
           \/ \E bcn \in Beacon, confirmed \in SUBSET FrameSeq :
                 CheckAck(bcn, confirmed) /\ ~Halt("AckNotOverdue")
           \/ LostBeaconStep
           \/ mac_tx_frames_handle_join_ok /\ wait_ack_list_len = 0
<1>1. ASSUME NEW a, Halt(a) PROVE QuietStep
  BY <1>1 DEF Halt, QuietStep
<1>2. CASE \/ StartJoining \/ SearchFailed \/ mac_tx_frames_init_join_req
           \/ \E bcn \in Beacon : mac_tx_frames_prepare_join_req(bcn)
           \/ \E sent \in BOOLEAN : HandleTxJoin(sent)
           \/ \E bcn \in Beacon : HandleJoinAck(bcn)
           \/ mac_tx_frames_handle_join_denied
  <2>1. JoinReq \notin Slot /\ NoFrame \notin Slot
    BY TxFramesMgmtAssumption
  <2> QED BY <1>2, <2>1 DEF StartJoining, SearchFailed, mac_tx_frames_init_join_req,
       mac_tx_frames_prepare_join_req, HandleTxJoin, HandleJoinAck,
       mac_tx_frames_handle_join_denied, QuietStep
<1>3. CASE LostBeacon(mac_state) \/ LostBeacon("INITED")
  <2>1. CASE mac_state = "JOINED"
    BY <1>3, <2>1 DEF LostBeacon, mac_tx_frames_handle_lost_beacon, LostBeaconStep
  <2>2. CASE mac_state # "JOINED"
    BY <1>3, <2>2 DEF LostBeacon, mac_tx_frames_handle_lost_beacon, QuietStep
  <2> QED BY <2>1, <2>2
<1>4. CASE mac_tx_frames_has_pending_tx
  BY <1>1, <1>4 DEF mac_tx_frames_has_pending_tx
<1>5. ASSUME NEW bcn \in Beacon, NEW confirmed \in SUBSET FrameSeq,
             CheckAck(bcn, confirmed), ~QuietStep
      PROVE  CheckAck(bcn, confirmed) /\ ~Halt("AckNotOverdue")
  BY <1>1, <1>5
<1>6. ASSUME NEW bcn \in Beacon, NEW seq \in FrameSeq,
             mac_tx_frames_handle_check_ack(bcn, seq)
      PROVE  CheckAck(bcn, {seq}) /\ {seq} \in SUBSET FrameSeq
  BY <1>6 DEF mac_tx_frames_handle_check_ack
<1>7. ASSUME NEW bcn \in Beacon, mac_tx_frames_handle_no_ack(bcn)
      PROVE  CheckAck(bcn, {}) /\ {} \in SUBSET FrameSeq
  BY <1>7 DEF mac_tx_frames_handle_no_ack
<1>8. ASSUME NEW bcn \in Beacon, mac_tx_frames_prepare_tx_msg(bcn), ~QuietStep
      PROVE  pending_tx_list # <<>>
  BY <1>1, <1>8 DEF mac_tx_frames_prepare_tx_msg
<1>9. ASSUME mac_tx_frames_handle_tx_msg_ok \/ mac_tx_frames_handle_tx_msg_failed,
             ~QuietStep
      PROVE  IsWithinPendingList(cur_tx)
  BY <1>1, <1>9 DEF mac_tx_frames_handle_tx_msg_ok, mac_tx_frames_handle_tx_msg_failed
<1>10. ASSUME mac_tx_frames_handle_join_ok, ~QuietStep
       PROVE  wait_ack_list_len = 0
  BY <1>1, <1>10 DEF mac_tx_frames_handle_join_ok
<1> QED
  BY <1>2, <1>3, <1>4, <1>5, <1>6, <1>7, <1>8, <1>9, <1>10 DEF Next

\* Settling leaves the contents of the frames that remain alone.
LEMMA SettleKeepsFrames ==
    ASSUME TypeOK, NEW due, NEW acked, Settle(due, acked)
    PROVE  \A f \in used \cap used' : fbuf'[f] = fbuf[f]
BY DEF Settle, TypeOK

(***************************************************************************)
(* The frames that have been on the air are those that are counted as      *)
(* transmitted, but for the transmission that is going on.                 *)
(***************************************************************************)
OnAirIsCounted ==
    /\ on_air \subseteq used
    /\ \A f \in used :
          f \in on_air <=> fbuf[f].transmit_times > IF f = cur_tx THEN 1 ELSE 0

LEMMA OnAirInit == Init => OnAirIsCounted
BY DEF Init, OnAirIsCounted

LEMMA OnAirByNext ==
    ASSUME IInv, OnAirIsCounted, Next
    PROVE  OnAirIsCounted'
<1>1. /\ fbuf \in [Slot -> Fbuf] /\ used \subseteq Slot
      /\ used = Range(pending_tx_list) \cup Range(wait_ack_list)
      /\ Range(pending_tx_list) \cap Range(wait_ack_list) = {}
      /\ cur_tx \in Slot => cur_tx \in Range(pending_tx_list)
      /\ NoFrame \notin Slot
      /\ \A f \in Slot : fbuf[f].transmit_times \in Nat
  BY TxFramesMgmtAssumption DEF IInv, TypeOK, Bookkeeping, BlocksAccounted,
     MembershipScoped, Fbuf
<1>2. Range(wait_ack_list) \subseteq on_air
  <2>1. ASSUME NEW f \in Range(wait_ack_list) PROVE f \in on_air
    <3>1. f \in used /\ f # cur_tx /\ f \in Slot
      BY <1>1, <2>1
    <3>2. fbuf[f].transmit_times \in 1..MaxTransmissions
      BY <2>1, <3>1 DEF IInv, AttemptsBounded
    <3>3. fbuf[f].transmit_times > 0
      BY <3>2, TxFramesMgmtAssumption DEF MaxTransmissions
    <3> QED BY <3>1, <3>3 DEF OnAirIsCounted
  <2> QED BY <2>1
\* A step that does not join.
<1>3. ASSUME mac_state' = "JOINED" => mac_state = "JOINED", NEW ack, Record(ack)
      PROVE  on_air' = (on_air \cup Range(wait_ack_list')) \cap used'
  BY <1>3 DEF Record
<1>4. CASE QuietStep
  <2>1. on_air' = on_air
    BY <1>2, <1>3, <1>4 DEF QuietStep, pool, OnAirIsCounted
  <2>2. \A f \in used : f = cur_tx' <=> f = cur_tx
    BY <1>1, <1>4 DEF QuietStep
  <2> QED BY <1>4, <2>1, <2>2 DEF QuietStep, pool, OnAirIsCounted
<1>5. CASE mac_tx_frames_put_msg
  <2>1. PICK f \in Slot \ used :
          used' = used \cup {f} /\ fbuf' = [fbuf EXCEPT ![f] = ZeroFbuf]
    BY <1>5 DEF mac_tx_frames_put_msg
  <2>2. /\ cur_tx' = cur_tx /\ wait_ack_list' = wait_ack_list
        /\ mac_state = "JOINED" /\ Record(NoAck)
    BY <1>5 DEF mac_tx_frames_put_msg
  <2>3. on_air' = on_air /\ f \notin on_air
    BY <1>2, <1>3, <2>1, <2>2 DEF OnAirIsCounted
  <2>4. fbuf'[f].transmit_times = 0 /\ \A g \in used : fbuf'[g] = fbuf[g]
    BY <1>1, <2>1 DEF ZeroFbuf
  <2>5. ~(0 > IF f = cur_tx THEN 1 ELSE 0)
    OBVIOUS
  <2> QED BY <2>1, <2>2, <2>3, <2>4, <2>5 DEF OnAirIsCounted
<1>6. ASSUME NEW bcn \in Beacon, mac_tx_frames_prepare_tx_msg(bcn),
             pending_tx_list # <<>>
      PROVE  OnAirIsCounted'
  <2> DEFINE h   == Head(pending_tx_list)
             seq == IF IsNewTx(h) THEN NextFrameSeq ELSE fbuf[h].seq
             exp == calc_expected_beacon_seq_id(bcn, PACKED_ACK_DELAY_NUM)
  <2>1. /\ fbuf' = [fbuf EXCEPT ![h].transmit_times = @ + 1,
                                ![h].seq = seq, ![h].expected = exp]
        /\ cur_tx = NoFrame /\ cur_tx' = h /\ mac_state = "JOINED"
        /\ UNCHANGED <<used, wait_ack_list>> /\ Record(NoAck)
    BY <1>6 DEF mac_tx_frames_prepare_tx_msg
  <2>2. h \in Range(pending_tx_list) /\ h \in used /\ h \in Slot
    BY <1>1, <1>6 DEF IInv, TypeOK, Range
  <2> HIDE DEF h, seq, exp
  <2>3. /\ fbuf'[h].transmit_times = fbuf[h].transmit_times + 1
        /\ \A g \in Slot : g # h => fbuf'[g] = fbuf[g]
    BY <1>1, <2>1, <2>2 DEF Fbuf
  <2>4. on_air' = on_air
    BY <1>2, <1>3, <2>1 DEF OnAirIsCounted
  <2>5. ASSUME NEW g \in used
        PROVE  g \in on_air <=> fbuf'[g].transmit_times > IF g = h THEN 1 ELSE 0
    <3>1. g \in on_air <=> fbuf[g].transmit_times > 0
      BY <1>1, <2>1 DEF OnAirIsCounted
    <3>2. fbuf[g].transmit_times \in Nat /\ g \in Slot
      BY <1>1
    <3> QED BY <2>3, <3>1, <3>2
  <2> QED BY <2>1, <2>4, <2>5 DEF OnAirIsCounted
<1>7. CASE mac_tx_frames_handle_tx_msg_ok /\ IsWithinPendingList(cur_tx)
  <2>1. /\ wait_ack_list' = Append(wait_ack_list, cur_tx)
        /\ cur_tx' = NoFrame /\ cur_tx \in Slot
        /\ UNCHANGED <<used, fbuf, mac_state>> /\ Record(NoAck)
    BY <1>7 DEF mac_tx_frames_handle_tx_msg_ok
  <2>2. Range(wait_ack_list') = Range(wait_ack_list) \cup {cur_tx}
    BY <2>1, AppendRange DEF IInv, TypeOK
  <2>3. on_air' = on_air \cup {cur_tx}
    BY <1>1, <1>2, <1>3, <2>1, <2>2 DEF OnAirIsCounted
  <2>4. fbuf[cur_tx].transmit_times \in 1..MaxTransmissions /\ cur_tx \in used
    BY <1>1, <2>1 DEF IInv, AttemptsBounded
  <2>5. fbuf[cur_tx].transmit_times > 0
    BY <2>4, TxFramesMgmtAssumption DEF MaxTransmissions
  <2> QED BY <1>1, <2>1, <2>3, <2>4, <2>5 DEF OnAirIsCounted
<1>8. CASE mac_tx_frames_handle_tx_msg_failed /\ IsWithinPendingList(cur_tx)
  <2> DEFINE times == fbuf[cur_tx].transmit_times - 1
             fails == fbuf[cur_tx].tx_fail_times + 1
  <2>1. /\ cur_tx' = NoFrame /\ cur_tx \in Slot /\ cur_tx \in used
        /\ UNCHANGED <<wait_ack_list, mac_state>> /\ Record(NoAck)
        /\ \/ /\ used' = used \ {cur_tx}
              /\ fbuf' = [fbuf EXCEPT ![cur_tx] = ZeroFbuf]
           \/ /\ used' = used
              /\ fbuf' = [fbuf EXCEPT ![cur_tx].transmit_times = times,
                                      ![cur_tx].tx_fail_times = fails]
    BY <1>1, <1>8 DEF mac_tx_frames_handle_tx_msg_failed
  <2>2. on_air' = on_air \cap used' /\ used' \subseteq used
    BY <1>2, <1>3, <2>1
  <2>3. \A g \in used' : g # cur_tx => fbuf'[g] = fbuf[g]
    BY <1>1, <2>1
  <2>4. ASSUME cur_tx \in used'
        PROVE  cur_tx \in on_air <=> fbuf'[cur_tx].transmit_times > 0
    <3>1. fbuf'[cur_tx].transmit_times = times
      BY <1>1, <2>1, <2>4 DEF Fbuf
    <3>2. cur_tx \in on_air <=> fbuf[cur_tx].transmit_times > 1
      BY <2>1 DEF OnAirIsCounted
    <3>3. fbuf[cur_tx].transmit_times \in Nat
      BY <1>1, <2>1
    <3> QED BY <3>1, <3>2, <3>3
  <2>5. \A g \in used' : g # cur_tx' /\ (g # cur_tx => (g \in on_air <=> fbuf[g].transmit_times > 0))
    BY <1>1, <2>1, <2>2 DEF OnAirIsCounted
  <2> HIDE DEF times, fails
  <2>6. \A g \in used' : g \in on_air' <=> fbuf'[g].transmit_times > 0
    BY <2>2, <2>3, <2>4, <2>5
  <2> QED BY <2>2, <2>5, <2>6 DEF OnAirIsCounted
\* Settling frees frames and moves others.
<1>9. ASSUME mac_state = "JOINED", cur_tx = NoFrame, cur_tx' = cur_tx,
             NEW due \in SUBSET Range(wait_ack_list), NEW acked, Settle(due, acked),
             NEW ack, Record(ack)
      PROVE  OnAirIsCounted'
  <2>1. /\ Range(wait_ack_list') = Range(wait_ack_list) \ due
        /\ used' \subseteq used
    BY <1>9, SettleLists DEF IInv
  <2>2. on_air' = on_air \cap used'
    BY <1>2, <1>3, <1>9, <2>1
  <2>3. \A g \in used' : fbuf'[g] = fbuf[g]
    BY <1>9, <2>1, SettleKeepsFrames DEF IInv
  <2> QED BY <1>9, <2>1, <2>2, <2>3 DEF OnAirIsCounted
<1>10. ASSUME NEW bcn \in Beacon, NEW confirmed \in SUBSET FrameSeq,
              CheckAck(bcn, confirmed), ~Halt("AckNotOverdue")
       PROVE  OnAirIsCounted'
  <2> DEFINE due == {f \in Range(wait_ack_list) : AckDelta(f, bcn) = 0}
  <2>1. /\ Settle(due, Confirmed(due, confirmed)) /\ due \in SUBSET Range(wait_ack_list)
        /\ mac_state = "JOINED" /\ cur_tx = NoFrame /\ cur_tx' = cur_tx
        /\ Record([beacon : {bcn}, seq : confirmed])
    BY <1>10 DEF CheckAck
  <2> HIDE DEF due
  <2> QED BY <1>9, <2>1
<1>11. CASE LostBeaconStep
  BY <1>9, <1>11 DEF LostBeaconStep, WaitingFrames
<1>12. CASE mac_tx_frames_handle_join_ok /\ wait_ack_list_len = 0
  <2>1. /\ fbuf' = [f \in Slot |->
                       IF f \in Range(pending_tx_list)
                       THEN [fbuf[f] EXCEPT !.transmit_times = 0, !.tx_fail_times = 0]
                       ELSE fbuf[f]]
        /\ mac_state = "JOINING" /\ mac_state' = "JOINED"
        /\ UNCHANGED <<used, cur_tx>> /\ Record(NoAck)
    BY <1>12 DEF mac_tx_frames_handle_join_ok
  <2>2. on_air' = {}
    BY <2>1 DEF Record
  <2>3. wait_ack_list = <<>>
    BY <2>1 DEF IInv, MembershipScoped
  <2>4. used = Range(pending_tx_list)
    BY <1>1, <2>3 DEF Range
  <2>5. \A f \in used : fbuf'[f].transmit_times = 0
    BY <1>1, <2>1, <2>4 DEF Fbuf
  <2>6. \A f : ~(0 > IF f = cur_tx' THEN 1 ELSE 0)
    OBVIOUS
  <2> QED BY <2>1, <2>2, <2>5, <2>6 DEF OnAirIsCounted
<1> QED
  BY <1>4, <1>5, <1>6, <1>7, <1>8, <1>10, <1>11, <1>12, PoolSteps

CountedKeeps ==
    \A f \in used \cap used' :
        fbuf[f].transmit_times > 0 => fbuf'[f].seq = fbuf[f].seq

\* A frame number changes in prepare_tx_msg() only, where the frame counts as
\* never transmitted, and when a free block is allocated.
LEMMA CountedKeepsByNext == IInv /\ Next => CountedKeeps
<1> SUFFICES ASSUME IInv, Next PROVE CountedKeeps
  OBVIOUS
<1>1. fbuf \in [Slot -> Fbuf] /\ used \subseteq Slot
  BY DEF IInv, TypeOK
<1>2. CASE QuietStep
  BY <1>2 DEF CountedKeeps, QuietStep, pool
<1>3. CASE mac_tx_frames_put_msg
  BY <1>1, <1>3 DEF CountedKeeps, mac_tx_frames_put_msg
<1>4. ASSUME NEW bcn \in Beacon, mac_tx_frames_prepare_tx_msg(bcn),
             pending_tx_list # <<>>
      PROVE  CountedKeeps
  <2> DEFINE h == Head(pending_tx_list)
             seq == IF IsNewTx(h) THEN NextFrameSeq ELSE fbuf[h].seq
             exp == calc_expected_beacon_seq_id(bcn, PACKED_ACK_DELAY_NUM)
  <2>1. fbuf' = [fbuf EXCEPT ![h].transmit_times = @ + 1,
                             ![h].seq = seq, ![h].expected = exp]
    BY <1>4 DEF mac_tx_frames_prepare_tx_msg
  <2>2. ASSUME NEW f \in used, fbuf[f].transmit_times > 0
        PROVE  fbuf'[f].seq = fbuf[f].seq
    <3>1. CASE f # h
      BY <1>1, <2>1, <3>1
    <3>2. CASE f = h
      <4>1. seq = fbuf[f].seq
        BY <1>1, <2>2, <3>2 DEF IsNewTx, Fbuf
      <4> HIDE DEF seq, exp, h
      <4> QED BY <1>1, <2>1, <3>2, <4>1 DEF Fbuf
    <3> QED BY <3>1, <3>2
  <2> QED BY <2>2 DEF CountedKeeps
<1>5. CASE mac_tx_frames_handle_tx_msg_ok /\ IsWithinPendingList(cur_tx)
  BY <1>5 DEF CountedKeeps, mac_tx_frames_handle_tx_msg_ok
<1>6. CASE mac_tx_frames_handle_tx_msg_failed /\ IsWithinPendingList(cur_tx)
  BY <1>1, <1>6 DEF CountedKeeps, mac_tx_frames_handle_tx_msg_failed, Fbuf
<1>7. ASSUME NEW bcn, NEW confirmed, CheckAck(bcn, confirmed), ~Halt("AckNotOverdue")
      PROVE  CountedKeeps
  BY <1>7, SettleKeepsFrames DEF IInv, CountedKeeps, CheckAck
<1>8. CASE LostBeaconStep
  BY <1>8, SettleKeepsFrames DEF IInv, CountedKeeps, LostBeaconStep
<1>9. CASE mac_tx_frames_handle_join_ok /\ wait_ack_list_len = 0
  BY <1>1, <1>9 DEF CountedKeeps, mac_tx_frames_handle_join_ok, Fbuf
<1> QED
  BY <1>2, <1>3, <1>4, <1>5, <1>6, <1>7, <1>8, <1>9, PoolSteps

SeqKeptStep ==
    /\ \A f \in on_air \cap used' : fbuf'[f].seq = fbuf[f].seq
    /\ cur_tx' # cur_tx /\ cur_tx' \in Slot \ on_air
          => /\ fbuf'[cur_tx'].seq = NextFrameSeq
             /\ tx_frame_seq_id' = NextFrameSeq

\* The number follows what has been on the air, not only what is counted.
LEMMA SeqKeptByNext == IInv /\ OnAirIsCounted /\ Next => SeqKeptStep
<1> SUFFICES ASSUME IInv, OnAirIsCounted, Next PROVE SeqKeptStep
  OBVIOUS
<1>1. /\ fbuf \in [Slot -> Fbuf] /\ used \subseteq Slot /\ NoFrame \notin Slot
      /\ \A f \in Slot : fbuf[f].transmit_times \in Nat
  BY TxFramesMgmtAssumption DEF IInv, TypeOK, Fbuf
<1>2. ASSUME NEW f \in on_air \cap used' PROVE fbuf'[f].seq = fbuf[f].seq
  <2>1. f \in used /\ f \in Slot
    BY <1>1, <1>2 DEF OnAirIsCounted
  <2>2. fbuf[f].transmit_times > 0
    BY <1>1, <1>2, <2>1 DEF OnAirIsCounted
  <2> QED BY <1>2, <2>1, <2>2, CountedKeepsByNext DEF CountedKeeps
<1>3. ASSUME cur_tx' # cur_tx, cur_tx' \in Slot \ on_air
      PROVE  fbuf'[cur_tx'].seq = NextFrameSeq /\ tx_frame_seq_id' = NextFrameSeq
  <2>1. PICK bcn \in Beacon :
          mac_tx_frames_prepare_tx_msg(bcn) /\ pending_tx_list # <<>>
    BY <1>1, <1>3, PoolSteps DEF QuietStep, mac_tx_frames_put_msg,
       mac_tx_frames_handle_tx_msg_ok, mac_tx_frames_handle_tx_msg_failed, CheckAck,
       LostBeaconStep, mac_tx_frames_handle_join_ok
  <2> DEFINE h == Head(pending_tx_list)
             seq == IF IsNewTx(h) THEN NextFrameSeq ELSE fbuf[h].seq
             exp == calc_expected_beacon_seq_id(bcn, PACKED_ACK_DELAY_NUM)
  <2>2. /\ fbuf' = [fbuf EXCEPT ![h].transmit_times = @ + 1,
                                ![h].seq = seq, ![h].expected = exp]
        /\ tx_frame_seq_id' = IF IsNewTx(h) THEN seq ELSE tx_frame_seq_id
        /\ cur_tx' = h /\ cur_tx = NoFrame
    BY <2>1 DEF mac_tx_frames_prepare_tx_msg
  <2>3. h \in used /\ h \in Slot
    BY <1>1, <2>1 DEF IInv, TypeOK, Bookkeeping, BlocksAccounted, Range
  <2>4. fbuf[h].transmit_times = 0
    BY <1>1, <1>3, <2>2, <2>3 DEF OnAirIsCounted
  <2>5. IsNewTx(h) /\ seq = NextFrameSeq
    BY <2>4 DEF IsNewTx
  <2> HIDE DEF h, seq, exp
  <2>6. fbuf'[h].seq = seq
    BY <1>1, <2>2, <2>3 DEF Fbuf
  <2> QED BY <2>2, <2>5, <2>6
<1> QED
  BY <1>2, <1>3 DEF SeqKeptStep

FreedStep ==
    \A f \in used \ used' :
        \/ f \in Range(wait_ack_list)
           /\ (MayRetry(f) =>
                 [beacon |-> fbuf[f].expected, seq |-> fbuf[f].seq] \in heard')
        \/ f = cur_tx /\ fbuf[f].tx_fail_times = LPWAN_DE_MAX_TX_FAIL_NUM

\* A frame with attempts left is freed by its ACK only.
LEMMA FreedByNext == IInv /\ Next => FreedStep
<1> SUFFICES ASSUME IInv, Next PROVE FreedStep
  OBVIOUS
<1>1. fbuf \in [Slot -> Fbuf] /\ used \subseteq Slot
  BY DEF IInv, TypeOK
<1>2. CASE \/ QuietStep
           \/ mac_tx_frames_put_msg
           \/ \E bcn \in Beacon :
                 mac_tx_frames_prepare_tx_msg(bcn) /\ pending_tx_list # <<>>
           \/ mac_tx_frames_handle_tx_msg_ok /\ IsWithinPendingList(cur_tx)
           \/ mac_tx_frames_handle_join_ok /\ wait_ack_list_len = 0
  <2>1. used \ used' = {}
    BY <1>2 DEF QuietStep, mac_tx_frames_put_msg, mac_tx_frames_prepare_tx_msg,
       mac_tx_frames_handle_tx_msg_ok, mac_tx_frames_handle_join_ok, pool
  <2> QED BY <2>1 DEF FreedStep
<1>3. CASE mac_tx_frames_handle_tx_msg_failed /\ IsWithinPendingList(cur_tx)
  <2> DEFINE times == fbuf[cur_tx].transmit_times - 1
             fails == fbuf[cur_tx].tx_fail_times + 1
             drop  == times >= MaxTransmissions \/ fails > LPWAN_DE_MAX_TX_FAIL_NUM
  <2>1. CASE ~drop
    <3>1. UNCHANGED used
      BY <1>3, <2>1 DEF mac_tx_frames_handle_tx_msg_failed
    <3> QED BY <3>1 DEF FreedStep
  <2>2. CASE drop
    <3>1. cur_tx \in Slot /\ used' = used \ {cur_tx}
      BY <1>3, <2>2 DEF mac_tx_frames_handle_tx_msg_failed
    <3>2. cur_tx \in used
      BY <3>1 DEF IInv, MembershipScoped, Bookkeeping, BlocksAccounted
    <3>3. /\ fbuf[cur_tx].tx_fail_times \in Nat /\ fbuf[cur_tx].transmit_times \in Nat
          /\ fbuf[cur_tx].tx_fail_times <= LPWAN_DE_MAX_TX_FAIL_NUM
          /\ fbuf[cur_tx].transmit_times <= MaxTransmissions
          /\ MaxTransmissions \in Nat /\ LPWAN_DE_MAX_TX_FAIL_NUM \in Nat
      BY <1>1, <3>1, <3>2, TxFramesMgmtAssumption
         DEF IInv, AttemptsBounded, Fbuf, MaxTransmissions
    <3>4. fbuf[cur_tx].tx_fail_times = LPWAN_DE_MAX_TX_FAIL_NUM
      BY <2>2, <3>3
    <3> QED BY <3>1, <3>4 DEF FreedStep
  <2> QED BY <2>1, <2>2
\* Of the frames that are settled those that may be sent again are freed only
\* if they are acknowledged.
<1>4. ASSUME NEW due \in SUBSET Range(wait_ack_list), NEW acked, Settle(due, acked),
             \A f \in acked : [beacon |-> fbuf[f].expected, seq |-> fbuf[f].seq] \in heard'
      PROVE  FreedStep
  <2>1. used \ used' \subseteq due \ Retried(due, acked)
    BY <1>4 DEF Settle
  <2>2. \A f \in due \ Retried(due, acked) : MayRetry(f) => f \in acked
    BY DEF Retried
  <2> QED BY <1>4, <2>1, <2>2 DEF FreedStep
<1>5. CASE LostBeaconStep
  BY <1>4, <1>5 DEF WaitingFrames, LostBeaconStep
<1>6. ASSUME NEW bcn \in Beacon, NEW confirmed \in SUBSET FrameSeq,
             CheckAck(bcn, confirmed), ~Halt("AckNotOverdue")
      PROVE  FreedStep
  <2> DEFINE due   == {f \in Range(wait_ack_list) : AckDelta(f, bcn) = 0}
             acked == Confirmed(due, confirmed)
  <2>1. /\ Settle(due, acked) /\ due \in SUBSET Range(wait_ack_list)
        /\ heard' = [beacon : {bcn}, seq : confirmed]
    BY <1>6 DEF CheckAck, Record
  <2>2. ASSUME NEW f \in acked
        PROVE  fbuf[f].seq \in confirmed /\ fbuf[f].expected = bcn
    <3>1. f \in Range(wait_ack_list) /\ AckDelta(f, bcn) = 0 /\ fbuf[f].seq \in confirmed
      BY DEF Confirmed
    <3>2. fbuf[f].expected \in BeaconSeqNum /\ bcn \in BeaconSeqNum
      BY <1>1, <3>1, ListsFinite, TxFramesMgmtAssumption DEF IInv, Fbuf
    <3> QED BY <3>1, <3>2, DeltaZeroOnlyIfEqual DEF AckDelta
  <2> HIDE DEF due, acked
  <2>3. \A f \in acked : [beacon |-> fbuf[f].expected, seq |-> fbuf[f].seq] \in heard'
    BY <2>1, <2>2
  <2> QED BY <1>4, <2>1, <2>3
<1> QED
  BY <1>2, <1>3, <1>5, <1>6, PoolSteps

\* Linking behind a list leaves its own order alone.
LEMMA ConcatKeepsOrder ==
    ASSUME NEW S, NEW a \in Seq(S), NEW b \in Seq(S), NEW f, NEW g, Before(a, f, g)
    PROVE  Before(a \o b, f, g)
<1>1. PICK i, j \in DOMAIN a : i < j /\ a[i] = f /\ a[j] = g
  BY DEF Before
<1>2. /\ i \in DOMAIN (a \o b) /\ j \in DOMAIN (a \o b)
      /\ (a \o b)[i] = f /\ (a \o b)[j] = g
  BY <1>1
<1> QED
  BY <1>1, <1>2 DEF Before

\* Unlinking leaves the order of those that stay alone.
LEMMA SubListKeepsOrder ==
    ASSUME NEW S, NEW list \in Seq(S), IsInjective(list),
           NEW l \in Seq(S), \A x, y \in Range(l) : Before(l, x, y) => Before(list, x, y),
           NEW f \in Range(l), NEW g \in Range(l), Before(list, f, g)
    PROVE  Before(l, f, g)
<1>1. PICK i, j \in DOMAIN list : i < j /\ list[i] = f /\ list[j] = g
  BY DEF Before
<1>2. DOMAIN list \subseteq Nat /\ DOMAIN l \subseteq Nat
  OBVIOUS
<1>3. ~Before(list, g, f)
  <2>1. SUFFICES ASSUME NEW p \in DOMAIN list, NEW q \in DOMAIN list, p < q,
                        list[p] = g, list[q] = f
                 PROVE  FALSE
    BY DEF Before
  <2>2. p = j /\ q = i
    BY <1>1, <2>1 DEF IsInjective
  <2> QED BY <1>1, <1>2, <2>1, <2>2
<1>4. f # g
  BY <1>1, <1>2 DEF IsInjective
<1>5. PICK p, q \in DOMAIN l : l[p] = f /\ l[q] = g
  BY DEF Range
<1>6. ~(q < p)
  BY <1>3, <1>5 DEF Before
<1>7. p < q
  BY <1>2, <1>4, <1>5, <1>6
<1> QED
  BY <1>5, <1>7 DEF Before

\* Linking behind a list puts what is linked behind all its members.
LEMMA ConcatIsBehind ==
    ASSUME NEW S, NEW a \in Seq(S), NEW b \in Seq(S),
           NEW f \in Range(a), NEW g \in Range(b)
    PROVE  Before(a \o b, f, g)
<1>1. PICK i \in DOMAIN a : a[i] = f
  BY DEF Range
<1>2. PICK j \in DOMAIN b : b[j] = g
  BY DEF Range
<1>3. /\ i \in DOMAIN (a \o b) /\ (a \o b)[i] = f
      /\ Len(a) + j \in DOMAIN (a \o b) /\ (a \o b)[Len(a) + j] = g
      /\ i < Len(a) + j
  BY <1>1, <1>2
<1> QED
  BY <1>3 DEF Before

\* What is linked behind a list keeps its own order.
LEMMA ConcatKeepsTailOrder ==
    ASSUME NEW S, NEW a \in Seq(S), NEW b \in Seq(S), NEW f, NEW g, Before(b, f, g)
    PROVE  Before(a \o b, f, g)
<1>1. PICK i, j \in DOMAIN b : i < j /\ b[i] = f /\ b[j] = g
  BY DEF Before
<1>2. /\ Len(a) + i \in DOMAIN (a \o b) /\ (a \o b)[Len(a) + i] = f
      /\ Len(a) + j \in DOMAIN (a \o b) /\ (a \o b)[Len(a) + j] = g
      /\ Len(a) + i < Len(a) + j
  BY <1>1
<1> QED
  BY <1>2 DEF Before

\* The members of a list.
LEMMA BeforeMembers ==
    ASSUME NEW list, NEW f, NEW g, Before(list, f, g)
    PROVE  f \in Range(list) /\ g \in Range(list)
BY DEF Before, Range

NoOvertakingStep ==
    \A f, g \in Range(pending_tx_list') :
        Ahead(f, g) => Before(pending_tx_list', f, g)

\* The pending list changes at its tail, and where the frame on the air leaves.
LEMMA NoOvertakingByNext == IInv /\ Next => NoOvertakingStep
<1> SUFFICES ASSUME IInv, Next PROVE NoOvertakingStep
  OBVIOUS
<1>1. /\ pending_tx_list \in Seq(Slot) /\ IsInjective(pending_tx_list)
      /\ wait_ack_list \in Seq(Slot) /\ IsInjective(wait_ack_list)
      /\ IsFiniteSet(Range(wait_ack_list))
      /\ Range(pending_tx_list) \cap Range(wait_ack_list) = {}
      /\ used = Range(pending_tx_list) \cup Range(wait_ack_list)
  BY ListsFinite DEF IInv, TypeOK, Bookkeeping, BlocksAccounted
\* The list loses members and gets none.
<1>2. ASSUME Range(pending_tx_list') \subseteq Range(pending_tx_list),
             \A f, g \in Range(pending_tx_list') :
                Before(pending_tx_list, f, g) => Before(pending_tx_list', f, g)
      PROVE  NoOvertakingStep
  <2>1. ASSUME NEW f \in Range(pending_tx_list'), NEW g \in Range(pending_tx_list'),
               Ahead(f, g)
        PROVE  Before(pending_tx_list, f, g)
    <3>1. f \in Range(pending_tx_list) /\ g \in Range(pending_tx_list)
      BY <1>2
    <3>2. ~Before(wait_ack_list, f, g)
      BY <1>1, <3>1, BeforeMembers
    <3> QED BY <2>1, <3>1, <3>2 DEF Ahead
  <2> QED BY <1>2, <2>1 DEF NoOvertakingStep
<1>3. CASE UNCHANGED pending_tx_list
  BY <1>2, <1>3
<1>4. ASSUME cur_tx \in Range(pending_tx_list),
             pending_tx_list' \in Unlinked(pending_tx_list, {cur_tx})
      PROVE  NoOvertakingStep
  <2> DEFINE l == pending_tx_list'
  <2>1. l \in Unlinked(pending_tx_list, {cur_tx})
    BY <1>4
  <2> HIDE DEF l
  <2>2. /\ l \in Seq(Slot) /\ Range(l) = Range(pending_tx_list) \ {cur_tx}
        /\ \A x, y \in Range(l) : Before(l, x, y) => Before(pending_tx_list, x, y)
    BY <1>4, <2>1, UnlinkCurTx DEF IInv
  <2>3. \A f, g \in Range(l) : Before(pending_tx_list, f, g) => Before(l, f, g)
    BY <1>1, <2>2, SubListKeepsOrder
  <2> QED BY <1>2, <2>2, <2>3 DEF l
\* Frames are linked behind the list, those of the wait list in their order.
<1>5. ASSUME NEW b \in Seq(Slot), pending_tx_list' = pending_tx_list \o b,
             Range(b) \cap Range(pending_tx_list) = {},
             \A f, g \in Range(b) : Before(wait_ack_list, f, g) => Before(b, f, g)
      PROVE  NoOvertakingStep
  <2>1. Range(pending_tx_list') = Range(pending_tx_list) \cup Range(b)
    BY <1>1, <1>5, ConcatRange
  <2>2. ASSUME NEW f \in Range(pending_tx_list'), NEW g \in Range(pending_tx_list'),
               Ahead(f, g)
        PROVE  Before(pending_tx_list', f, g)
    <3>1. CASE Before(pending_tx_list, f, g)
      BY <1>1, <1>5, <3>1, ConcatKeepsOrder
    <3>2. CASE f \in Range(pending_tx_list) /\ g \notin Range(pending_tx_list)
      <4>1. g \in Range(b)
        BY <2>1, <3>2
      <4> QED BY <1>1, <1>5, <3>2, <4>1, ConcatIsBehind
    <3>3. CASE Before(wait_ack_list, f, g)
      <4>1. f \in Range(wait_ack_list) /\ g \in Range(wait_ack_list)
        BY <3>3, BeforeMembers
      <4>2. f \in Range(b) /\ g \in Range(b)
        BY <1>1, <2>1, <4>1
      <4>3. Before(b, f, g)
        BY <1>5, <3>3, <4>2
      <4> QED BY <1>1, <1>5, <4>3, ConcatKeepsTailOrder
    <3> QED BY <2>2, <3>1, <3>2, <3>3 DEF Ahead
  <2> QED BY <2>2 DEF NoOvertakingStep
<1>6. ASSUME NEW due \in SUBSET Range(wait_ack_list), NEW acked, Settle(due, acked)
      PROVE  NoOvertakingStep
  <2> DEFINE R == Retried(due, acked)
  <2>1. PICK moved \in SubList(wait_ack_list, R) :
            pending_tx_list' = pending_tx_list \o moved
    BY <1>6 DEF Settle, AtTail
  <2>2. R \in SUBSET Range(wait_ack_list)
    BY DEF Retried
  <2> HIDE DEF R
  <2>3. /\ moved \in Seq(Slot) /\ Range(moved) = R
        /\ \A x, y \in R : Before(moved, x, y) => Before(wait_ack_list, x, y)
    BY <1>1, <2>1, <2>2, SubListProperties
  <2>4. \A f, g \in Range(moved) : Before(wait_ack_list, f, g) => Before(moved, f, g)
    BY <1>1, <2>3, SubListKeepsOrder
  <2>5. Range(moved) \cap Range(pending_tx_list) = {}
    BY <1>1, <2>2, <2>3
  <2> QED BY <1>5, <2>1, <2>3, <2>4, <2>5
<1>7. CASE mac_tx_frames_put_msg
  <2>1. PICK f \in Slot \ used : pending_tx_list' = Append(pending_tx_list, f)
    BY <1>7 DEF mac_tx_frames_put_msg
  <2> DEFINE b == <<f>>
  <2>2. b \in Seq(Slot) /\ pending_tx_list' = pending_tx_list \o b /\ Range(b) = {f}
    BY <1>1, <2>1 DEF Range
  <2> HIDE DEF b
  <2>3. ASSUME NEW x \in Range(b), NEW y \in Range(b), Before(wait_ack_list, x, y)
        PROVE  FALSE
    <3>1. f \in Range(wait_ack_list)
      BY <2>2, <2>3, BeforeMembers
    <3> QED BY <1>1, <2>1, <3>1
  <2>4. Range(b) \cap Range(pending_tx_list) = {}
    BY <1>1, <2>1, <2>2
  <2> QED BY <1>5, <2>2, <2>3, <2>4
<1>8. CASE \/ QuietStep
           \/ \E bcn \in Beacon :
                 mac_tx_frames_prepare_tx_msg(bcn) /\ pending_tx_list # <<>>
           \/ mac_tx_frames_handle_join_ok /\ wait_ack_list_len = 0
  <2>1. UNCHANGED pending_tx_list
    BY <1>8 DEF QuietStep, mac_tx_frames_prepare_tx_msg, mac_tx_frames_handle_join_ok, pool
  <2> QED BY <1>3, <2>1
<1>9. CASE \/ mac_tx_frames_handle_tx_msg_ok /\ IsWithinPendingList(cur_tx)
           \/ mac_tx_frames_handle_tx_msg_failed /\ IsWithinPendingList(cur_tx)
  <2>1. CASE UNCHANGED pending_tx_list
    BY <1>3, <2>1
  <2>2. CASE ~UNCHANGED pending_tx_list
    <3>1. /\ cur_tx \in Range(pending_tx_list)
          /\ pending_tx_list' \in Unlinked(pending_tx_list, {cur_tx})
      BY <1>9, <2>2 DEF mac_tx_frames_handle_tx_msg_ok,
         mac_tx_frames_handle_tx_msg_failed, IsWithinPendingList
    <3> QED BY <1>4, <3>1
  <2> QED BY <2>1, <2>2
<1>10. ASSUME NEW bcn \in Beacon, NEW confirmed \in SUBSET FrameSeq,
              CheckAck(bcn, confirmed), ~Halt("AckNotOverdue")
       PROVE  NoOvertakingStep
  <2> DEFINE due == {f \in Range(wait_ack_list) : AckDelta(f, bcn) = 0}
  <2>1. Settle(due, Confirmed(due, confirmed))
    BY <1>10 DEF CheckAck
  <2> QED BY <1>6, <2>1
<1>11. CASE LostBeaconStep
  BY <1>6, <1>11 DEF WaitingFrames, LostBeaconStep
<1> QED
  BY <1>7, <1>8, <1>9, <1>10, <1>11, PoolSteps

(***************************************************************************)
(* The theorems.                                                           *)
(***************************************************************************)

\* The invariant holds in every reachable state.
THEOREM Invariance == Spec => []IInv
<1> QED
  BY InitInvariant, NextInvariant, PTL DEF Spec

\* Every variable keeps its type; in particular no attempt counter is ever
\* decremented below zero.
THEOREM TypeCorrect == Spec => []TypeOK
<1>1. IInv => TypeOK
  BY DEF IInv
<1> QED
  BY <1>1, Invariance, PTL

\* No buffer leaks, is linked twice or is used after it has been freed, and no
\* message is overlooked because a counter is too low.
THEOREM BuffersSafe == Spec => []Bookkeeping
<1>1. IInv => Bookkeeping
  BY DEF IInv
<1> QED
  BY <1>1, Invariance, PTL

\* Frames wait, and are on the air, only in the membership they belong to.
THEOREM ScopedToMembership == Spec => []MembershipScoped
<1>1. IInv => MembershipScoped
  BY DEF IInv
<1> QED
  BY <1>1, Invariance, PTL

\* No frame is sent more often than the limits allow.
THEOREM AttemptsAreBounded == Spec => []AttemptsBounded
<1>1. IInv => AttemptsBounded
  BY DEF IInv
<1> QED
  BY <1>1, Invariance, PTL

\* The three assertions that do not depend on the pending counter or on the
\* order of the beacons cannot fail.
THEOREM AssertionsCannotFail == Spec => []AssertionsHold
<1>1. IInv => AssertionsHold
  BY DEF IInv
<1> QED
  BY <1>1, Invariance, PTL

\* A frame that has been on the air in this membership keeps its number until
\* it is freed; one that has not goes out under the next number of the count.
THEOREM SequenceNumberKept == Spec => SeqKept
<1>1. Init => OnAirIsCounted
  BY OnAirInit
<1>2. IInv /\ OnAirIsCounted /\ [Next]_vars => OnAirIsCounted'
  <2>1. ASSUME OnAirIsCounted, UNCHANGED vars PROVE OnAirIsCounted'
    BY <2>1 DEF OnAirIsCounted, vars, pool, history
  <2> QED BY <2>1, OnAirByNext
<1>3. IInv /\ OnAirIsCounted /\ [Next]_vars => [SeqKeptStep]_vars
  BY SeqKeptByNext
<1> QED
  BY <1>1, <1>2, <1>3, Invariance, PTL DEF Spec, SeqKept, SeqKeptStep

\* A message with attempts left is freed only by the packed ACK that arrives
\* with its beacon and confirms its number.
THEOREM FreedOnlyByAck == Spec => FreedOnlyIfConfirmed
<1>1. IInv /\ [Next]_vars => [FreedStep]_vars
  BY FreedByNext
<1> QED
  BY <1>1, Invariance, PTL DEF Spec, FreedOnlyIfConfirmed, FreedStep

\* Messages do not overtake each other in the pending list, those that come
\* back to be sent again included.
THEOREM PendingInOrder == Spec => NoOvertaking
<1>1. IInv /\ [Next]_vars => [NoOvertakingStep]_vars
  BY NoOvertakingByNext
<1> QED
  BY <1>1, Invariance, PTL DEF Spec, NoOvertaking, NoOvertakingStep
=============================================================================
