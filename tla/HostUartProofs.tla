--------------------------- MODULE HostUartProofs ---------------------------
(***************************************************************************)
(* That the invariants of HostUart hold for rings of any size and for any  *)
(* number of bytes.                                                        *)
(*                                                                         *)
(* The sequence of all bytes that the host has sent and that were not lost *)
(* is never reordered, it is only cut into pieces: bytes move between the  *)
(* register, the ring, the buffer of uart_Poll() and the dispatcher.  So   *)
(* are those of the messages.  Most of the invariant says how far an       *)
(* interrupt may go at each step of the main loop.                         *)
(***************************************************************************)
EXTENDS HostUart, SequenceTheorems, TLAPS

----------------------------------------------------------------------------
(* Rings                                                                  *)

\* Positions in a ring, which wrap once at most.
LEMMA Following ==
    ASSUME NEW size \in Nat \ {0}, NEW k \in 0..(size - 1)
    PROVE  (k + 1) % size = IF k = size - 1 THEN 0 ELSE k + 1
  BY Z3
LEMMA Distance ==
    ASSUME NEW size \in Nat \ {0}, NEW h \in 0..(size - 1), NEW t \in 0..(size - 1)
    PROVE  (t - h) % size = IF h <= t THEN t - h ELSE size - h + t
  BY Z3
LEMMA Place ==
    ASSUME NEW size \in Nat \ {0}, NEW h \in 0..(size - 1), NEW i \in 1..(size - 1)
    PROVE  (h + i - 1) % size = IF h + i - 1 < size THEN h + i - 1 ELSE h + i - 1 - size
  BY Z3

\* The number of bytes between two positions, and the place of each.
Fill(h, t, size) == IF h <= t THEN t - h ELSE size - h + t
PlaceOf(h, size, i) == IF h + i - 1 < size THEN h + i - 1 ELSE h + i - 1 - size

LEMMA TailAdvances ==
    ASSUME NEW size \in Nat \ {0}, NEW h \in 0..(size - 1), NEW t \in 0..(size - 1),
           NEW n, n = (t + 1) % size, h # n
    PROVE  /\ n \in 0..(size - 1)
           /\ Fill(h, t, size) \in Nat
           /\ Fill(h, n, size) = Fill(h, t, size) + 1
           /\ \A i \in 1..Fill(h, t, size) : PlaceOf(h, size, i) \in (0..(size - 1)) \ {t}
           /\ PlaceOf(h, size, Fill(h, t, size) + 1) = t
           /\ t < h => n < h
  <1>1. n = IF t = size - 1 THEN 0 ELSE t + 1
    BY Following
  <1>2. QED  BY <1>1 DEF Fill, PlaceOf

LEMMA HeadAdvances ==
    ASSUME NEW size \in Nat \ {0}, NEW h \in 0..(size - 1), NEW t \in 0..(size - 1), h # t,
           NEW n, n = (h + 1) % size
    PROVE  /\ n \in 0..(size - 1)
           /\ Fill(n, t, size) \in Nat
           /\ Fill(h, t, size) = Fill(n, t, size) + 1
           /\ \A i \in 1..Fill(n, t, size) : PlaceOf(n, size, i) = PlaceOf(h, size, i + 1)
           /\ PlaceOf(h, size, 1) = h
  <1>1. n = IF h = size - 1 THEN 0 ELSE h + 1
    BY Following
  <1>2. QED  BY <1>1 DEF Fill, PlaceOf

LEMMA RingFields ==
    ASSUME NEW size \in Nat \ {0}, NEW r \in Rings(size)
    PROVE  r.head \in 0..(size - 1) /\ r.tail \in 0..(size - 1) /\ r.buf \in [0..(size - 1) -> Nat]
  BY DEF Rings

LEMMA RingRecord ==
    ASSUME NEW size \in Nat \ {0}, NEW b \in [0..(size - 1) -> Nat],
           NEW h \in 0..(size - 1), NEW t \in 0..(size - 1)
    PROVE  [buf |-> b, head |-> h, tail |-> t] \in Rings(size)
  BY DEF Rings

\* A ring of size places holds less than size bytes.
LEMMA HeldBytes ==
    ASSUME NEW size \in Nat \ {0}, NEW r \in Rings(size),
           NEW fill, fill = Fill(r.head, r.tail, size)
    PROVE  /\ fill \in 0..(size - 1)
           /\ Held(r, size) \in Seq(Nat)
           /\ Len(Held(r, size)) = fill
           /\ \A i \in 1..fill : Held(r, size)[i] = r.buf[PlaceOf(r.head, size, i)]
  <1>1. r.head \in 0..(size - 1) /\ r.tail \in 0..(size - 1) /\ r.buf \in [0..(size - 1) -> Nat]
    BY RingFields
  <1>2. (r.tail - r.head) % size = fill
    BY <1>1, Distance, Zenon DEF Fill
  <1>3. fill \in 0..(size - 1)
    BY <1>1 DEF Fill
  <1>4. \A i \in 1..fill : i \in 1..(size - 1)
    BY <1>3
  <1>5. \A i \in 1..fill : (r.head + i - 1) % size = PlaceOf(r.head, size, i)
    BY <1>1, <1>4, Place, Zenon DEF PlaceOf
  <1>6. Held(r, size) = [i \in 1..fill |-> r.buf[PlaceOf(r.head, size, i)]]
    BY <1>2, <1>5, Zenon DEF Held
  <1>7. \A i \in 1..fill : r.buf[PlaceOf(r.head, size, i)] \in Nat
    BY <1>1, <1>4 DEF PlaceOf
  <1>8. Held(r, size) \in Seq(Nat) /\ Len(Held(r, size)) = fill
    BY <1>3, <1>6, <1>7
  <1>9. QED  BY <1>3, <1>6, <1>8

LEMMA EmptyHolds ==
    ASSUME NEW size \in Nat \ {0}, NEW r \in Rings(size)
    PROVE  /\ fifo_isEmpty(r) <=> Held(r, size) = <<>>
           /\ fifo_isEmpty(r) <=> Len(Held(r, size)) = 0
           /\ fifo_isFull(r, size) <=> Len(Held(r, size)) = size - 1
           /\ Len(Held(r, size)) < size
  <1> DEFINE next == (r.tail + 1) % size
             fill == Fill(r.head, r.tail, size)
  <1>1. r.head \in 0..(size - 1) /\ r.tail \in 0..(size - 1)
    BY RingFields
  <1>2. next = IF r.tail = size - 1 THEN 0 ELSE r.tail + 1
    BY <1>1, Following, Zenon
  <1>3. fifo_isFull(r, size) <=> r.head = next
    BY DEF fifo_isFull
  <1> HIDE DEF next
  <1>4. Len(Held(r, size)) = fill /\ Held(r, size) \in Seq(Nat) /\ fill \in 0..(size - 1)
    BY HeldBytes
  <1>5. fifo_isEmpty(r) <=> fill = 0
    BY <1>1 DEF fifo_isEmpty, Fill
  <1>6. Held(r, size) = <<>> <=> Len(Held(r, size)) = 0
    BY <1>4
  <1>7. fifo_isFull(r, size) <=> fill = size - 1
    BY <1>1, <1>2, <1>3 DEF Fill
  <1>8. QED  BY <1>4, <1>5, <1>6, <1>7

\* A byte that is pushed comes last.
LEMMA Pushed ==
    ASSUME NEW size \in Nat \ {0}, NEW r \in Rings(size), NEW byte \in Nat
    PROVE  /\ fifo_BasePush(r, size, byte) \in Rings(size)
           /\ fifo_BasePush(r, size, byte).head = r.head
           /\ ~ fifo_isFull(r, size) =>
                /\ fifo_BasePush(r, size, byte).buf = [r.buf EXCEPT ![r.tail] = byte]
                /\ r.tail < r.head => fifo_BasePush(r, size, byte).tail < r.head
                /\ Held(fifo_BasePush(r, size, byte), size) = Append(Held(r, size), byte)
           /\ fifo_isFull(r, size) => fifo_BasePush(r, size, byte) = r
  <1> DEFINE p == fifo_BasePush(r, size, byte)
             h == r.head
             t == r.tail
             n == (t + 1) % size
             fill == Fill(h, t, size)
  <1>1. CASE fifo_isFull(r, size)
    BY <1>1 DEF fifo_BasePush
  <1>2. CASE ~ fifo_isFull(r, size)
    <2>1. p = [buf |-> [r.buf EXCEPT ![t] = byte], head |-> h, tail |-> n]
      BY <1>2 DEF fifo_BasePush, Rings
    <2>2. p.buf = [r.buf EXCEPT ![t] = byte] /\ p.head = h /\ p.tail = n
      BY <2>1
    <2>3. h \in 0..(size - 1) /\ t \in 0..(size - 1) /\ r.buf \in [0..(size - 1) -> Nat]
      BY RingFields
    <2>4. h # n /\ n = (t + 1) % size
      BY <1>2 DEF fifo_isFull
    <2>a. fill = Fill(h, t, size)
      OBVIOUS
    <2> HIDE DEF n, h, t, fill
    <2>5. /\ n \in 0..(size - 1)
          /\ fill \in Nat
          /\ Fill(h, n, size) = fill + 1
          /\ \A i \in 1..fill : PlaceOf(h, size, i) \in (0..(size - 1)) \ {t}
          /\ PlaceOf(h, size, fill + 1) = t
          /\ t < h => n < h
      BY <2>a, <2>3, <2>4, TailAdvances
    <2>6. [r.buf EXCEPT ![t] = byte] \in [0..(size - 1) -> Nat]
      BY <2>3
    <2>7. p \in Rings(size)
      <3> DEFINE b == [r.buf EXCEPT ![t] = byte]
      <3>1. b \in [0..(size - 1) -> Nat] /\ p = [buf |-> b, head |-> h, tail |-> n]
        BY <2>1, <2>6
      <3> HIDE DEF b, p
      <3>2. [buf |-> b, head |-> h, tail |-> n] \in Rings(size)
        BY <2>3, <2>5, <3>1, RingRecord
      <3>3. QED  BY <3>1, <3>2
    <2> HIDE DEF p
    <2>8. /\ Held(r, size) \in Seq(Nat) /\ Len(Held(r, size)) = fill
          /\ \A i \in 1..fill : Held(r, size)[i] = r.buf[PlaceOf(h, size, i)]
      BY HeldBytes DEF fill, h, t
    <2>9. /\ Held(p, size) \in Seq(Nat) /\ Len(Held(p, size)) = fill + 1
          /\ \A i \in 1..(fill + 1) : Held(p, size)[i] = p.buf[PlaceOf(h, size, i)]
      <3>1. fill + 1 = Fill(p.head, p.tail, size)
        BY <2>2, <2>5
      <3>2. p.head = h
        BY <2>2
      <3>3. QED  BY <3>1, <3>2, <2>7, HeldBytes
    <2>10. \A i \in 1..fill : p.buf[PlaceOf(h, size, i)] = r.buf[PlaceOf(h, size, i)]
      BY <2>2, <2>3, <2>5
    <2>11. p.buf[PlaceOf(h, size, fill + 1)] = byte
      BY <2>2, <2>3, <2>5
    <2>12. /\ Append(Held(r, size), byte) \in Seq(Nat)
           /\ Len(Append(Held(r, size), byte)) = fill + 1
           /\ \A i \in 1..fill : Append(Held(r, size), byte)[i] = Held(r, size)[i]
           /\ Append(Held(r, size), byte)[fill + 1] = byte
      BY <2>8, AppendProperties
    <2>13. \A i \in 1..(fill + 1) : Held(p, size)[i] = Append(Held(r, size), byte)[i]
      <3>1. \A i \in 1..(fill + 1) : i \in 1..fill \/ i = fill + 1
        BY <2>5
      <3>2. QED  BY <2>9, <2>10, <2>11, <2>12, <2>8, <3>1, Zenon
    <2>14. Held(p, size) = Append(Held(r, size), byte)
      BY <2>9, <2>12, <2>13, SeqEqual
    <2>15. QED  BY <1>2, <2>2, <2>5, <2>7, <2>14 DEF p, h, t
  <1>3. QED  BY <1>1, <1>2

\* The byte that is dropped was the first.
LEMMA DroppedByte ==
    ASSUME NEW size \in Nat \ {0}, NEW r \in Rings(size), ~ fifo_isEmpty(r)
    PROVE  /\ Dropped(r, size) \in Rings(size)
           /\ Dropped(r, size).buf = r.buf
           /\ Held(r, size) # <<>>
           /\ r.buf[r.head] = Head(Held(r, size))
           /\ Held(Dropped(r, size), size) = Tail(Held(r, size))
  <1> DEFINE d == Dropped(r, size)
             h == r.head
             t == r.tail
             n == (h + 1) % size
             fill == Fill(n, t, size)
  <1>1. h \in 0..(size - 1) /\ t \in 0..(size - 1) /\ r.buf \in [0..(size - 1) -> Nat]
    BY RingFields
  <1>2. d = [buf |-> r.buf, head |-> n, tail |-> t]
    BY DEF Dropped, Rings
  <1>3. d.buf = r.buf /\ d.head = n /\ d.tail = t
    BY <1>2
  <1>4. h # t
    BY DEF fifo_isEmpty
  <1>a. n = (h + 1) % size /\ fill = Fill(n, t, size)
    OBVIOUS
  <1> HIDE DEF n, h, t, fill
  <1>5. /\ n \in 0..(size - 1)
        /\ fill \in Nat
        /\ Fill(h, t, size) = fill + 1
        /\ \A i \in 1..fill : PlaceOf(n, size, i) = PlaceOf(h, size, i + 1)
        /\ PlaceOf(h, size, 1) = h
    <2>1. /\ n \in 0..(size - 1)
          /\ Fill(n, t, size) \in Nat
          /\ Fill(h, t, size) = Fill(n, t, size) + 1
          /\ \A i \in 1..Fill(n, t, size) : PlaceOf(n, size, i) = PlaceOf(h, size, i + 1)
          /\ PlaceOf(h, size, 1) = h
      <3>1. n = (h + 1) % size
        BY <1>a
      <3>2. h \in 0..(size - 1) /\ t \in 0..(size - 1)
        BY <1>1
      <3>3. QED  BY <1>4, <3>1, <3>2, HeadAdvances, SMTT(30)
    <2>2. QED  BY <1>a, <2>1
  <1>6. d \in Rings(size)
    BY <1>1, <1>2, <1>5, RingRecord, Zenon
  <1> HIDE DEF d
  <1>7. /\ Held(r, size) \in Seq(Nat) /\ Len(Held(r, size)) = fill + 1
        /\ \A i \in 1..(fill + 1) : Held(r, size)[i] = r.buf[PlaceOf(h, size, i)]
    BY <1>5, HeldBytes DEF h, t
  <1>8. /\ Held(d, size) \in Seq(Nat) /\ Len(Held(d, size)) = fill
        /\ \A i \in 1..fill : Held(d, size)[i] = r.buf[PlaceOf(n, size, i)]
    BY <1>a, <1>3, <1>6, HeldBytes
  <1>9. Held(r, size) # <<>> /\ r.buf[h] = Head(Held(r, size))
    BY <1>5, <1>7
  <1>10. /\ Tail(Held(r, size)) \in Seq(Nat)
         /\ Len(Tail(Held(r, size))) = fill
         /\ \A i \in 1..fill : Tail(Held(r, size))[i] = Held(r, size)[i + 1]
    BY <1>5, <1>7, <1>9, HeadTailProperties
  <1>11. \A i \in 1..fill : Held(d, size)[i] = Tail(Held(r, size))[i]
    <2>1. \A i \in 1..fill : i + 1 \in 1..(fill + 1)
      BY <1>5
    <2>2. QED  BY <1>5, <1>7, <1>8, <1>10, <2>1, Zenon
  <1>12. Held(d, size) = Tail(Held(r, size))
    BY <1>8, <1>10, <1>11, SeqEqual
  <1>13. QED  BY <1>3, <1>6, <1>9, <1>12 DEF d, h
----------------------------------------------------------------------------
(* The bytes of the host                                                  *)

\* Every byte up to n is one of bytes, which are in order, or gone.
Accounted(bytes, gone, n) ==
    /\ ToSet(bytes) \cup gone = 1..n
    /\ ToSet(bytes) \cap gone = {}
    /\ \A i, j \in 1..Len(bytes) : i < j => bytes[i] < bytes[j]

LEMMA SetOf == ASSUME NEW S, NEW s \in Seq(S) PROVE ToSet(s) = {s[i] : i \in 1..Len(s)}
  BY DEF ToSet

LEMMA SetOfConcat ==
    ASSUME NEW S, NEW s \in Seq(S), NEW t \in Seq(S)
    PROVE  ToSet(s \o t) = ToSet(s) \cup ToSet(t)
  <1>1. ToSet(s) = Range(s) /\ ToSet(t) = Range(t) /\ ToSet(s \o t) = Range(s \o t)
    BY DEF ToSet, Range
  <1>2. QED  BY <1>1, RangeConcatenation

LEMMA SetOfBytes == \A s, t \in Seq(Nat) : ToSet(s \o t) = ToSet(s) \cup ToSet(t)
  BY SetOfConcat

LEMMA BytesAssociative == \A s, t, u \in Seq(Nat) : (s \o t) \o u = s \o (t \o u)
  <1> TAKE s, t, u \in Seq(Nat)
  <1> QED  BY ConcatAssociative

LEMMA BytesTogether == \A s, t \in Seq(Nat) : s \o t \in Seq(Nat)
  BY ConcatProperties

\* A sequence is its first element and the rest.
LEMMA FirstAndRest ==
    ASSUME NEW r \in Seq(Nat), r # <<>>
    PROVE  /\ Head(r) \in Nat /\ Tail(r) \in Seq(Nat) /\ <<Head(r)>> \in Seq(Nat)
           /\ Len(Tail(r)) = Len(r) - 1
           /\ r = <<Head(r)>> \o Tail(r)
           /\ Head(r) \in ToSet(r)
  <1>1. Head(r) \in Nat /\ Tail(r) \in Seq(Nat) /\ Len(Tail(r)) = Len(r) - 1
        /\ \A i \in 1..Len(Tail(r)) : Tail(r)[i] = r[i + 1]
    BY HeadTailProperties
  <1>2. <<Head(r)>> \in Seq(Nat)
    BY <1>1
  <1>3. Len(r) \in Nat \ {0} /\ Len(<<Head(r)>>) = 1 /\ <<Head(r)>>[1] = r[1] /\ Head(r) = r[1]
    BY EmptySeq
  <1>4. /\ <<Head(r)>> \o Tail(r) \in Seq(Nat)
        /\ Len(<<Head(r)>> \o Tail(r)) = Len(<<Head(r)>>) + Len(Tail(r))
        /\ \A i \in 1..(Len(<<Head(r)>>) + Len(Tail(r))) :
               (<<Head(r)>> \o Tail(r))[i] = IF i <= Len(<<Head(r)>>) THEN <<Head(r)>>[i]
                                             ELSE Tail(r)[i - Len(<<Head(r)>>)]
    BY <1>1, <1>2, ConcatProperties
  <1> DEFINE q == <<Head(r)>> \o Tail(r)
  <1>5. q \in Seq(Nat) /\ Len(q) = Len(r)
    BY <1>1, <1>3, <1>4
  <1>6. \A i \in 1..Len(r) : q[i] = IF i = 1 THEN r[1] ELSE Tail(r)[i - 1]
    BY <1>1, <1>3, <1>4
  <1> HIDE DEF q
  <1>7. ASSUME NEW i \in 1..Len(r) PROVE q[i] = r[i]
    <2>1. CASE i = 1  BY <1>6, <2>1
    <2>2. CASE i # 1
      <3>1. i - 1 \in 1..Len(Tail(r)) /\ (i - 1) + 1 = i  BY <1>1, <1>3, <2>2
      <3>2. Tail(r)[i - 1] = r[i]  BY <1>1, <3>1
      <3>3. QED  BY <1>6, <2>2, <3>2
    <2>3. QED  BY <2>1, <2>2
  <1>8. q = r
    BY <1>5, <1>7, SeqEqual
  <1>9. Head(r) \in ToSet(r)
    <2>1. ToSet(r) = {r[i] : i \in 1..Len(r)} /\ 1 \in 1..Len(r)
      BY <1>3, SetOf
    <2>2. QED  BY <1>3, <2>1
  <1>10. QED  BY <1>1, <1>2, <1>8, <1>9 DEF q

\* A byte that arrives is later than all others.
LEMMA ArrivalAccounted ==
    ASSUME NEW n \in Nat, NEW bytes \in Seq(Nat), NEW gone, Accounted(bytes, gone, n)
    PROVE  /\ Accounted(Append(bytes, n + 1), gone, n + 1)
           /\ Accounted(bytes, gone \cup {n + 1}, n + 1)
  <1> DEFINE b == Append(bytes, n + 1)
  <1>1. Len(bytes) \in Nat /\ b \in Seq(Nat) /\ Len(b) = Len(bytes) + 1
        /\ (\A i \in 1..Len(bytes) : b[i] = bytes[i]) /\ b[Len(bytes) + 1] = n + 1
    BY AppendProperties, LenProperties
  <1>2. ToSet(bytes) \cup gone = 1..n /\ ToSet(bytes) \cap gone = {}
        /\ \A i, j \in 1..Len(bytes) : i < j => bytes[i] < bytes[j]
    BY DEF Accounted
  <1> HIDE DEF b
  <1>3. \A i \in 1..(Len(bytes) + 1) : i \in 1..Len(bytes) \/ i = Len(bytes) + 1
    BY <1>1
  <1>4. ToSet(b) = ToSet(bytes) \cup {n + 1}
    <2>1. ToSet(bytes) = {bytes[i] : i \in 1..Len(bytes)} /\ ToSet(b) = {b[i] : i \in 1..Len(b)}
      BY <1>1, SetOf
    <2>2. QED  BY <1>1, <1>3, <2>1
  <1>5. \A i \in 1..Len(bytes) : bytes[i] \in 1..n
    <2>1. ToSet(bytes) = {bytes[i] : i \in 1..Len(bytes)}
      BY SetOf
    <2>2. QED  BY <1>2, <2>1
  <1>6. \A i, j \in 1..Len(b) : i < j => b[i] < b[j]
    <2>1. SUFFICES ASSUME NEW i \in 1..Len(b), NEW j \in 1..Len(b), i < j PROVE b[i] < b[j]
      OBVIOUS
    <2>2. i \in 1..Len(bytes)  BY <1>1, <2>1
    <2>3. CASE j \in 1..Len(bytes)  BY <1>1, <1>2, <2>1, <2>2, <2>3
    <2>4. CASE j = Len(bytes) + 1
      <3>1. b[i] = bytes[i] /\ b[j] = n + 1 /\ bytes[i] \in 1..n  BY <1>1, <1>5, <2>2, <2>4
      <3>2. QED  BY <3>1
    <2>5. QED  BY <1>1, <1>3, <2>3, <2>4
  <1>7. (1..n) \cup {n + 1} = 1..(n + 1) /\ n + 1 \notin 1..n
    OBVIOUS
  <1>8. Accounted(b, gone, n + 1)
    BY <1>2, <1>4, <1>6, <1>7 DEF Accounted
  <1>9. Accounted(bytes, gone \cup {n + 1}, n + 1)
    BY <1>2, <1>7 DEF Accounted
  <1>10. QED  BY <1>8, <1>9 DEF b

\* Bytes that are lost were in one piece, and the others stay in order.
LEMMA LossAccounted ==
    ASSUME NEW n \in Nat, NEW gone, NEW s \in Seq(Nat), NEW t \in Seq(Nat), NEW u \in Seq(Nat),
           Accounted((s \o t) \o u, gone, n)
    PROVE  Accounted(s \o u, gone \cup ToSet(t), n)
  <1> DEFINE b == (s \o t) \o u
             c == s \o u
             at(i) == IF i <= Len(s) THEN i ELSE i + Len(t)
  <1>1. Len(s) \in Nat /\ Len(t) \in Nat /\ Len(u) \in Nat
    BY LenProperties
  <1>2. /\ s \o t \in Seq(Nat) /\ Len(s \o t) = Len(s) + Len(t)
        /\ \A i \in 1..(Len(s) + Len(t)) : (s \o t)[i] = IF i <= Len(s) THEN s[i] ELSE t[i - Len(s)]
    BY ConcatProperties
  <1>3. /\ b \in Seq(Nat) /\ Len(b) = Len(s \o t) + Len(u)
        /\ \A i \in 1..(Len(s \o t) + Len(u)) :
               b[i] = IF i <= Len(s \o t) THEN (s \o t)[i] ELSE u[i - Len(s \o t)]
    BY <1>2, ConcatProperties
  <1>4. /\ c \in Seq(Nat) /\ Len(c) = Len(s) + Len(u)
        /\ \A i \in 1..(Len(s) + Len(u)) : c[i] = IF i <= Len(s) THEN s[i] ELSE u[i - Len(s)]
    BY ConcatProperties
  <1>5. ToSet(b) = ToSet(s) \cup ToSet(t) \cup ToSet(u) /\ ToSet(c) = ToSet(s) \cup ToSet(u)
    <2>1. ToSet(s \o t) = ToSet(s) \cup ToSet(t)  BY SetOfConcat
    <2>a. s \o t \in Seq(Nat)  BY <1>2
    <2>2. ToSet(b) = ToSet(s \o t) \cup ToSet(u)  BY <2>a, SetOfBytes, Zenon
    <2>3. ToSet(c) = ToSet(s) \cup ToSet(u)  BY SetOfConcat
    <2>4. QED  BY <2>1, <2>2, <2>3
  <1>6. ToSet(b) \cup gone = 1..n /\ ToSet(b) \cap gone = {}
        /\ \A i, j \in 1..Len(b) : i < j => b[i] < b[j]
    BY DEF Accounted
  <1>7. ToSet(s) = {s[i] : i \in 1..Len(s)} /\ ToSet(t) = {t[i] : i \in 1..Len(t)}
        /\ ToSet(u) = {u[i] : i \in 1..Len(u)}
    BY SetOf
  <1> HIDE DEF b, c
  <1>8. /\ \A i \in 1..Len(s) : i \in 1..Len(b) /\ b[i] = s[i]
        /\ \A i \in 1..Len(t) : Len(s) + i \in 1..Len(b) /\ b[Len(s) + i] = t[i]
        /\ \A i \in 1..Len(u) : Len(s) + Len(t) + i \in 1..Len(b) /\ b[Len(s) + Len(t) + i] = u[i]
    <2>1. ASSUME NEW i \in 1..Len(s) PROVE i \in 1..Len(b) /\ b[i] = s[i]
      <3>1. i \in 1..(Len(s) + Len(t)) /\ i \in 1..(Len(s \o t) + Len(u)) /\ i <= Len(s \o t) /\ i <= Len(s)
        BY <1>1, <1>2
      <3>2. QED  BY <1>2, <1>3, <3>1
    <2>2. ASSUME NEW i \in 1..Len(t) PROVE Len(s) + i \in 1..Len(b) /\ b[Len(s) + i] = t[i]
      <3> DEFINE k == Len(s) + i
      <3>1. k \in 1..(Len(s) + Len(t)) /\ k \in 1..(Len(s \o t) + Len(u)) /\ k <= Len(s \o t)
            /\ ~ (k <= Len(s)) /\ k - Len(s) = i
        BY <1>1, <1>2
      <3> HIDE DEF k
      <3>2. k \in 1..Len(b) /\ b[k] = t[i]
        BY <1>2, <1>3, <3>1
      <3>3. QED  BY <3>2 DEF k
    <2>3. ASSUME NEW i \in 1..Len(u) PROVE Len(s) + Len(t) + i \in 1..Len(b) /\ b[Len(s) + Len(t) + i] = u[i]
      <3> DEFINE k == Len(s) + Len(t) + i
      <3>1. k \in 1..(Len(s \o t) + Len(u)) /\ ~ (k <= Len(s \o t)) /\ k - Len(s \o t) = i
        BY <1>1, <1>2
      <3> HIDE DEF k
      <3>2. k \in 1..Len(b) /\ b[k] = u[i]
        BY <1>3, <3>1
      <3>3. QED  BY <3>2 DEF k
    <2>4. QED  BY <2>1, <2>2, <2>3
  <1>9. ToSet(c) \cap ToSet(t) = {}
    <2>1. SUFFICES ASSUME NEW i \in 1..Len(t), NEW x \in ToSet(c), x = t[i] PROVE FALSE
      BY <1>7
    <2>2. Len(s) + i \in 1..Len(b) /\ b[Len(s) + i] = x
      BY <1>8, <2>1
    <2>3. ASSUME NEW j \in 1..Len(s), x = s[j] PROVE FALSE
      <3>1. j \in 1..Len(b) /\ b[j] = x /\ j < Len(s) + i
        BY <1>1, <1>8, <2>3
      <3>2. b[j] < b[Len(s) + i] /\ b[j] \in Nat
        BY <1>3, <1>6, <2>2, <3>1, ElementOfSeq
      <3>3. QED  BY <2>2, <3>1, <3>2
    <2>4. ASSUME NEW j \in 1..Len(u), x = u[j] PROVE FALSE
      <3>1. Len(s) + Len(t) + j \in 1..Len(b) /\ b[Len(s) + Len(t) + j] = x /\ Len(s) + i < Len(s) + Len(t) + j
        BY <1>1, <1>8, <2>4
      <3>2. b[Len(s) + i] < b[Len(s) + Len(t) + j] /\ b[Len(s) + i] \in Nat
        BY <1>3, <1>6, <2>2, <3>1, ElementOfSeq
      <3>3. QED  BY <2>2, <3>1, <3>2
    <2>5. QED  BY <1>5, <1>7, <2>1, <2>3, <2>4
  <1>10. \A i, j \in 1..Len(c) : i < j => c[i] < c[j]
    <2>1. ASSUME NEW i \in 1..Len(c) PROVE at(i) \in 1..Len(b) /\ c[i] = b[at(i)]
      <3>1. CASE i <= Len(s)
        <4>1. i \in 1..(Len(s) + Len(u)) /\ i \in 1..Len(s)  BY <1>1, <1>4, <3>1
        <4>a. c[i] = s[i]  BY <1>4, <3>1, <4>1
        <4>2. QED  BY <1>8, <3>1, <4>1, <4>a
      <3>2. CASE ~ (i <= Len(s))
        <4> DEFINE k == i - Len(s)
        <4>1. k \in 1..Len(u) /\ c[i] = u[k] /\ Len(s) + Len(t) + k = i + Len(t)  BY <1>1, <1>4, <3>2
        <4> HIDE DEF k
        <4>2. QED  BY <1>8, <3>2, <4>1
      <3>3. QED  BY <3>1, <3>2
    <2>2. \A i, j \in 1..Len(c) : i < j => at(i) < at(j)
      <3>1. \A i, j \in Nat : i < j => at(i) < at(j)
        BY <1>1
      <3>2. QED  BY <1>1, <1>4, <3>1
    <2> HIDE DEF at
    <2>3. QED  BY <1>6, <2>1, <2>2
  <1>11. Accounted(c, gone \cup ToSet(t), n)
    BY <1>5, <1>6, <1>9, <1>10 DEF Accounted
  <1>12. QED  BY <1>11 DEF c
\* The bytes in their places: the dispatcher, the buffer of uart_Poll(), the
\* ring and the register.
Pieces(h, a, r, g) == h \o ((a \o r) \o g)

\* A byte goes from the register to the ring.
LEMMA RegisterToRing ==
    ASSUME NEW h \in Seq(Nat), NEW a \in Seq(Nat), NEW r \in Seq(Nat), NEW x \in Nat
    PROVE  Pieces(h, a, Append(r, x), <<>>) = Pieces(h, a, r, <<x>>)
  <1>1. Append(r, x) = r \o <<x>> /\ <<x>> \in Seq(Nat) /\ <<>> \in Seq(Nat)
    BY AppendIsConcat
  <1>2. a \o (r \o <<x>>) = (a \o r) \o <<x>> /\ a \o r \in Seq(Nat)
    BY <1>1, ConcatAssociative, ConcatProperties
  <1>3. (a \o r) \o <<x>> \in Seq(Nat)
    BY <1>1, <1>2, ConcatProperties
  <1>4. ((a \o r) \o <<x>>) \o <<>> = (a \o r) \o <<x>>
    BY <1>3, ConcatEmptySeq
  <1>5. QED  BY <1>1, <1>2, <1>4, Zenon DEF Pieces

\* A byte comes into the register.
LEMMA LineToRegister ==
    ASSUME NEW h \in Seq(Nat), NEW a \in Seq(Nat), NEW r \in Seq(Nat), NEW x \in Nat
    PROVE  Pieces(h, a, r, <<x>>) = Append(Pieces(h, a, r, <<>>), x)
  <1>1. <<x>> \in Seq(Nat) /\ <<>> \in Seq(Nat)
    OBVIOUS
  <1>2. a \o r \in Seq(Nat)
    BY ConcatProperties
  <1>3. (a \o r) \o <<>> = a \o r /\ h \o (a \o r) \in Seq(Nat)
    BY <1>2, ConcatEmptySeq, ConcatProperties
  <1>4. h \o ((a \o r) \o <<x>>) = (h \o (a \o r)) \o <<x>>
    <2> DEFINE q == a \o r
    <2>1. <<x>> \in Seq(Nat) /\ q \in Seq(Nat)
      BY <1>1, <1>2
    <2> HIDE DEF q
    <2>2. h \o (q \o <<x>>) = (h \o q) \o <<x>>
      BY <2>1, BytesAssociative, Zenon
    <2>3. QED  BY <2>2 DEF q
  <1>5. Append(h \o (a \o r), x) = (h \o (a \o r)) \o <<x>>
    BY <1>3, AppendIsConcat
  <1>6. QED  BY <1>3, <1>4, <1>5, Zenon DEF Pieces

\* The main loop reads the first byte of the ring.
LEMMA BufferAndRing ==
    ASSUME NEW a \in Seq(Nat), NEW r \in Seq(Nat), r # <<>>
    PROVE  Append(a, Head(r)) \o Tail(r) = a \o r
  <1>1. Head(r) \in Nat /\ Tail(r) \in Seq(Nat) /\ <<Head(r)>> \in Seq(Nat) /\ r = <<Head(r)>> \o Tail(r)
    BY FirstAndRest
  <1>2. Append(a, Head(r)) = a \o <<Head(r)>>
    BY <1>1, AppendIsConcat
  <1>3. (a \o <<Head(r)>>) \o Tail(r) = a \o (<<Head(r)>> \o Tail(r))
    BY <1>1, BytesAssociative, Zenon
  <1>4. QED  BY <1>1, <1>2, <1>3, Zenon

LEMMA RingToBuffer ==
    ASSUME NEW h \in Seq(Nat), NEW a \in Seq(Nat), NEW r \in Seq(Nat), NEW g \in Seq(Nat), r # <<>>
    PROVE  Pieces(h, Append(a, Head(r)), Tail(r), g) = Pieces(h, a, r, g)
  BY BufferAndRing, Zenon DEF Pieces

\* The buffer goes to the dispatcher, or is dropped.
LEMMA BufferToDispatcher ==
    ASSUME NEW h \in Seq(Nat), NEW a \in Seq(Nat), NEW r \in Seq(Nat), NEW g \in Seq(Nat)
    PROVE  /\ Pieces(h \o a, <<>>, r, g) = Pieces(h, a, r, g)
           /\ \A gone : \A n \in Nat :
                  Accounted(Pieces(h, a, r, g), gone, n) =>
                  Accounted(Pieces(h, <<>>, r, g), gone \cup ToSet(a), n)
  <1> DEFINE q == r \o g
  <1>1. h \o a \in Seq(Nat) /\ q \in Seq(Nat)
    BY ConcatProperties
  <1>2. <<>> \o r = r
    BY ConcatEmptySeq
  <1>3. (a \o r) \o g = a \o q
    BY BytesAssociative, Zenon
  <1>4. Pieces(h \o a, <<>>, r, g) = (h \o a) \o q
    BY <1>2, Zenon DEF Pieces
  <1>5. Pieces(h, <<>>, r, g) = h \o q
    BY <1>2, Zenon DEF Pieces
  <1>6. Pieces(h, a, r, g) = h \o (a \o q)
    BY <1>3, Zenon DEF Pieces
  <1> HIDE DEF q
  <1>7. (h \o a) \o q = h \o (a \o q)
    BY <1>1, BytesAssociative, Zenon
  <1>8. ASSUME NEW gone, NEW n \in Nat, Accounted(Pieces(h, a, r, g), gone, n)
        PROVE  Accounted(Pieces(h, <<>>, r, g), gone \cup ToSet(a), n)
    <2>1. Accounted((h \o a) \o q, gone, n)
      BY <1>6, <1>7, <1>8, Zenon
    <2>2. Accounted(h \o q, gone \cup ToSet(a), n)
      BY <1>1, <2>1, LossAccounted
    <2>3. QED  BY <1>5, <2>2, Zenon
  <1>9. QED  BY <1>4, <1>6, <1>7, <1>8, Zenon

\* The byte in the register finds no place.
LEMMA RegisterLost ==
    ASSUME NEW h \in Seq(Nat), NEW a \in Seq(Nat), NEW r \in Seq(Nat), NEW x \in Nat
    PROVE  /\ Pieces(h, a, r, <<x>>) = (Pieces(h, a, r, <<>>) \o <<x>>) \o <<>>
           /\ Pieces(h, a, r, <<>>) \o <<>> = Pieces(h, a, r, <<>>)
           /\ Pieces(h, a, r, <<>>) \in Seq(Nat)
  <1>1. <<x>> \in Seq(Nat) /\ <<>> \in Seq(Nat)
    OBVIOUS
  <1>2. a \o r \in Seq(Nat)
    BY ConcatProperties
  <1>3. (a \o r) \o <<>> = a \o r
    BY <1>2, ConcatEmptySeq
  <1>4. Pieces(h, a, r, <<>>) \in Seq(Nat)
    BY <1>2, <1>3, ConcatProperties DEF Pieces
  <1> DEFINE p == Pieces(h, a, r, <<>>)
  <1>5. p \o <<>> = p
    BY <1>4, ConcatEmptySeq
  <1>6. Pieces(h, a, r, <<x>>) = p \o <<x>>
    <2>1. Pieces(h, a, r, <<x>>) = Append(p, x)
      BY LineToRegister
    <2> HIDE DEF p
    <2>2. Append(p, x) = p \o <<x>>
      BY <1>4, AppendIsConcat DEF p
    <2>3. QED  BY <2>1, <2>2
  <1>7. p \o <<x>> \in Seq(Nat)
    BY <1>1, <1>4, ConcatProperties
  <1>8. (p \o <<x>>) \o <<>> = p \o <<x>>
    BY <1>7, ConcatEmptySeq
  <1>9. QED  BY <1>4, <1>5, <1>6, <1>8
----------------------------------------------------------------------------
(* The bytes of the messages                                              *)

\* In their places: on the line, in the shift register, the next to be sent,
\* in the ring and in the message.
OnTheWay(w, s, l, q, m) == w \o (s \o (l \o (q \o m)))
FirstBytes(k) == [i \in 1..k |-> i]

\* The byte leaves the shift register.
LEMMA ShifterToLine ==
    ASSUME NEW w \in Seq(Nat), NEW x \in Nat, NEW t \in Seq(Nat)
    PROVE  Append(w, x) \o (<<>> \o t) = w \o (<<x>> \o t)
  <1>a. <<x>> \in Seq(Nat)
    OBVIOUS
  <1>1. Append(w, x) = w \o <<x>>
    BY AppendIsConcat
  <1>2. <<>> \o t = t
    BY ConcatEmptySeq
  <1>3. (w \o <<x>>) \o t = w \o (<<x>> \o t)
    BY <1>a, BytesAssociative, Zenon
  <1>4. QED  BY <1>1, <1>2, <1>3, Zenon

\* The interrupt puts it there.
LEMMA NextToShifter ==
    ASSUME NEW x \in Nat, NEW t \in Seq(Nat)
    PROVE  <<x>> \o (<<>> \o t) = <<>> \o (<<x>> \o t)
  <1>1. <<x>> \in Seq(Nat)
    OBVIOUS
  <1>2. <<x>> \o t \in Seq(Nat)
    BY <1>1, BytesTogether
  <1>3. <<>> \o t = t /\ <<>> \o (<<x>> \o t) = <<x>> \o t
    BY <1>2, ConcatEmptySeq
  <1>4. QED  BY <1>3, Zenon

\* The first byte of the ring is the next to be sent.
LEMMA QueueToNext ==
    ASSUME NEW q \in Seq(Nat), NEW m \in Seq(Nat), q # <<>>
    PROVE  <<Head(q)>> \o (Tail(q) \o m) = <<>> \o (q \o m)
  <1>1. Tail(q) \in Seq(Nat) /\ <<Head(q)>> \in Seq(Nat) /\ q = <<Head(q)>> \o Tail(q)
    BY FirstAndRest
  <1>2. (<<Head(q)>> \o Tail(q)) \o m = <<Head(q)>> \o (Tail(q) \o m)
    BY <1>1, BytesAssociative, Zenon
  <1>3. q \o m \in Seq(Nat)
    BY BytesTogether
  <1>4. <<>> \o (q \o m) = q \o m
    BY <1>3, ConcatEmptySeq
  <1>5. QED  BY <1>1, <1>2, <1>4, Zenon

\* A byte of the message is pushed.
LEMMA MessageToQueue ==
    ASSUME NEW q \in Seq(Nat), NEW m \in Seq(Nat), m # <<>>
    PROVE  Append(q, Head(m)) \o Tail(m) = q \o m
  <1>1. Head(m) \in Nat /\ Tail(m) \in Seq(Nat) /\ <<Head(m)>> \in Seq(Nat) /\ m = <<Head(m)>> \o Tail(m)
    BY FirstAndRest
  <1>2. Append(q, Head(m)) = q \o <<Head(m)>>
    BY <1>1, AppendIsConcat
  <1>3. (q \o <<Head(m)>>) \o Tail(m) = q \o (<<Head(m)>> \o Tail(m))
    BY <1>1, BytesAssociative, Zenon
  <1>4. QED  BY <1>1, <1>2, <1>3, Zenon

LEMMA AtRest ==
    ASSUME NEW w \in Seq(Nat), NEW m \in Seq(Nat)
    PROVE  OnTheWay(w, <<>>, <<>>, <<>>, m) = w \o m /\ w \o <<>> = w
  <1>1. <<>> \o m = m /\ w \o <<>> = w
    BY ConcatEmptySeq
  <1>2. QED  BY <1>1, Zenon DEF OnTheWay

\* A new message takes the next numbers.
LEMMA NextNumbers ==
    ASSUME NEW k \in Nat, NEW n \in Nat
    PROVE  /\ [i \in 1..k |-> i] \o [i \in 1..n |-> k + i] = [i \in 1..(k + n) |-> i]
           /\ [i \in 1..k |-> i] \in Seq(Nat)
           /\ ToSet([i \in 1..k |-> i]) = 1..k
           /\ Len([i \in 1..k |-> i]) = k
  <1> DEFINE s == [i \in 1..k |-> i]
             t == [i \in 1..n |-> k + i]
             u == [i \in 1..(k + n) |-> i]
  <1>1. s \in Seq(Nat) /\ Len(s) = k /\ \A i \in 1..k : s[i] = i
    OBVIOUS
  <1>2. t \in Seq(Nat) /\ Len(t) = n /\ \A i \in 1..n : t[i] = k + i
    OBVIOUS
  <1>3. u \in Seq(Nat) /\ Len(u) = k + n /\ \A i \in 1..(k + n) : u[i] = i
    OBVIOUS
  <1>4. ToSet(s) = 1..k
    BY DEF ToSet
  <1> HIDE DEF s, t, u
  <1>5. s \o t \in Seq(Nat) /\ Len(s \o t) = k + n
        /\ \A i \in 1..(k + n) : (s \o t)[i] = IF i <= k THEN s[i] ELSE t[i - k]
    BY <1>1, <1>2, ConcatProperties
  <1>6. ASSUME NEW i \in 1..(k + n) PROVE (s \o t)[i] = i
    <2>1. CASE i <= k
      <3>1. i \in 1..k  BY <2>1
      <3>2. QED  BY <1>1, <1>5, <2>1, <3>1
    <2>2. CASE ~ (i <= k)
      <3>1. i - k \in 1..n /\ k + (i - k) = i  BY <2>2
      <3>2. t[i - k] = i  BY <1>2, <3>1
      <3>3. QED  BY <1>5, <2>2, <3>2
    <2>3. QED  BY <2>1, <2>2
  <1>7. s \o t = u
    BY <1>3, <1>5, <1>6, SeqEqual
  <1>8. QED  BY <1>1, <1>4, <1>7 DEF s, t, u

\* Each of them is the number of a byte that a message holds.
LEMMA Numbers ==
    ASSUME NEW w \in Seq(Nat), NEW s \in Seq(Nat), NEW l \in Seq(Nat), NEW q \in Seq(Nat),
           NEW m \in Seq(Nat), NEW k \in Nat, OnTheWay(w, s, l, q, m) = FirstBytes(k)
    PROVE  ToSet(w) \cup ToSet(s) \cup ToSet(l) \cup ToSet(q) \cup ToSet(m) = 1..k
  <1>1. q \o m \in Seq(Nat)  BY BytesTogether
  <1>2. l \o (q \o m) \in Seq(Nat)  BY <1>1, BytesTogether
  <1>3. s \o (l \o (q \o m)) \in Seq(Nat)  BY <1>2, BytesTogether
  <1>4. ToSet(w \o (s \o (l \o (q \o m)))) = ToSet(w) \cup ToSet(s \o (l \o (q \o m)))
    BY <1>3, SetOfBytes, Zenon
  <1>5. ToSet(s \o (l \o (q \o m))) = ToSet(s) \cup ToSet(l \o (q \o m))
    BY <1>2, SetOfBytes, Zenon
  <1>6. ToSet(l \o (q \o m)) = ToSet(l) \cup ToSet(q \o m)
    BY <1>1, SetOfBytes, Zenon
  <1>7. ToSet(q \o m) = ToSet(q) \cup ToSet(m)
    BY SetOfBytes, Zenon
  <1>8. ToSet(w \o (s \o (l \o (q \o m)))) = 1..k
    BY NextNumbers DEF OnTheWay, FirstBytes
  <1> DEFINE a == ToSet(w) b == ToSet(s) c == ToSet(l) d == ToSet(q) e == ToSet(m)
  <1> HIDE DEF a, b, c, d, e
  <1>9. a \cup (b \cup (c \cup (d \cup e))) = 1..k
    BY <1>4, <1>5, <1>6, <1>7, <1>8, Zenon DEF a, b, c, d, e
  <1>10. a \cup b \cup c \cup d \cup e = 1..k
    BY <1>9
  <1>11. QED  BY <1>10 DEF a, b, c, d, e

----------------------------------------------------------------------------
(* The invariant                                                          *)

LockSteps == {"state", "assign", "read_cr1", "write_cr1", "unlock"}
LoadSteps == {"lock", "txe"} \cup LockSteps
SendSteps == {"push"} \cup LoadSteps
PollSteps == {"idle", "monitor", "timeout", "event", "ahead", "around", "receive", "advance"}

Register == IF huart.RXNE THEN <<rdr>> ELSE <<>>

\* All bytes of the host are accounted for.
AllAccounted == Accounted(Pieces(handed, au8Buf, Ring, Register), lost, arrived)

\* The lock of the handle is held in the main loop's own steps only.
HandleLocked == huart.Lock <=> pc \in LockSteps

\* The main loop sends only when the transmitter is at rest: a byte is under
\* way until its interrupt has ended, and the loop does not run before.
Transmission ==
    /\ pc \in SendSteps => ~ huart.TXEIE /\ isr = "none"
    /\ huart.TXEIE => isr = "none"
    /\ ~ huart.TXEIE /\ isr = "none" => shifter = Nothing
    /\ huart.State \in Transmitting => huart.TXEIE \/ pc \in {"read_cr1", "write_cr1", "unlock", "txe"}
    /\ pc \in {"assign", "read_cr1", "write_cr1", "unlock", "txe"} => huart.TxXferCount = 1

\* What HAL_UART_Transmit_IT() has read is still true when it writes it back.
Remembered == pc \in {"assign", "write_cr1"} /\ ~ refused => seen

\* gs_u8SendByte is yet to be sent.
Loaded == pc \in LoadSteps \/ (huart.TXEIE /\ huart.TxXferCount = 1)

Shifting == IF shifter # Nothing THEN <<shifter>> ELSE <<>>
Loading == IF Loaded THEN <<gs_u8SendByte>> ELSE <<>>
Queue == Held(tx, TxSize)

\* The bytes of the messages are, in their order, on the line, in the shift
\* register, the next to be sent, in the ring and in the message.
InTurn ==
    /\ OnTheWay(wire, Shifting, Loading, Queue, message) = FirstBytes(sent)
    /\ Loaded => shifter = Nothing

\* A message finds the ring empty and fits in it.
Pushing ==
    /\ pc # "push" => message = <<>>
    /\ pc = "push" =>
        /\ bTxRestart
        /\ message # <<>> \/ ~ fifo_isEmpty(tx)
        /\ Len(Queue) + Len(message) < TxSize
    /\ ~ huart.TXEIE /\ isr = "none" /\ pc \notin SendSteps => fifo_isEmpty(tx)

\* The bytes that were in the ring when its size was read come first of those
\* that are and will be read, and no more come without bRxMonitorTmo.
Begins(s, t) == Len(s) <= Len(t) /\ \A i \in 1..Len(s) : t[i] = s[i]

Reading ==
    /\ pc \notin {"receive", "advance"} => au8Buf = <<>>
    /\ pc = "advance" => ~ fifo_isEmpty(rx)
    /\ pc = "around" => rx.tail < rx.head
    /\ pc = "ahead" /\ ~ bRxMonitorTmo => rx.head <= rx.tail
    /\ pc \in {"receive", "advance"} => Len(au8Buf) <= u8Length
    /\ pc \in {"receive", "advance"} =>
        /\ u8Length = Len(frame) + (IF torn THEN LengthMod - RxSize ELSE 0)
        /\ Begins(frame, au8Buf \o Ring)
    /\ pc \in {"receive", "advance"} /\ ~ bRxMonitorTmo => u8Length = Len(au8Buf) + Len(Ring)

\* Bytes that nothing watches are read in this poll.
Watched ==
    /\ pc \in {"idle", "monitor"} \cup SendSteps /\ ~ bRxMonitorTmo /\ ended => fifo_isEmpty(rx)
    /\ pc = "event" /\ ~ bRxMonitorTmo /\ ended => fifo_isEmpty(rx) \/ evt # {}

\* The time out is the interval after the last byte, modulo the tick's bits.
Timed ==
    (bRxMonitorTmo \/ pc = "timeout") /\ silence < TickMod =>
        u8RxTimeout + silence - now - u8RxInterval \in {- TickMod, 0, TickMod}

IInv ==
    /\ TypeOK
    /\ AllAccounted /\ Reading /\ Watched /\ Timed
    /\ HandleLocked /\ Transmission /\ Listens /\ Remembered /\ InTurn /\ Pushing
----------------------------------------------------------------------------
(* Steps that leave one side alone                                        *)

LEMMA Sizes == RxSize \in Nat \ {0} /\ TxSize \in Nat \ {0} /\ LengthMod \in Nat \ {0}
               /\ Half \in Nat \ {0} /\ TickMod = 2 * Half /\ u8RxInterval \in 1..(Half - 1)
               /\ MaxRx \in Nat /\ MaxTx \in Nat /\ RxSize <= LengthMod
  BY HostUartAssumption

LEMMA BytesAreNat == \A n \in Nat : Seq(1..n) \subseteq Seq(Nat) /\ Seq(0..n) \subseteq Seq(Nat)
  <1> TAKE n \in Nat
  <1>1. 1..n \subseteq Nat /\ 0..n \subseteq Nat
    OBVIOUS
  <1>2. QED  BY <1>1, SeqMonotonic

LEMMA ReceiverTypes ==
    ASSUME IInv
    PROVE  /\ handed \in Seq(Nat) /\ au8Buf \in Seq(Nat) /\ rdr \in Nat /\ arrived \in Nat
           /\ rx \in Rings(RxSize) /\ Held(rx, RxSize) \in Seq(Nat)
           /\ Register \in Seq(Nat) /\ Ring \in Seq(Nat)
           /\ pc # "advance" => Ring = Held(rx, RxSize)
           /\ pc = "advance" =>
                /\ Held(rx, RxSize) # <<>>
                /\ Ring = Tail(Held(rx, RxSize))
                /\ Dropped(rx, RxSize) \in Rings(RxSize)
                /\ Held(Dropped(rx, RxSize), RxSize) = Ring
  <1>1. handed \in Seq(Nat) /\ au8Buf \in Seq(Nat) /\ rdr \in Nat /\ arrived \in Nat
        /\ rx \in Rings(RxSize)
    <2>1. /\ handed \in Seq(1..MaxRx) /\ au8Buf \in Seq(1..MaxRx) /\ rdr \in 0..MaxRx
          /\ arrived \in 0..MaxRx /\ rx \in Rings(RxSize)
      BY DEF IInv, TypeOK
    <2>2. Seq(1..MaxRx) \subseteq Seq(Nat)
      <3>1. MaxRx \in Nat
        BY Sizes
      <3>2. QED  BY <3>1, BytesAreNat
    <2>3. QED  BY <2>1, <2>2, Sizes
  <1>2. Held(rx, RxSize) \in Seq(Nat)
    BY <1>1, Sizes, HeldBytes
  <1>3. Register \in Seq(Nat)
    BY <1>1 DEF Register
  <1>4. CASE pc # "advance"
    BY <1>1, <1>2, <1>3, <1>4 DEF Ring
  <1>5. CASE pc = "advance"
    <2>1. ~ fifo_isEmpty(rx)
      BY <1>5 DEF IInv, Reading
    <2>2. /\ Dropped(rx, RxSize) \in Rings(RxSize)
          /\ Held(rx, RxSize) # <<>>
          /\ Held(Dropped(rx, RxSize), RxSize) = Tail(Held(rx, RxSize))
      BY <1>1, <2>1, Sizes, DroppedByte
    <2>3. Held(Dropped(rx, RxSize), RxSize) \in Seq(Nat)
      BY <2>2, Sizes, HeldBytes
    <2>4. QED  BY <1>1, <1>2, <1>3, <1>5, <2>2, <2>3 DEF Ring
  <1>6. QED  BY <1>4, <1>5

LEMMA SenderTypes ==
    ASSUME IInv
    PROVE  /\ wire \in Seq(Nat) /\ message \in Seq(Nat) /\ gs_u8SendByte \in Nat /\ shifter \in Nat
           /\ sent \in Nat
           /\ tx \in Rings(TxSize) /\ Queue \in Seq(Nat) /\ Shifting \in Seq(Nat) /\ Loading \in Seq(Nat)
           /\ <<>> \in Seq(Nat)
  <1>1. wire \in Seq(Nat) /\ message \in Seq(Nat) /\ gs_u8SendByte \in Nat /\ shifter \in Nat
        /\ tx \in Rings(TxSize) /\ sent \in Nat
    BY Sizes, BytesAreNat DEF IInv, TypeOK
  <1>2. Queue \in Seq(Nat)
    BY <1>1, Sizes, HeldBytes DEF Queue
  <1>3. QED  BY <1>1, <1>2 DEF Shifting, Loading

\* The bytes that are on their way have numbers of messages.
LEMMA BytesNumbered ==
    ASSUME IInv
    PROVE  ToSet(Queue) \subseteq 1..sent /\ ToSet(Loading) \subseteq 1..sent
  <1>1. OnTheWay(wire, Shifting, Loading, Queue, message) = FirstBytes(sent)
    BY DEF IInv, InTurn
  <1>2. /\ wire \in Seq(Nat) /\ Shifting \in Seq(Nat) /\ Loading \in Seq(Nat) /\ Queue \in Seq(Nat)
        /\ message \in Seq(Nat) /\ sent \in Nat
    BY SenderTypes
  <1>3. ToSet(wire) \cup ToSet(Shifting) \cup ToSet(Loading) \cup ToSet(Queue) \cup ToSet(message) = 1..sent
    BY <1>1, <1>2, Numbers
  <1>4. QED  BY <1>3, Zenon

\* Steps of the sender.
LEMMA ReceiverKept ==
    ASSUME IInv, UNCHANGED <<rdr, rx, receiver, poll, now, arrived, lost>>,
           huart'.RXNE = huart.RXNE,
           pc' = pc \/ {pc, pc'} \subseteq SendSteps \cup {"idle"}
    PROVE  AllAccounted' /\ Reading' /\ Watched' /\ Timed'
  <1>1. /\ pc' = "advance" <=> pc = "advance"
        /\ pc' = "timeout" <=> pc = "timeout"
        /\ pc' = "event" <=> pc = "event"
        /\ pc' = "ahead" <=> pc = "ahead"
        /\ pc' = "around" <=> pc = "around"
        /\ pc' = "receive" <=> pc = "receive"
        /\ pc' \in {"idle", "monitor"} \cup SendSteps <=> pc \in {"idle", "monitor"} \cup SendSteps
    BY DEF SendSteps, LoadSteps, LockSteps
  <1>2. Ring' = Ring
    BY <1>1 DEF Ring
  <1>3. Register' = Register
    BY DEF Register
  <1>4. AllAccounted'
    BY <1>2, <1>3 DEF AllAccounted, IInv, poll
  <1>5. Reading'
    BY <1>1, <1>2 DEF Reading, IInv, poll, receiver
  <1>6. Watched'
    BY <1>1 DEF Watched, IInv, poll, receiver
  <1>7. Timed'
    BY <1>1 DEF Timed, IInv, poll, receiver
  <1>8. QED  BY <1>4, <1>5, <1>6, <1>7

\* Steps of the receiver.
LEMMA SenderKept ==
    ASSUME IInv, UNCHANGED <<huart, gs_u8SendByte, line, isr, tx, sender, refused>>,
           pc' = pc \/ {pc, pc'} \subseteq PollSteps
    PROVE  HandleLocked' /\ Transmission' /\ Listens' /\ Remembered' /\ InTurn' /\ Pushing'
  <1>1. /\ pc' \in LockSteps <=> pc \in LockSteps
        /\ pc' \in LoadSteps <=> pc \in LoadSteps
        /\ pc' \in SendSteps <=> pc \in SendSteps
        /\ \A s \in SendSteps : pc' = s <=> pc = s
    BY DEF PollSteps, SendSteps, LoadSteps, LockSteps
  <1>2. /\ pc' \in {"read_cr1", "write_cr1", "unlock", "txe"} <=> pc \in {"read_cr1", "write_cr1", "unlock", "txe"}
        /\ pc' \in {"assign", "read_cr1", "write_cr1", "unlock", "txe"} <=>
           pc \in {"assign", "read_cr1", "write_cr1", "unlock", "txe"}
        /\ pc' \in {"assign", "write_cr1"} <=> pc \in {"assign", "write_cr1"}
        /\ pc' = "push" <=> pc = "push"
    BY <1>1 DEF SendSteps, LoadSteps, LockSteps
  <1>3. HandleLocked'
    BY <1>1 DEF HandleLocked, IInv
  <1>4. Transmission'
    BY <1>1, <1>2 DEF Transmission, IInv, line
  <1>5. Listens' /\ Remembered'
    BY <1>2 DEF Listens, Remembered, IInv, sender
  <1>6. (Loaded <=> Loaded') /\ Shifting' = Shifting /\ Loading' = Loading /\ Queue' = Queue
    BY <1>1 DEF Loaded, Shifting, Loading, Queue, line
  <1>7. InTurn'
    BY <1>6 DEF InTurn, IInv, line, sender
  <1>8. Pushing'
    BY <1>1, <1>2, <1>6 DEF Pushing, IInv, sender
  <1>9. QED  BY <1>3, <1>4, <1>5, <1>7, <1>8

----------------------------------------------------------------------------
(* The main loop receives                                                 *)

LEMMA PollKeepsSender ==
    ASSUME IInv, InPoll, {pc, pc'} \subseteq PollSteps
    PROVE  HandleLocked' /\ Transmission' /\ Listens' /\ Remembered' /\ InTurn' /\ Pushing'
  BY SenderKept DEF InPoll

LEMMA PollBeginsInvariant == IInv /\ PollBegins => IInv'
  <1> SUFFICES ASSUME IInv, PollBegins PROVE IInv'
    OBVIOUS
  <1>1. pc = "idle" /\ pc' = "monitor" /\ evt' \subseteq {"RX_FIFO_FULL", "RX_TIMEOUT"} /\ InPoll
    BY DEF PollBegins, Main
  <1>2. HandleLocked' /\ Transmission' /\ Listens' /\ Remembered' /\ InTurn' /\ Pushing'
    BY <1>1, PollKeepsSender DEF PollSteps
  <1>3. TypeOK'
    BY <1>1 DEF PollBegins, InPoll, IInv, TypeOK, Steps, line, sender
  <1>4. Ring' = Ring /\ Register' = Register
    BY <1>1 DEF PollBegins, InPoll, Ring, Register
  <1>5. AllAccounted'
    BY <1>4 DEF PollBegins, InPoll, AllAccounted, IInv
  <1>6. Reading' /\ Watched' /\ Timed'
    BY <1>1 DEF PollBegins, InPoll, Reading, Watched, Timed, IInv
  <1>7. QED  BY <1>2, <1>3, <1>5, <1>6 DEF IInv
LEMMA MonitorsInvariant == IInv /\ Monitors => IInv'
  <1> SUFFICES ASSUME IInv, Monitors PROVE IInv'
    OBVIOUS
  <1>1. pc = "monitor" /\ pc' = (IF bRxMonitorTmo THEN "timeout" ELSE "event") /\ InPoll
    BY DEF Monitors, Main
  <1>2. HandleLocked' /\ Transmission' /\ Listens' /\ Remembered' /\ InTurn' /\ Pushing'
    BY <1>1, PollKeepsSender DEF PollSteps
  <1>3. TypeOK'
    BY <1>1 DEF Monitors, InPoll, IInv, TypeOK, Steps, line, sender, poll
  <1>4. Ring' = Ring /\ Register' = Register
    BY <1>1 DEF Monitors, InPoll, Ring, Register
  <1>5. AllAccounted'
    BY <1>4 DEF Monitors, InPoll, AllAccounted, IInv, poll
  <1>6. Reading' /\ Watched' /\ Timed'
    BY <1>1 DEF Monitors, InPoll, Reading, Watched, Timed, IInv, poll, SendSteps, LoadSteps, LockSteps
  <1>7. QED  BY <1>2, <1>3, <1>5, <1>6 DEF IInv

\* The interval after the last byte and for half of the tick's range more,
\* the signed difference says that the time is out.
LEMMA TimeIsOut ==
    ASSUME NEW timeout \in 0..(TickMod - 1), NEW tick \in 0..(TickMod - 1),
           NEW s \in u8RxInterval..(u8RxInterval + Half),
           timeout + s - tick - u8RxInterval \in {- TickMod, 0, TickMod}
    PROVE  0 >= uart_TimeToTimeout__(timeout, tick)
  BY Sizes DEF uart_TimeToTimeout__

LEMMA ChecksTimeoutInvariant == IInv /\ ChecksTimeout => IInv'
  <1> SUFFICES ASSUME IInv, ChecksTimeout PROVE IInv'
    OBVIOUS
  <1>1. pc = "timeout" /\ pc' = "event" /\ InPoll
    BY DEF ChecksTimeout, Main
  <1>2. HandleLocked' /\ Transmission' /\ Listens' /\ Remembered' /\ InTurn' /\ Pushing'
    BY <1>1, PollKeepsSender DEF PollSteps
  <1>3. TypeOK'
    BY <1>1 DEF ChecksTimeout, InPoll, IInv, TypeOK, Steps, line, sender
  <1>4. Ring' = Ring /\ Register' = Register
    BY <1>1 DEF ChecksTimeout, InPoll, Ring, Register
  <1>5. AllAccounted'
    BY <1>4 DEF ChecksTimeout, InPoll, AllAccounted, IInv
  <1>6. ended' => "RX_TIMEOUT" \in evt'
    <2>1. SUFFICES ASSUME silence \in u8RxInterval..(u8RxInterval + Half)
                   PROVE  0 >= uart_TimeToTimeout__(u8RxTimeout, now)
      BY DEF ChecksTimeout
    <2>2. silence < TickMod
      BY <2>1, Sizes
    <2>3. u8RxTimeout + silence - now - u8RxInterval \in {- TickMod, 0, TickMod}
      BY <1>1, <2>2 DEF IInv, Timed
    <2>4. u8RxTimeout \in 0..(TickMod - 1) /\ now \in 0..(TickMod - 1)
      BY DEF IInv, TypeOK
    <2>5. QED  BY <2>1, <2>3, <2>4, TimeIsOut
  <1>7. Reading' /\ Watched' /\ Timed'
    BY <1>1, <1>6 DEF ChecksTimeout, InPoll, Reading, Watched, Timed, IInv, SendSteps, LoadSteps, LockSteps
  <1>8. QED  BY <1>2, <1>3, <1>5, <1>7 DEF IInv

LEMMA LooksForEventsInvariant == IInv /\ LooksForEvents => IInv'
  <1> SUFFICES ASSUME IInv, LooksForEvents PROVE IInv'
    OBVIOUS
  <1>1. /\ pc = "event" /\ InPoll
        /\ pc' = (IF evt = {} THEN "idle" ELSE IF rx.tail >= rx.head THEN "ahead" ELSE "around")
    BY DEF LooksForEvents, Main
  <1>2. HandleLocked' /\ Transmission' /\ Listens' /\ Remembered' /\ InTurn' /\ Pushing'
    BY <1>1, PollKeepsSender DEF PollSteps
  <1>3. TypeOK'
    BY <1>1 DEF LooksForEvents, InPoll, IInv, TypeOK, Steps, line, sender, poll
  <1>4. Ring' = Ring /\ Register' = Register
    BY <1>1 DEF LooksForEvents, InPoll, Ring, Register
  <1>5. AllAccounted'
    BY <1>4 DEF LooksForEvents, InPoll, AllAccounted, IInv, poll
  <1>6. rx' = rx /\ rx.head \in Int /\ rx.tail \in Int
    BY Sizes DEF LooksForEvents, IInv, TypeOK, Rings
  <1>7. Reading' /\ Watched' /\ Timed'
    BY <1>1, <1>6 DEF LooksForEvents, InPoll, Reading, Watched, Timed, IInv, poll, SendSteps, LoadSteps, LockSteps
  <1>8. QED  BY <1>2, <1>3, <1>5, <1>7 DEF IInv

LEMMA PiecesSet ==
    ASSUME NEW h \in Seq(Nat), NEW a \in Seq(Nat), NEW r \in Seq(Nat), NEW g \in Seq(Nat)
    PROVE  ToSet(Pieces(h, a, r, g)) = ToSet(h) \cup ((ToSet(a) \cup ToSet(r)) \cup ToSet(g))
  <1>1. a \o r \in Seq(Nat)  BY BytesTogether
  <1>2. (a \o r) \o g \in Seq(Nat)  BY <1>1, BytesTogether
  <1>3. ToSet(h \o ((a \o r) \o g)) = ToSet(h) \cup ToSet((a \o r) \o g)  BY <1>2, SetOfBytes, Zenon
  <1>4. ToSet((a \o r) \o g) = ToSet(a \o r) \cup ToSet(g)  BY <1>1, SetOfBytes, Zenon
  <1>5. ToSet(a \o r) = ToSet(a) \cup ToSet(r)  BY SetOfBytes, Zenon
  <1>6. QED  BY <1>3, <1>4, <1>5, Zenon DEF Pieces

\* Every byte in its place has arrived.
LEMMA BytesArrived ==
    ASSUME IInv
    PROVE  /\ ToSet(handed) \subseteq 1..arrived /\ ToSet(au8Buf) \subseteq 1..arrived
           /\ ToSet(Ring) \subseteq 1..arrived /\ ToSet(Register) \subseteq 1..arrived
           /\ arrived <= MaxRx /\ 1..arrived \subseteq 1..MaxRx
  <1>1. ToSet(Pieces(handed, au8Buf, Ring, Register)) \subseteq 1..arrived
    BY DEF IInv, AllAccounted, Accounted
  <1>2. ToSet(Pieces(handed, au8Buf, Ring, Register)) =
            ToSet(handed) \cup ((ToSet(au8Buf) \cup ToSet(Ring)) \cup ToSet(Register))
    BY ReceiverTypes, PiecesSet
  <1>3. arrived \in 0..MaxRx
    BY DEF IInv, TypeOK
  <1>4. arrived <= MaxRx /\ 1..arrived \subseteq 1..MaxRx
    BY <1>3, Sizes
  <1>5. QED  BY <1>1, <1>2, <1>4

\* A sequence of bytes that have arrived, and sequences that begin alike.
LEMMA OfBytes ==
    ASSUME NEW s \in Seq(Nat), NEW S, ToSet(s) \subseteq S
    PROVE  s \in Seq(S)
  <1>1. ToSet(s) = {s[i] : i \in 1..Len(s)}
    BY SetOf
  <1>2. \A i \in 1..Len(s) : s[i] \in S
    BY <1>1
  <1>3. Len(s) \in Nat /\ s = [i \in 1..Len(s) |-> s[i]]
    OBVIOUS
  <1>4. QED  BY <1>2, <1>3

LEMMA BeginsIsPrefix ==
    ASSUME NEW s \in Seq(Nat), NEW t \in Seq(Nat), Begins(s, t)
    PROVE  IsPrefix(s, t)
  <1>1. Len(s) \in Nat /\ Len(t) \in Nat /\ Len(s) <= Len(t) /\ \A i \in 1..Len(s) : t[i] = s[i]
    BY LenProperties DEF Begins
  <1>2. SubSeq(s, 1, Len(s)) = s
    BY SubSeqFull
  <1> DEFINE p == SubSeq(t, 1, Len(s))
  <1>3. p \in Seq(Nat) /\ Len(p) = Len(s) /\ \A i \in 1..Len(s) : p[i] = t[i]
    BY <1>1
  <1> HIDE DEF p
  <1>4. p = s
    BY <1>1, <1>3, SeqEqual
  <1>5. QED  BY <1>1, <1>2, <1>4 DEF IsPrefix, p

LEMMA LastOfConcat ==
    ASSUME NEW s \in Seq(Nat), NEW t \in Seq(Nat), NEW x \in Nat
    PROVE  s \o Append(t, x) = Append(s \o t, x)
  <1>1. <<x>> \in Seq(Nat) /\ Append(t, x) = t \o <<x>>
    BY AppendIsConcat
  <1>2. s \o t \in Seq(Nat)
    BY BytesTogether
  <1>3. Append(s \o t, x) = (s \o t) \o <<x>>
    BY <1>2, AppendIsConcat
  <1>4. (s \o t) \o <<x>> = s \o (t \o <<x>>)
    BY <1>1, BytesAssociative, Zenon
  <1>5. QED  BY <1>1, <1>3, <1>4, Zenon

LEMMA BeginsLonger ==
    ASSUME NEW s \in Seq(Nat), NEW t \in Seq(Nat), NEW x \in Nat, Begins(s, t)
    PROVE  Begins(s, Append(t, x))
  <1>1. Len(Append(t, x)) = Len(t) + 1 /\ \A i \in 1..Len(t) : Append(t, x)[i] = t[i]
    BY AppendProperties
  <1>2. Len(s) \in Nat /\ Len(t) \in Nat /\ Len(s) <= Len(t)
    BY LenProperties DEF Begins
  <1>3. QED  BY <1>1, <1>2 DEF Begins

LEMMA ModType == \A n \in Nat \ {0} : \A k \in Int : k % n \in 0..(n - 1)
  BY Z3

LEMMA LengthKept == \A n \in Nat \ {0} : \A k \in 0..(n - 1) : k % n = k
  BY Z3

LEMMA LengthWraps == \A n \in Nat \ {0} : \A k \in (1 - n)..(-1) : k % n = k + n
  BY Z3

\* fifo_Size() is right when the branch still is, and else too large.
LEMMA SizeIsFill ==
    ASSUME NEW r \in Rings(RxSize)
    PROVE  /\ Size("ahead", r, RxSize) \in Int /\ Size("around", r, RxSize) \in Int
           /\ r.head <= r.tail => Size("ahead", r, RxSize) % LengthMod = Len(Held(r, RxSize))
           /\ r.tail < r.head =>
                /\ Size("around", r, RxSize) % LengthMod = Len(Held(r, RxSize))
                /\ Size("ahead", r, RxSize) % LengthMod = Len(Held(r, RxSize)) + (LengthMod - RxSize)
  <1>1. r.head \in 0..(RxSize - 1) /\ r.tail \in 0..(RxSize - 1)
    BY Sizes, RingFields
  <1>2. Len(Held(r, RxSize)) = Fill(r.head, r.tail, RxSize) /\ Len(Held(r, RxSize)) \in 0..(RxSize - 1)
    BY Sizes, HeldBytes
  <1>3. Len(Held(r, RxSize)) \in 0..(LengthMod - 1)
    BY <1>2, Sizes
  <1>4. Len(Held(r, RxSize)) % LengthMod = Len(Held(r, RxSize))
    BY <1>3, Sizes, LengthKept, Zenon
  <1>5. Size("ahead", r, RxSize) \in Int /\ Size("around", r, RxSize) \in Int
    BY <1>1, Sizes DEF Size
  <1>6. /\ r.head <= r.tail => Size("ahead", r, RxSize) = Len(Held(r, RxSize))
        /\ r.tail < r.head => Size("around", r, RxSize) = Len(Held(r, RxSize))
    BY <1>1, <1>2, Sizes DEF Size, Fill
  <1>7. ASSUME r.tail < r.head
        PROVE  Size("ahead", r, RxSize) % LengthMod = Len(Held(r, RxSize)) + (LengthMod - RxSize)
    <2> DEFINE k == Size("ahead", r, RxSize)
    <2>1. k \in (1 - LengthMod)..(-1) /\ k + LengthMod = Len(Held(r, RxSize)) + (LengthMod - RxSize)
      BY <1>1, <1>2, <1>7, Sizes DEF Size, Fill
    <2> HIDE DEF k
    <2>2. k % LengthMod = k + LengthMod
      BY <2>1, Sizes, LengthWraps, Zenon
    <2>3. QED  BY <2>1, <2>2 DEF k
  <1>8. QED  BY <1>4, <1>5, <1>6, <1>7, Zenon

LEMMA ReadsLengthInvariant == IInv /\ ReadsLength => IInv'
  <1> SUFFICES ASSUME IInv, ReadsLength PROVE IInv'
    OBVIOUS
  <1>1. PICK branch \in {"ahead", "around"} :
            /\ pc = branch /\ pc' = "receive"
            /\ u8Length' = Size(branch, rx, RxSize) % LengthMod
            /\ frame' = Held(rx, RxSize)
            /\ torn' = (branch = "ahead" /\ rx.tail < rx.head)
            /\ UNCHANGED <<rx, bRxMonitorTmo, evt, au8Buf, handed, ended, lost>>
            /\ InPoll
    BY DEF ReadsLength, Main
  <1>2. HandleLocked' /\ Transmission' /\ Listens' /\ Remembered' /\ InTurn' /\ Pushing'
    BY <1>1, PollKeepsSender DEF PollSteps
  <1>3. /\ rx \in Rings(RxSize) /\ Ring = Held(rx, RxSize) /\ Ring \in Seq(Nat)
        /\ rx.head \in Int /\ rx.tail \in Int
    <2>1. pc # "advance"
      BY <1>1
    <2>2. rx \in Rings(RxSize) /\ Ring = Held(rx, RxSize) /\ Ring \in Seq(Nat)
      BY <2>1, ReceiverTypes
    <2>3. QED  BY <2>2, Sizes, RingFields
  <1>4. u8Length' \in 0..(LengthMod - 1)
    <2>1. Size(branch, rx, RxSize) \in Int
      BY <1>1, <1>3, SizeIsFill
    <2>2. Size(branch, rx, RxSize) % LengthMod \in 0..(LengthMod - 1)
      BY <2>1, Sizes, ModType, Zenon
    <2>3. QED  BY <1>1, <2>2
  <1>5. TypeOK'
    <2>1. frame' = Ring
      BY <1>1, <1>3
    <2>2. frame' \in Seq(1..MaxRx)
      BY <1>3, <2>1, BytesArrived, OfBytes
    <2>3. QED  BY <1>1, <1>4, <2>2 DEF InPoll, IInv, TypeOK, Steps, line, sender
  <1>6. Ring' = Ring /\ Register' = Register
    BY <1>1 DEF InPoll, Ring, Register
  <1>7. AllAccounted'
    BY <1>1, <1>6 DEF InPoll, AllAccounted, IInv
  <1>a. torn' <=> branch = "ahead" /\ rx.tail < rx.head
    BY <1>1, Zenon
  <1>8. frame' = Ring' /\ u8Length' = Len(frame') + (IF torn' THEN LengthMod - RxSize ELSE 0)
    <2>1. frame' = Ring' /\ Len(frame') \in Nat
      BY <1>1, <1>3, <1>6, LenProperties
    <2>2. CASE branch = "ahead" /\ rx.head <= rx.tail
      BY <1>1, <1>3, <1>6, <1>a, <2>1, <2>2, SizeIsFill
    <2>3. CASE branch = "ahead" /\ rx.tail < rx.head
      BY <1>1, <1>3, <1>6, <1>a, <2>1, <2>3, SizeIsFill
    <2>4. CASE branch = "around"
      <3>1. rx.tail < rx.head
        BY <1>1, <2>4 DEF IInv, Reading
      <3>2. QED  BY <1>1, <1>3, <1>6, <1>a, <2>1, <2>4, <3>1, SizeIsFill
    <2>5. QED  BY <1>1, <1>3, <2>2, <2>3, <2>4
  <1>9. ~ bRxMonitorTmo' => ~ torn'
    <2>1. CASE branch = "ahead"
      <3>1. ~ bRxMonitorTmo => rx.head <= rx.tail
        BY <1>1, <2>1 DEF IInv, Reading
      <3>2. bRxMonitorTmo' = bRxMonitorTmo
        BY <1>1
      <3>3. QED  BY <1>a, <1>3, <3>1, <3>2
    <2>2. QED  BY <1>a, <2>1
  <1>10. au8Buf' = <<>> /\ Len(au8Buf') = 0 /\ Len(Ring') \in Nat
    BY <1>1, <1>3, <1>6, LenProperties DEF IInv, Reading
  <1>11. Reading'
    <2>1. 0 <= u8Length'
      BY <1>4
    <2>2. au8Buf' \o Ring' = frame'
      BY <1>3, <1>6, <1>8, <1>10, ConcatEmptySeq
    <2>3. Begins(frame', au8Buf' \o Ring')
      BY <1>8, <1>10, <2>2 DEF Begins
    <2>4. QED  BY <1>1, <1>8, <1>9, <1>10, <2>1, <2>3 DEF Reading
  <1>12. Watched' /\ Timed'
    BY <1>1 DEF InPoll, Watched, Timed, IInv, SendSteps, LoadSteps, LockSteps
  <1>13. QED  BY <1>2, <1>5, <1>7, <1>11, <1>12 DEF IInv
LEMMA ReadsByteInvariant == IInv /\ ReadsByte => IInv'
  <1> SUFFICES ASSUME IInv, ReadsByte PROVE IInv'
    OBVIOUS
  <1> DEFINE byte == rx.buf[rx.head]
  <1>1. /\ pc = "receive" /\ pc' = "advance" /\ InPoll
        /\ Len(au8Buf) < u8Length /\ ~ fifo_isEmpty(rx)
        /\ au8Buf' = Append(au8Buf, byte)
        /\ UNCHANGED <<rx, bRxMonitorTmo, evt, u8Length, handed, ended, frame, torn, lost>>
    BY DEF ReadsByte, Main
  <1>2. HandleLocked' /\ Transmission' /\ Listens' /\ Remembered' /\ InTurn' /\ Pushing'
    BY <1>1, PollKeepsSender DEF PollSteps
  <1>3. /\ rx \in Rings(RxSize) /\ Ring = Held(rx, RxSize) /\ Ring \in Seq(Nat)
        /\ handed \in Seq(Nat) /\ au8Buf \in Seq(Nat) /\ Register \in Seq(Nat)
    BY <1>1, ReceiverTypes
  <1>4. Ring # <<>> /\ byte = Head(Ring) /\ Held(Dropped(rx, RxSize), RxSize) = Tail(Ring)
    BY <1>1, <1>3, Sizes, DroppedByte
  <1>5. Ring' = Tail(Ring) /\ Register' = Register
    BY <1>1, <1>4 DEF InPoll, Ring, Register
  <1>6. byte \in 1..MaxRx /\ byte \in Nat
    <2>1. byte \in ToSet(Ring)
      BY <1>3, <1>4, FirstAndRest
    <2>2. QED  BY <2>1, BytesArrived
  <1> HIDE DEF byte
  <1>7. TypeOK'
    <2>1. au8Buf' \in Seq(1..MaxRx)
      BY <1>1, <1>6, AppendProperties DEF IInv, TypeOK
    <2>2. QED  BY <1>1, <2>1 DEF InPoll, IInv, TypeOK, Steps, line, sender
  <1>8. Pieces(handed', au8Buf', Ring', Register') = Pieces(handed, au8Buf, Ring, Register)
    BY <1>1, <1>3, <1>4, <1>5, RingToBuffer
  <1>9. AllAccounted'
    BY <1>1, <1>8 DEF InPoll, AllAccounted, IInv
  <1>10. Len(au8Buf') = Len(au8Buf) + 1 /\ Len(Ring') = Len(Ring) - 1
         /\ Len(au8Buf) \in Nat /\ Len(Ring) \in Nat /\ u8Length \in Nat
    BY <1>1, <1>3, <1>4, <1>5, <1>6, Sizes, FirstAndRest, AppendProperties, LenProperties DEF IInv, TypeOK
  <1>11. Reading'
    <2>1. /\ Len(au8Buf) <= u8Length
          /\ u8Length = Len(frame) + (IF torn THEN LengthMod - RxSize ELSE 0)
          /\ Begins(frame, au8Buf \o Ring)
          /\ ~ bRxMonitorTmo => u8Length = Len(au8Buf) + Len(Ring)
      BY <1>1 DEF IInv, Reading
    <2>2. ~ fifo_isEmpty(rx') /\ torn' = torn /\ bRxMonitorTmo' = bRxMonitorTmo /\ u8Length' = u8Length
          /\ frame' = frame
      BY <1>1
    <2>3. au8Buf' \o Ring' = au8Buf \o Ring
      BY <1>1, <1>3, <1>4, <1>5, BufferAndRing
    <2>4. /\ Len(au8Buf') <= u8Length'
          /\ u8Length' = Len(frame') + (IF torn' THEN LengthMod - RxSize ELSE 0)
          /\ Begins(frame', au8Buf' \o Ring')
          /\ ~ bRxMonitorTmo' => u8Length' = Len(au8Buf') + Len(Ring')
      <3>1. Len(au8Buf') <= u8Length'
        BY <1>1, <1>10, <2>2
      <3>2. ~ bRxMonitorTmo' => u8Length' = Len(au8Buf') + Len(Ring')
        BY <1>10, <2>1, <2>2
      <3>3. QED  BY <2>1, <2>2, <2>3, <3>1, <3>2
    <2>5. QED  BY <1>1, <2>2, <2>4 DEF Reading
  <1>12. Watched' /\ Timed'
    BY <1>1 DEF InPoll, Watched, Timed, IInv, SendSteps, LoadSteps, LockSteps
  <1>13. QED  BY <1>2, <1>7, <1>9, <1>11, <1>12 DEF IInv

LEMMA AdvancesHeadInvariant == IInv /\ AdvancesHead => IInv'
  <1> SUFFICES ASSUME IInv, AdvancesHead PROVE IInv'
    OBVIOUS
  <1>1. /\ pc = "advance" /\ pc' = "receive" /\ InPoll
        /\ rx' = Dropped(rx, RxSize)
        /\ UNCHANGED <<bRxMonitorTmo, poll, lost>>
    BY DEF AdvancesHead, Main
  <1>2. HandleLocked' /\ Transmission' /\ Listens' /\ Remembered' /\ InTurn' /\ Pushing'
    BY <1>1, PollKeepsSender DEF PollSteps
  <1>3. rx' \in Rings(RxSize)
    BY <1>1, ReceiverTypes
  <1>4. TypeOK'
    BY <1>1, <1>3 DEF InPoll, IInv, TypeOK, Steps, line, sender, poll
  <1>5. Ring' = Ring /\ Register' = Register
    BY <1>1 DEF InPoll, Ring, Register
  <1>6. AllAccounted'
    BY <1>1, <1>5 DEF InPoll, AllAccounted, IInv, poll
  <1>7. Reading'
    BY <1>1, <1>5 DEF IInv, Reading, poll
  <1>8. Watched' /\ Timed'
    BY <1>1 DEF InPoll, Watched, Timed, IInv, SendSteps, LoadSteps, LockSteps, poll
  <1>9. QED  BY <1>2, <1>4, <1>6, <1>7, <1>8 DEF IInv

LEMMA HandsOverInvariant == IInv /\ HandsOver => IInv'
  <1> SUFFICES ASSUME IInv, HandsOver PROVE IInv'
    OBVIOUS
  <1>1. /\ pc = "receive" /\ pc' = "idle" /\ InPoll
        /\ Len(au8Buf) = u8Length \/ fifo_isEmpty(rx)
        /\ evt' = {} /\ u8Length' = 0 /\ au8Buf' = <<>> /\ frame' = <<>> /\ torn' = FALSE
        /\ UNCHANGED <<rx, bRxMonitorTmo, ended>>
    BY DEF HandsOver, Main
  <1>2. HandleLocked' /\ Transmission' /\ Listens' /\ Remembered' /\ InTurn' /\ Pushing'
    BY <1>1, PollKeepsSender DEF PollSteps
  <1>3. /\ rx \in Rings(RxSize) /\ Ring = Held(rx, RxSize) /\ Ring \in Seq(Nat)
        /\ handed \in Seq(Nat) /\ au8Buf \in Seq(Nat) /\ Register \in Seq(Nat)
    BY <1>1, ReceiverTypes
  <1>4. \/ handed' = handed \o au8Buf /\ lost' = lost
        \/ lost' = lost \cup ToSet(au8Buf) /\ handed' = handed
    BY DEF HandsOver
  <1>5. TypeOK'
    <2>1. handed' \in Seq(1..MaxRx)
      <3>1. handed \in Seq(1..MaxRx) /\ au8Buf \in Seq(1..MaxRx)
        BY DEF IInv, TypeOK
      <3>2. handed \o au8Buf \in Seq(1..MaxRx)
        BY <3>1, ConcatProperties
      <3>3. QED  BY <1>4, <3>1, <3>2
    <2>2. lost' \subseteq 1..MaxRx
      BY <1>4, BytesArrived DEF IInv, TypeOK
    <2>3. au8Buf' \in Seq(1..MaxRx) /\ frame' \in Seq(1..MaxRx) /\ 0 \in 0..(LengthMod - 1)
      BY <1>1, Sizes
    <2>4. QED  BY <1>1, <2>1, <2>2, <2>3 DEF InPoll, IInv, TypeOK, Steps, line, sender
  <1>6. Ring' = Ring /\ Register' = Register /\ arrived' = arrived
    BY <1>1 DEF InPoll, Ring, Register
  <1>7. AllAccounted'
    <2>1. CASE handed' = handed \o au8Buf /\ lost' = lost
      <3>1. Pieces(handed', au8Buf', Ring', Register') = Pieces(handed, au8Buf, Ring, Register)
        BY <1>1, <1>3, <1>6, <2>1, BufferToDispatcher
      <3>2. QED  BY <1>6, <2>1, <3>1 DEF IInv, AllAccounted
    <2>2. CASE lost' = lost \cup ToSet(au8Buf) /\ handed' = handed
      <3>1. Accounted(Pieces(handed, au8Buf, Ring, Register), lost, arrived) /\ arrived \in Nat
        BY ReceiverTypes DEF IInv, AllAccounted
      <3>2. handed \in Seq(Nat) /\ au8Buf \in Seq(Nat) /\ Ring \in Seq(Nat) /\ Register \in Seq(Nat)
        BY <1>3
      <3>3. Accounted(Pieces(handed, <<>>, Ring, Register), lost \cup ToSet(au8Buf), arrived)
        BY <3>1, <3>2, BufferToDispatcher
      <3>4. QED  BY <1>1, <1>6, <2>2, <3>3, Zenon DEF AllAccounted
    <2>3. QED  BY <1>4, <2>1, <2>2
  <1>8. ~ bRxMonitorTmo => fifo_isEmpty(rx)
    <2>1. ~ bRxMonitorTmo => u8Length = Len(au8Buf) + Len(Ring)
      BY <1>1 DEF IInv, Reading
    <2>2. Len(au8Buf) \in Nat /\ Len(Ring) \in Nat
      BY <1>3, LenProperties
    <2>3. fifo_isEmpty(rx) <=> Len(Ring) = 0
      BY <1>3, Sizes, EmptyHolds
    <2>4. QED  BY <1>1, <2>1, <2>2, <2>3
  <1>9. Reading' /\ Watched' /\ Timed'
    <2>1. fifo_isEmpty(rx') <=> fifo_isEmpty(rx)
      BY <1>1
    <2>2. QED  BY <1>1, <1>8, <2>1 DEF InPoll, Reading, Watched, Timed, IInv
  <1>10. QED  BY <1>2, <1>5, <1>7, <1>9 DEF IInv
----------------------------------------------------------------------------
(* The main loop sends                                                    *)

LEMMA SendKeepsReceiver ==
    ASSUME IInv, InSend, huart'.RXNE = huart.RXNE, {pc, pc'} \subseteq SendSteps \cup {"idle"}
    PROVE  AllAccounted' /\ Reading' /\ Watched' /\ Timed'
  BY ReceiverKept DEF InSend

\* What is true whenever the main loop runs.
LEMMA MainRuns ==
    ASSUME IInv, NEW from, NEW to, Main(from, to)
    PROVE  /\ pc = from /\ pc' = to /\ isr = "none" /\ ~ huart.TXEIE /\ shifter = Nothing
           /\ pc \notin SendSteps => fifo_isEmpty(tx)
  <1>1. pc = from /\ pc' = to /\ isr = "none" /\ ~ huart.TXEIE
    BY DEF Main, Pending
  <1>2. shifter = Nothing
    BY <1>1 DEF IInv, Transmission
  <1>3. pc \notin SendSteps => fifo_isEmpty(tx)
    BY <1>1 DEF IInv, Pushing
  <1>4. QED  BY <1>1, <1>2, <1>3

LEMMA SendBytesInvariant == IInv /\ (\E n \in 1..(TxSize - 1) : uart_SendBytes(n)) => IInv'
  <1> SUFFICES ASSUME IInv, NEW n \in 1..(TxSize - 1), uart_SendBytes(n) PROVE IInv'
    OBVIOUS
  <1>1. /\ pc = "idle" /\ pc' = "push" /\ InSend /\ sent + n <= MaxTx
        /\ message' = [i \in 1..n |-> sent + i] /\ sent' = sent + n
        /\ bTxRestart' = fifo_isEmpty(tx)
        /\ UNCHANGED <<huart, gs_u8SendByte, tx, seen>>
        /\ Main("idle", "push")
    BY DEF uart_SendBytes, Main
  <1>2. isr = "none" /\ ~ huart.TXEIE /\ shifter = Nothing /\ fifo_isEmpty(tx)
    BY <1>1, MainRuns DEF SendSteps, LoadSteps, LockSteps
  <1>3. AllAccounted' /\ Reading' /\ Watched' /\ Timed'
    BY <1>1, SendKeepsReceiver DEF SendSteps
  <1>4. n \in Nat \ {0} /\ sent \in Nat /\ n < TxSize
    BY Sizes, SenderTypes
  <1>5. message' \in Seq(1..MaxTx) /\ Len(message') = n /\ message' # <<>>
    <2>1. \A i \in 1..n : sent + i \in 1..MaxTx
      BY <1>1, <1>4, Sizes
    <2>2. QED  BY <1>1, <1>4, <2>1
  <1>6. TypeOK'
    BY <1>1, <1>2, <1>4, <1>5, Sizes DEF InSend, IInv, TypeOK, Steps, line, receiver, poll
  <1>7. HandleLocked'
    BY <1>1 DEF InSend, IInv, HandleLocked, LockSteps
  <1>8. Transmission'
    BY <1>1, <1>2 DEF InSend, IInv, Transmission, line, SendSteps, LoadSteps, LockSteps
  <1>9. Listens' /\ Remembered'
    BY <1>1 DEF InSend, IInv, Listens, Remembered
  <1>10. Queue = <<>> /\ Queue' = <<>>
    BY <1>1, <1>2, Sizes, SenderTypes, EmptyHolds DEF Queue
  <1>11. InTurn'
    <2>1. ~ Loaded /\ ~ Loaded'
      BY <1>1, <1>2 DEF Loaded, LoadSteps, LockSteps
    <2>2. Loading = <<>> /\ Loading' = <<>> /\ Shifting = <<>> /\ Shifting' = <<>>
      BY <1>1, <1>2, <2>1 DEF Loading, Shifting, InSend, line
    <2>3. message = <<>>
      BY <1>1 DEF IInv, Pushing
    <2>4. OnTheWay(wire, <<>>, <<>>, <<>>, <<>>) = FirstBytes(sent)
      BY <1>10, <2>2, <2>3, Zenon DEF IInv, InTurn
    <2>5. wire \in Seq(Nat) /\ <<>> \in Seq(Nat)
      BY SenderTypes
    <2>6. wire = FirstBytes(sent)
      BY <2>4, <2>5, AtRest
    <2>7. message' \in Seq(Nat)
      BY <1>5, Sizes, BytesAreNat
    <2>8. OnTheWay(wire, <<>>, <<>>, <<>>, message') = wire \o message'
      BY <2>5, <2>7, AtRest
    <2>9. wire \o message' = FirstBytes(sent + n)
      BY <1>1, <1>4, <2>6, NextNumbers DEF FirstBytes
    <2>10. wire' = wire /\ sent' = sent + n
      BY <1>1 DEF InSend, line
    <2>11. QED  BY <1>10, <2>1, <2>2, <2>8, <2>9, <2>10, Zenon DEF InTurn
  <1>12. Pushing'
    <2>1. bTxRestart'
      BY <1>1, <1>2
    <2>2. Len(Queue') + Len(message') < TxSize
      BY <1>4, <1>5, <1>10
    <2>3. QED  BY <1>1, <1>5, <2>1, <2>2 DEF Pushing, SendSteps
  <1>13. QED  BY <1>3, <1>6, <1>7, <1>8, <1>9, <1>11, <1>12 DEF IInv

LEMMA PushesByteInvariant == IInv /\ PushesByte => IInv'
  <1> SUFFICES ASSUME IInv, PushesByte PROVE IInv'
    OBVIOUS
  <1>1. /\ pc = "push" /\ pc' = "push" /\ InSend /\ message # <<>>
        /\ tx' = fifo_BasePush(tx, TxSize, Head(message))
        /\ message' = Tail(message)
        /\ UNCHANGED <<huart, gs_u8SendByte, bTxRestart, seen, sent>>
        /\ Main("push", "push")
    BY DEF PushesByte, Main
  <1>2. isr = "none" /\ ~ huart.TXEIE /\ shifter = Nothing
    BY <1>1, MainRuns
  <1>3. AllAccounted' /\ Reading' /\ Watched' /\ Timed'
    BY <1>1, SendKeepsReceiver DEF SendSteps
  <1>4. /\ tx \in Rings(TxSize) /\ Queue \in Seq(Nat) /\ message \in Seq(Nat) /\ wire \in Seq(Nat)
        /\ Shifting \in Seq(Nat) /\ Loading \in Seq(Nat)
    BY SenderTypes
  <1>5. Head(message) \in Nat /\ Tail(message) \in Seq(Nat) /\ Len(Tail(message)) = Len(message) - 1
    BY <1>1, <1>4, FirstAndRest
  <1>6. /\ Len(Queue) \in Nat /\ Len(message) \in Nat \ {0}
        /\ Len(Queue) + Len(message) < TxSize /\ bTxRestart
    BY <1>1, <1>4, EmptySeq, LenProperties DEF IInv, Pushing
  <1>7. ~ fifo_isFull(tx, TxSize)
    <2>1. Len(Queue) # TxSize - 1
      BY <1>6, Sizes
    <2>2. QED  BY <1>4, <2>1, Sizes, EmptyHolds DEF Queue
  <1>8. tx' \in Rings(TxSize) /\ Queue' = Append(Queue, Head(message))
    BY <1>1, <1>4, <1>5, <1>7, Sizes, Pushed DEF Queue
  <1>9. TypeOK'
    <2>1. message' \in Seq(1..MaxTx)
      BY <1>1, HeadTailProperties DEF IInv, TypeOK
    <2>2. QED  BY <1>1, <1>8, <2>1 DEF InSend, IInv, TypeOK, Steps, line, receiver, poll
  <1>10. HandleLocked'
    BY <1>1 DEF InSend, IInv, HandleLocked, LockSteps
  <1>11. Transmission'
    BY <1>1, <1>2 DEF InSend, IInv, Transmission, line, SendSteps, LoadSteps, LockSteps
  <1>12. Listens' /\ Remembered'
    BY <1>1 DEF InSend, IInv, Listens, Remembered
  <1>13. InTurn'
    <2>1. (Loaded <=> Loaded') /\ Loading' = Loading /\ Shifting' = Shifting /\ wire' = wire /\ shifter' = shifter
      BY <1>1 DEF Loaded, Loading, Shifting, InSend, line
    <2>2. Queue' \o message' = Queue \o message
      BY <1>1, <1>4, <1>8, MessageToQueue
    <2>3. OnTheWay(wire', Shifting', Loading', Queue', message') =
          OnTheWay(wire, Shifting, Loading, Queue, message)
      BY <2>1, <2>2, Zenon DEF OnTheWay
    <2>4. QED  BY <1>1, <2>1, <2>3 DEF InTurn, IInv
  <1>14. Pushing'
    <2>1. Len(Queue') = Len(Queue) + 1 /\ Len(message') = Len(message) - 1
      BY <1>1, <1>4, <1>5, <1>8, AppendProperties
    <2>2. Len(Queue') + Len(message') < TxSize /\ Len(Queue') # 0
      BY <1>6, <2>1
    <2>3. ~ fifo_isEmpty(tx')
      <3>1. Queue' = Held(tx', TxSize)
        BY DEF Queue
      <3>2. QED  BY <1>8, <2>2, <3>1, Sizes, EmptyHolds
    <2>4. bTxRestart'
      BY <1>1, <1>6
    <2>5. QED  BY <1>1, <2>2, <2>3, <2>4 DEF Pushing, SendSteps
  <1>15. QED  BY <1>3, <1>9, <1>10, <1>11, <1>12, <1>13, <1>14 DEF IInv

LEMMA RestartsInvariant == IInv /\ Restarts => IInv'
  <1> SUFFICES ASSUME IInv, Restarts PROVE IInv'
    OBVIOUS
  <1>1. /\ pc = "push" /\ message = <<>> /\ InSend /\ UNCHANGED <<huart, sender>>
        /\ Main("push", IF bTxRestart THEN "lock" ELSE "idle")
    BY DEF Restarts, Main
  <1>2. bTxRestart /\ ~ fifo_isEmpty(tx)
    BY <1>1 DEF IInv, Pushing
  <1>3. /\ pc' = "lock"
        /\ gs_u8SendByte' = tx.buf[tx.head] /\ tx' = Dropped(tx, TxSize)
    BY <1>1, <1>2 DEF Restarts, Main
  <1>4. isr = "none" /\ ~ huart.TXEIE /\ shifter = Nothing
    BY <1>1, MainRuns
  <1>5. AllAccounted' /\ Reading' /\ Watched' /\ Timed'
    BY <1>1, <1>3, SendKeepsReceiver DEF SendSteps, LoadSteps
  <1>6. /\ tx \in Rings(TxSize) /\ Queue \in Seq(Nat) /\ message \in Seq(Nat) /\ wire \in Seq(Nat)
        /\ Shifting \in Seq(Nat) /\ Loading \in Seq(Nat) /\ sent \in Nat
    BY SenderTypes
  <1>7. Queue # <<>> /\ tx' \in Rings(TxSize) /\ gs_u8SendByte' = Head(Queue) /\ Queue' = Tail(Queue)
    BY <1>2, <1>3, <1>6, Sizes, DroppedByte DEF Queue
  <1>8. gs_u8SendByte' \in 1..sent
    <2>1. Head(Queue) \in ToSet(Queue)
      BY <1>6, <1>7, FirstAndRest
    <2>2. ToSet(Queue) \subseteq 1..sent
      BY BytesNumbered
    <2>3. QED  BY <1>7, <2>1, <2>2
  <1>9. TypeOK'
    <2>1. sent \in 0..MaxTx
      BY DEF IInv, TypeOK
    <2>2. gs_u8SendByte' \in 0..MaxTx
      BY <1>8, <2>1, Sizes
    <2>3. QED  BY <1>1, <1>3, <1>7, <2>2 DEF InSend, IInv, TypeOK, Steps, line, receiver, poll, sender
  <1>10. HandleLocked'
    BY <1>1, <1>3 DEF InSend, IInv, HandleLocked, LockSteps
  <1>11. Transmission'
    BY <1>1, <1>3, <1>4 DEF InSend, IInv, Transmission, line, SendSteps, LoadSteps, LockSteps
  <1>12. Listens' /\ Remembered'
    BY <1>1, <1>3 DEF InSend, IInv, Listens, Remembered
  <1>13. InTurn'
    <2>1. ~ Loaded /\ Loaded'
      BY <1>1, <1>3, <1>4 DEF Loaded, LoadSteps, LockSteps
    <2>2. Loading = <<>> /\ Loading' = <<Head(Queue)>>
      BY <1>7, <2>1 DEF Loading
    <2>3. Shifting' = Shifting /\ wire' = wire /\ shifter' = Nothing /\ message' = message /\ sent' = sent
      BY <1>1, <1>4 DEF Shifting, InSend, line, sender
    <2>4. Loading' \o (Queue' \o message') = Loading \o (Queue \o message)
      <3>1. <<Head(Queue)>> \o (Tail(Queue) \o message) = <<>> \o (Queue \o message)
        BY <1>6, <1>7, QueueToNext
      <3>2. QED  BY <1>7, <2>2, <2>3, <3>1, Zenon
    <2>5. OnTheWay(wire', Shifting', Loading', Queue', message') =
          OnTheWay(wire, Shifting, Loading, Queue, message)
      BY <2>3, <2>4, Zenon DEF OnTheWay
    <2>6. QED  BY <2>3, <2>5 DEF InTurn, IInv
  <1>14. Pushing'
    BY <1>1, <1>3 DEF Pushing, SendSteps, LoadSteps, sender
  <1>15. QED  BY <1>5, <1>9, <1>10, <1>11, <1>12, <1>13, <1>14 DEF IInv
\* A step of HAL_UART_Transmit_IT() leaves the byte to be sent loaded.
LEMMA TransmitKeeps ==
    ASSUME IInv, InTransmit, NEW from \in LoadSteps, NEW to \in LoadSteps \cup {"idle"},
           Main(from, to), huart' \in Handles, huart'.RXNE = huart.RXNE, seen' \in BOOLEAN, Loaded'
    PROVE  /\ TypeOK' /\ AllAccounted' /\ Reading' /\ Watched' /\ Timed'
           /\ InTurn' /\ Pushing'
           /\ isr' = "none" /\ shifter' = Nothing /\ refused' = refused
  <1>1. /\ pc = from /\ pc' = to /\ isr = "none" /\ ~ huart.TXEIE /\ shifter = Nothing
    BY MainRuns
  <1>2. /\ InSend /\ UNCHANGED <<gs_u8SendByte, tx, message, bTxRestart, sent>>
    BY DEF InTransmit
  <1>3. AllAccounted' /\ Reading' /\ Watched' /\ Timed'
    BY <1>1, <1>2, SendKeepsReceiver DEF SendSteps
  <1>4. pc' \in Steps /\ pc # "push" /\ pc' # "push"
    BY <1>1 DEF Steps, LoadSteps, LockSteps
  <1>5. TypeOK'
    BY <1>2, <1>4 DEF InSend, IInv, TypeOK, line, receiver, poll
  <1>6. Loaded /\ Loading' = Loading /\ Shifting' = Shifting /\ Queue' = Queue
        /\ wire' = wire /\ shifter' = Nothing
    BY <1>1, <1>2 DEF Loaded, Loading, Shifting, Queue, InSend, line
  <1>7. InTurn'
    BY <1>2, <1>6 DEF InTurn, IInv
  <1>8. message' = <<>>
    BY <1>2, <1>4 DEF IInv, Pushing
  <1>9. pc' \in SendSteps \/ huart'.TXEIE
    BY DEF Loaded, SendSteps
  <1>10. Pushing'
    BY <1>4, <1>8, <1>9 DEF Pushing
  <1>11. QED  BY <1>1, <1>2, <1>3, <1>5, <1>6, <1>7, <1>10 DEF InSend

LEMMA LocksInvariant == IInv /\ Locks => IInv'
  <1> SUFFICES ASSUME IInv, Locks PROVE IInv'
    OBVIOUS
  <1>1. pc = "lock" /\ InTransmit /\ seen' = seen
        /\ Main("lock", IF huart.State \in Transmitting THEN "idle" ELSE "state")
    BY DEF Locks, Main
  <1>2. ~ huart.TXEIE
    BY <1>1, MainRuns
  <1>3. huart.State \notin Transmitting
    BY <1>1, <1>2 DEF IInv, Transmission
  <1>4. /\ huart' = [huart EXCEPT !.Lock = TRUE] /\ Main("lock", "state") /\ pc' = "state"
        /\ huart \in Handles /\ seen \in BOOLEAN
    BY <1>1, <1>3 DEF Locks, Main, IInv, TypeOK
  <1>5. /\ huart' \in Handles /\ huart'.RXNE = huart.RXNE /\ huart'.Lock
        /\ huart'.State = huart.State /\ huart'.RXNEIE = huart.RXNEIE /\ huart'.TXEIE = huart.TXEIE
    BY <1>4 DEF Handles
  <1>6. /\ TypeOK' /\ AllAccounted' /\ Reading' /\ Watched' /\ Timed' /\ InTurn' /\ Pushing'
        /\ isr' = "none" /\ shifter' = Nothing /\ refused' = refused
    <2>1. Loaded' /\ "lock" \in LoadSteps /\ "state" \in LoadSteps
      BY <1>4 DEF Loaded, LoadSteps, LockSteps
    <2>2. QED  BY <1>1, <1>4, <1>5, <2>1, TransmitKeeps
  <1>7. HandleLocked'
    BY <1>2, <1>4, <1>5, <1>6 DEF HandleLocked, LockSteps
  <1>8. Transmission'
    BY <1>2, <1>3, <1>4, <1>5, <1>6 DEF Transmission
  <1>9. Listens' /\ Remembered'
    BY <1>4, <1>5, <1>6 DEF Listens, Remembered, IInv
  <1>10. QED  BY <1>6, <1>7, <1>8, <1>9 DEF IInv

LEMMA ReadsStateInvariant == IInv /\ ReadsState => IInv'
  <1> SUFFICES ASSUME IInv, ReadsState PROVE IInv'
    OBVIOUS
  <1>1. /\ pc = "state" /\ pc' = "assign" /\ Main("state", "assign") /\ InTransmit
        /\ seen' = (huart.State = "BUSY_RX")
        /\ huart' = [huart EXCEPT !.TxXferCount = 1] /\ huart \in Handles
    BY DEF ReadsState, Main, IInv, TypeOK
  <1>2. ~ huart.TXEIE
    BY <1>1, MainRuns
  <1>3. huart.State \notin Transmitting
    BY <1>1, <1>2 DEF IInv, Transmission
  <1>4. /\ huart' \in Handles /\ huart'.RXNE = huart.RXNE /\ huart'.Lock = huart.Lock
        /\ huart'.TxXferCount = 1
        /\ huart'.State = huart.State /\ huart'.RXNEIE = huart.RXNEIE /\ huart'.TXEIE = huart.TXEIE
    BY <1>1 DEF Handles
  <1>5. /\ TypeOK' /\ AllAccounted' /\ Reading' /\ Watched' /\ Timed' /\ InTurn' /\ Pushing'
        /\ isr' = "none" /\ shifter' = Nothing /\ refused' = refused
    <2>1. Loaded' /\ "assign" \in LoadSteps /\ "state" \in LoadSteps
      BY <1>1 DEF Loaded, LoadSteps, LockSteps
    <2>2. seen' \in BOOLEAN
      BY <1>1
    <2>3. QED  BY <1>1, <1>4, <2>1, <2>2, TransmitKeeps
  <1>6. HandleLocked'
    BY <1>1, <1>4, <1>5 DEF HandleLocked, LockSteps, IInv
  <1>7. Transmission'
    BY <1>2, <1>3, <1>1, <1>4, <1>5 DEF Transmission
  <1>8. ~ refused => huart.State = "BUSY_RX"
    BY <1>3 DEF IInv, Listens, Receiving, Transmitting
  <1>9. Listens'
    BY <1>1, <1>4, <1>5 DEF Listens, IInv
  <1>10. Remembered'
    BY <1>1, <1>5, <1>8 DEF Remembered
  <1>11. QED  BY <1>5, <1>6, <1>7, <1>9, <1>10 DEF IInv

LEMMA AssignsStateInvariant == IInv /\ AssignsState => IInv'
  <1> SUFFICES ASSUME IInv, AssignsState PROVE IInv'
    OBVIOUS
  <1> DEFINE state == IF seen THEN "BUSY_TX_RX" ELSE "BUSY_TX"
  <1>1. /\ pc = "assign" /\ pc' = "read_cr1" /\ Main("assign", "read_cr1") /\ InTransmit
        /\ seen' = seen /\ seen \in BOOLEAN
        /\ huart' = [huart EXCEPT !.State = state] /\ huart \in Handles
    BY DEF AssignsState, Main, IInv, TypeOK
  <1>2. ~ huart.TXEIE /\ (~ refused => seen) /\ huart.TxXferCount = 1
    BY <1>1, MainRuns DEF IInv, Remembered, Transmission
  <1>3. /\ huart' \in Handles /\ huart'.RXNE = huart.RXNE /\ huart'.Lock = huart.Lock
        /\ huart'.TxXferCount = huart.TxXferCount
        /\ huart'.State = state /\ huart'.RXNEIE = huart.RXNEIE /\ huart'.TXEIE = huart.TXEIE
    BY <1>1 DEF Handles, States
  <1>4. /\ TypeOK' /\ AllAccounted' /\ Reading' /\ Watched' /\ Timed' /\ InTurn' /\ Pushing'
        /\ isr' = "none" /\ shifter' = Nothing /\ refused' = refused
    <2>1. Loaded' /\ "assign" \in LoadSteps /\ "read_cr1" \in LoadSteps
      BY <1>1 DEF Loaded, LoadSteps, LockSteps
    <2>2. QED  BY <1>1, <1>3, <2>1, TransmitKeeps
  <1>5. HandleLocked'
    BY <1>1, <1>3, <1>4 DEF HandleLocked, LockSteps, IInv
  <1>6. Transmission'
    BY <1>1, <1>2, <1>3, <1>4 DEF Transmission
  <1>7. Listens' /\ Remembered'
    BY <1>1, <1>2, <1>3, <1>4 DEF Listens, Remembered, IInv, Receiving
  <1>8. QED  BY <1>4, <1>5, <1>6, <1>7 DEF IInv

LEMMA ReadsCR1Invariant == IInv /\ ReadsCR1 => IInv'
  <1> SUFFICES ASSUME IInv, ReadsCR1 PROVE IInv'
    OBVIOUS
  <1>1. /\ pc = "read_cr1" /\ pc' = "write_cr1" /\ Main("read_cr1", "write_cr1") /\ InTransmit
        /\ seen' = huart.RXNEIE /\ huart' = huart /\ huart \in Handles
    BY DEF ReadsCR1, Main, IInv, TypeOK
  <1>2. ~ huart.TXEIE
    BY <1>1, MainRuns
  <1>3. /\ TypeOK' /\ AllAccounted' /\ Reading' /\ Watched' /\ Timed' /\ InTurn' /\ Pushing'
        /\ isr' = "none" /\ shifter' = Nothing /\ refused' = refused
    <2>1. Loaded' /\ "write_cr1" \in LoadSteps /\ "read_cr1" \in LoadSteps
      BY <1>1 DEF Loaded, LoadSteps, LockSteps
    <2>2. seen' \in BOOLEAN
      BY <1>1 DEF Handles
    <2>3. QED  BY <1>1, <2>1, <2>2, TransmitKeeps
  <1>4. HandleLocked'
    BY <1>1, <1>3 DEF HandleLocked, LockSteps, IInv
  <1>5. Transmission'
    BY <1>1, <1>2, <1>3 DEF Transmission, IInv
  <1>6. Listens' /\ Remembered'
    BY <1>1, <1>3 DEF Listens, Remembered, IInv
  <1>7. QED  BY <1>3, <1>4, <1>5, <1>6 DEF IInv

LEMMA WritesCR1Invariant == IInv /\ WritesCR1 => IInv'
  <1> SUFFICES ASSUME IInv, WritesCR1 PROVE IInv'
    OBVIOUS
  <1>1. /\ pc = "write_cr1" /\ pc' = "unlock" /\ Main("write_cr1", "unlock") /\ InTransmit
        /\ seen' = seen /\ seen \in BOOLEAN
        /\ huart' = [huart EXCEPT !.RXNEIE = seen] /\ huart \in Handles
    BY DEF WritesCR1, Main, IInv, TypeOK
  <1>2. ~ huart.TXEIE /\ (~ refused => seen)
    BY <1>1, MainRuns DEF IInv, Remembered
  <1>3. /\ huart' \in Handles /\ huart'.RXNE = huart.RXNE /\ huart'.Lock = huart.Lock
        /\ huart'.TxXferCount = huart.TxXferCount
        /\ huart'.State = huart.State /\ huart'.RXNEIE = seen /\ huart'.TXEIE = huart.TXEIE
    BY <1>1 DEF Handles
  <1>4. /\ TypeOK' /\ AllAccounted' /\ Reading' /\ Watched' /\ Timed' /\ InTurn' /\ Pushing'
        /\ isr' = "none" /\ shifter' = Nothing /\ refused' = refused
    <2>1. Loaded' /\ "write_cr1" \in LoadSteps /\ "unlock" \in LoadSteps
      BY <1>1 DEF Loaded, LoadSteps, LockSteps
    <2>2. QED  BY <1>1, <1>3, <2>1, TransmitKeeps
  <1>5. HandleLocked'
    BY <1>1, <1>3, <1>4 DEF HandleLocked, LockSteps, IInv
  <1>6. Transmission'
    BY <1>1, <1>2, <1>3, <1>4 DEF Transmission, IInv
  <1>7. Listens' /\ Remembered'
    BY <1>1, <1>2, <1>3, <1>4 DEF Listens, Remembered, IInv
  <1>8. QED  BY <1>4, <1>5, <1>6, <1>7 DEF IInv

LEMMA UnlocksInvariant == IInv /\ Unlocks => IInv'
  <1> SUFFICES ASSUME IInv, Unlocks PROVE IInv'
    OBVIOUS
  <1>1. /\ pc = "unlock" /\ pc' = "txe" /\ Main("unlock", "txe") /\ InTransmit
        /\ seen' = seen /\ seen \in BOOLEAN
        /\ huart' = [huart EXCEPT !.EIE = TRUE, !.Lock = FALSE] /\ huart \in Handles
    BY DEF Unlocks, Main, IInv, TypeOK
  <1>2. ~ huart.TXEIE
    BY <1>1, MainRuns
  <1>3. /\ huart' \in Handles /\ huart'.RXNE = huart.RXNE /\ ~ huart'.Lock
        /\ huart'.TxXferCount = huart.TxXferCount
        /\ huart'.State = huart.State /\ huart'.RXNEIE = huart.RXNEIE /\ huart'.TXEIE = huart.TXEIE
    BY <1>1 DEF Handles
  <1>4. /\ TypeOK' /\ AllAccounted' /\ Reading' /\ Watched' /\ Timed' /\ InTurn' /\ Pushing'
        /\ isr' = "none" /\ shifter' = Nothing /\ refused' = refused
    <2>1. Loaded' /\ "txe" \in LoadSteps /\ "unlock" \in LoadSteps
      BY <1>1 DEF Loaded, LoadSteps, LockSteps
    <2>2. QED  BY <1>1, <1>3, <2>1, TransmitKeeps
  <1>5. HandleLocked'
    BY <1>1, <1>3 DEF HandleLocked, LockSteps
  <1>6. Transmission'
    BY <1>1, <1>2, <1>3, <1>4 DEF Transmission, IInv
  <1>7. Listens' /\ Remembered'
    BY <1>1, <1>3, <1>4 DEF Listens, Remembered, IInv
  <1>8. QED  BY <1>4, <1>5, <1>6, <1>7 DEF IInv

LEMMA EnablesTXEInvariant == IInv /\ EnablesTXE => IInv'
  <1> SUFFICES ASSUME IInv, EnablesTXE PROVE IInv'
    OBVIOUS
  <1>1. /\ pc = "txe" /\ pc' = "idle" /\ Main("txe", "idle") /\ InTransmit
        /\ seen' = FALSE
        /\ huart' = [huart EXCEPT !.TXEIE = TRUE] /\ huart \in Handles
    BY DEF EnablesTXE, Main, IInv, TypeOK
  <1>2. huart.TxXferCount = 1
    BY <1>1 DEF IInv, Transmission
  <1>3. /\ huart' \in Handles /\ huart'.RXNE = huart.RXNE /\ huart'.Lock = huart.Lock
        /\ huart'.TxXferCount = 1
        /\ huart'.State = huart.State /\ huart'.RXNEIE = huart.RXNEIE /\ huart'.TXEIE
    BY <1>1, <1>2 DEF Handles
  <1>4. /\ TypeOK' /\ AllAccounted' /\ Reading' /\ Watched' /\ Timed' /\ InTurn' /\ Pushing'
        /\ isr' = "none" /\ shifter' = Nothing /\ refused' = refused
    <2>1. Loaded' /\ "txe" \in LoadSteps
      BY <1>1, <1>3 DEF Loaded, LoadSteps, LockSteps
    <2>2. QED  BY <1>1, <1>3, <2>1, TransmitKeeps
  <1>5. HandleLocked'
    BY <1>1, <1>3, <1>4 DEF HandleLocked, LockSteps, IInv
  <1>6. Transmission'
    BY <1>1, <1>3, <1>4 DEF Transmission, SendSteps, LoadSteps, LockSteps
  <1>7. Listens' /\ Remembered'
    BY <1>1, <1>3, <1>4 DEF Listens, Remembered, IInv
  <1>8. QED  BY <1>4, <1>5, <1>6, <1>7 DEF IInv
----------------------------------------------------------------------------
(* The line, and time                                                     *)

LEMMA ByteArrivesInvariant ==
    ASSUME IInv, NEW disturbed \in BOOLEAN, ByteArrives(disturbed)
    PROVE  IInv'
  <1>1. /\ arrived < MaxRx /\ arrived' = arrived + 1 /\ (isr = "waits" \/ ~ Pending)
        /\ UNCHANGED <<gs_u8SendByte, line, isr, rx, tx, receiver, pc, poll, sender, now, cut, refused>>
    BY DEF ByteArrives
  <1>2. \/ /\ huart.RXNE /\ huart' = [huart EXCEPT !.ORE = TRUE, !.FE = @ \/ disturbed]
           /\ lost' = lost \cup {arrived + 1} /\ rdr' = rdr
        \/ /\ ~ huart.RXNE /\ huart' = [huart EXCEPT !.RXNE = TRUE, !.FE = @ \/ disturbed]
           /\ rdr' = arrived + 1 /\ lost' = lost
    BY <1>1 DEF ByteArrives
  <1>3. /\ huart' \in Handles /\ huart'.State = huart.State /\ huart'.Lock = huart.Lock
        /\ huart'.TxXferCount = huart.TxXferCount /\ huart'.RXNEIE = huart.RXNEIE
        /\ huart'.TXEIE = huart.TXEIE /\ huart'.EIE = huart.EIE /\ huart'.RXNE
    <2> DEFINE failed == huart.FE \/ disturbed
    <2>1. huart \in Handles /\ failed \in BOOLEAN
      BY DEF IInv, TypeOK, Handles
    <2>2. \/ huart.RXNE /\ huart' = [huart EXCEPT !.ORE = TRUE, !.FE = failed]
          \/ huart' = [huart EXCEPT !.RXNE = TRUE, !.FE = failed]
      BY <1>2
    <2> HIDE DEF failed
    <2>3. QED  BY ONLY <2>1, <2>2 DEF Handles
  <1>4. /\ handed \in Seq(Nat) /\ au8Buf \in Seq(Nat) /\ Ring \in Seq(Nat) /\ Register \in Seq(Nat)
        /\ arrived \in Nat
    BY ReceiverTypes
  <1>5. arrived + 1 \in 1..MaxRx
    BY <1>1, <1>4, Sizes
  <1>6. TypeOK'
    <2>1. rdr' \in 0..MaxRx /\ lost' \subseteq 1..MaxRx
      BY <1>2, <1>5 DEF IInv, TypeOK
    <2>2. arrived' \in 0..MaxRx
      BY <1>1, <1>5
    <2>3. QED  BY <1>1, <1>3, <2>1, <2>2 DEF IInv, TypeOK, line, receiver, poll, sender
  <1>7. Ring' = Ring
    BY <1>1 DEF Ring
  <1> DEFINE bytes == Pieces(handed, au8Buf, Ring, Register)
  <1>8. AllAccounted'
    <2>1. Accounted(bytes, lost, arrived)
      BY DEF IInv, AllAccounted
    <2>2. bytes \in Seq(Nat)
      <3>1. au8Buf \o Ring \in Seq(Nat)  BY <1>4, BytesTogether
      <3>2. (au8Buf \o Ring) \o Register \in Seq(Nat)  BY <1>4, <3>1, BytesTogether
      <3>3. QED  BY <1>4, <3>2, BytesTogether DEF Pieces
    <2> HIDE DEF bytes
    <2>3. Accounted(Append(bytes, arrived + 1), lost, arrived + 1)
          /\ Accounted(bytes, lost \cup {arrived + 1}, arrived + 1)
      BY <1>4, <2>1, <2>2, ArrivalAccounted
    <2>4. handed' = handed /\ au8Buf' = au8Buf /\ arrived' = arrived + 1
      BY <1>1 DEF poll
    <2>5. CASE huart.RXNE
      <3>1. lost' = lost \cup {arrived + 1} /\ Register' = Register
        BY <1>2, <1>3, <2>5 DEF Register
      <3>2. QED  BY <1>7, <2>3, <2>4, <3>1, Zenon DEF AllAccounted, bytes
    <2>6. CASE ~ huart.RXNE
      <3>1. lost' = lost /\ Register = <<>> /\ Register' = <<arrived + 1>>
        BY <1>2, <1>3, <2>6 DEF Register
      <3>2. Pieces(handed, au8Buf, Ring, <<arrived + 1>>) = Append(Pieces(handed, au8Buf, Ring, <<>>), arrived + 1)
        <4>1. arrived + 1 \in Nat  BY <1>4
        <4>2. QED  BY <1>4, <4>1, LineToRegister
      <3>3. QED  BY <1>7, <2>3, <2>4, <3>1, <3>2, Zenon DEF AllAccounted, bytes
    <2>7. QED  BY <2>5, <2>6
  <1>9. Reading' /\ Watched' /\ Timed'
    BY <1>1, <1>7 DEF IInv, Reading, Watched, Timed, receiver, poll
  <1>10. HandleLocked'
    BY <1>1, <1>3 DEF IInv, HandleLocked
  <1>11. Transmission'
    BY <1>1, <1>3 DEF IInv, Transmission, line
  <1>12. Listens' /\ Remembered'
    BY <1>1, <1>3 DEF IInv, Listens, Remembered, sender
  <1>13. (Loaded <=> Loaded') /\ Shifting' = Shifting /\ Loading' = Loading /\ Queue' = Queue
    BY <1>1, <1>3 DEF Loaded, Shifting, Loading, Queue, line
  <1>14. InTurn'
    BY <1>1, <1>13 DEF InTurn, IInv, line, sender
  <1>15. Pushing'
    BY <1>1, <1>3, <1>13 DEF Pushing, IInv, sender
  <1>16. QED  BY <1>6, <1>8, <1>9, <1>10, <1>11, <1>12, <1>14, <1>15 DEF IInv

LEMMA ByteLeavesInvariant == IInv /\ ByteLeaves => IInv'
  <1> SUFFICES ASSUME IInv, ByteLeaves PROVE IInv'
    OBVIOUS
  <1>1. /\ shifter # Nothing /\ wire' = Append(wire, shifter) /\ shifter' = Nothing
        /\ UNCHANGED <<huart, rdr, gs_u8SendByte, isr, rx, tx, receiver, pc, poll, sender, now,
                       arrived, lost, cut, refused>>
    BY DEF ByteLeaves
  <1>2. AllAccounted' /\ Reading' /\ Watched' /\ Timed'
    BY <1>1, ReceiverKept
  <1>3. TypeOK'
    <2>1. wire \in Seq(0..MaxTx) /\ shifter \in 0..MaxTx
      BY DEF IInv, TypeOK
    <2>2. wire' \in Seq(0..MaxTx) /\ shifter' \in 0..MaxTx
      BY <1>1, <2>1, Sizes, AppendProperties DEF Nothing
    <2>3. QED  BY <1>1, <2>2 DEF IInv, TypeOK, receiver, poll, sender
  <1>4. HandleLocked' /\ Listens' /\ Remembered'
    BY <1>1 DEF IInv, HandleLocked, Listens, Remembered, sender
  <1>5. Transmission'
    BY <1>1 DEF IInv, Transmission
  <1>6. (Loaded <=> Loaded') /\ Loading' = Loading /\ Queue' = Queue /\ ~ Loaded
        /\ Shifting = <<shifter>> /\ Shifting' = <<>>
    BY <1>1 DEF Loaded, Shifting, Loading, Queue, IInv, InTurn
  <1>7. InTurn'
    <2> DEFINE t == Loading \o (Queue \o message)
    <2>1. wire \in Seq(Nat) /\ shifter \in Nat /\ t \in Seq(Nat)
      <3>1. /\ wire \in Seq(Nat) /\ shifter \in Nat /\ Loading \in Seq(Nat) /\ Queue \in Seq(Nat)
            /\ message \in Seq(Nat)
        BY SenderTypes
      <3>2. Queue \o message \in Seq(Nat)  BY <3>1, BytesTogether
      <3>3. QED  BY <3>1, <3>2, BytesTogether
    <2> HIDE DEF t
    <2>2. Append(wire, shifter) \o (<<>> \o t) = wire \o (<<shifter>> \o t)
      BY <2>1, ShifterToLine
    <2>3. message' = message /\ sent' = sent
      BY <1>1 DEF sender
    <2>4. OnTheWay(wire', Shifting', Loading', Queue', message') =
          OnTheWay(wire, Shifting, Loading, Queue, message)
      BY <1>1, <1>6, <2>2, <2>3, Zenon DEF OnTheWay, t
    <2>5. QED  BY <1>1, <1>6, <2>3, <2>4 DEF InTurn, IInv
  <1>8. Pushing'
    BY <1>1, <1>6 DEF Pushing, IInv, sender
  <1>9. QED  BY <1>2, <1>3, <1>4, <1>5, <1>7, <1>8 DEF IInv

\* The tick wraps, and the time out with it.
LEMMA TickWraps ==
    ASSUME NEW n \in 0..(TickMod - 1), NEW m, m = (n + 1) % TickMod
    PROVE  m \in 0..(TickMod - 1) /\ m = IF n = TickMod - 1 THEN 0 ELSE n + 1
  BY Sizes, Following

LEMMA TickInvariant == IInv /\ Tick => IInv'
  <1> SUFFICES ASSUME IInv, Tick PROVE IInv'
    OBVIOUS
  <1>1. /\ now' = (now + 1) % TickMod
        /\ silence' = IF silence < TickMod THEN silence + 1 ELSE silence
        /\ UNCHANGED <<huart, rdr, gs_u8SendByte, line, isr, rx, tx, bRxMonitorTmo, u8RxTimeout, pc, poll,
                       sender, arrived, lost, cut, refused>>
    BY DEF Tick
  <1>2. HandleLocked' /\ Transmission' /\ Listens' /\ Remembered' /\ InTurn' /\ Pushing'
    BY <1>1, SenderKept
  <1>3. /\ now \in 0..(TickMod - 1) /\ silence \in 0..TickMod /\ u8RxTimeout \in 0..(TickMod - 1)
        /\ TickMod \in Nat /\ u8RxInterval \in 1..(TickMod - 1)
    BY Sizes DEF IInv, TypeOK
  <1>4. now' \in 0..(TickMod - 1) /\ now' = IF now = TickMod - 1 THEN 0 ELSE now + 1
    BY <1>1, <1>3, TickWraps
  <1>5. silence' \in 0..TickMod
    BY <1>1, <1>3
  <1>6. TypeOK'
    BY <1>1, <1>4, <1>5 DEF IInv, TypeOK, line, poll, sender
  <1>7. Ring' = Ring /\ Register' = Register
    BY <1>1 DEF Ring, Register
  <1>8. AllAccounted' /\ Reading' /\ Watched'
    BY <1>1, <1>7 DEF IInv, AllAccounted, Reading, Watched, poll
  <1>9. Timed'
    <2>1. SUFFICES ASSUME bRxMonitorTmo \/ pc = "timeout", silence' < TickMod
                   PROVE  u8RxTimeout + silence' - now' - u8RxInterval \in {- TickMod, 0, TickMod}
      BY <1>1 DEF Timed
    <2>2. silence < TickMod /\ silence' = silence + 1
      BY <1>1, <1>3, <2>1
    <2>3. u8RxTimeout + silence - now - u8RxInterval \in {- TickMod, 0, TickMod}
      BY <2>1, <2>2 DEF IInv, Timed
    <2>4. QED  BY <1>3, <1>4, <2>1, <2>2, <2>3
  <1>10. QED  BY <1>2, <1>6, <1>8, <1>9 DEF IInv

----------------------------------------------------------------------------
(* The interrupt                                                          *)

\* What the HAL's functions do to the handle.
LEMMA TransmissionStarts ==
    ASSUME NEW u \in Handles, u.State \notin Transmitting, ~ u.Lock,
           NEW v, v = HAL_UART_Transmit_IT(u)
    PROVE  /\ v \in Handles
           /\ v.RXNE = u.RXNE /\ v.Lock = u.Lock /\ v.RXNEIE = u.RXNEIE
           /\ v.TxXferCount = 1 /\ v.TXEIE = TRUE
           /\ u.State = "BUSY_RX" => v.State = "BUSY_TX_RX"
  <1> DEFINE state == IF u.State = "BUSY_RX" THEN "BUSY_TX_RX" ELSE "BUSY_TX"
             w == [u EXCEPT !.State = state, !.TxXferCount = 1]
  <1>1. v = [w EXCEPT !.EIE = TRUE, !.TXEIE = TRUE]
    BY DEF HAL_UART_Transmit_IT
  <1>2. state \in States /\ 1 \in 0..1
    BY DEF States
  <1>3. u.State = "BUSY_RX" => state = "BUSY_TX_RX"
    OBVIOUS
  <1> HIDE DEF state
  <1>4. w \in Handles
    BY <1>2, Zenon DEF Handles
  <1>5. w.RXNE = u.RXNE /\ w.Lock = u.Lock /\ w.RXNEIE = u.RXNEIE
        /\ w.TxXferCount = 1 /\ w.State = state
    BY DEF Handles
  <1> HIDE DEF w
  <1>6. v \in Handles
    BY ONLY <1>1, <1>4 DEF Handles
  <1>7. v.RXNE = w.RXNE /\ v.Lock = w.Lock /\ v.RXNEIE = w.RXNEIE
        /\ v.TxXferCount = w.TxXferCount /\ v.State = w.State
    BY ONLY <1>1, <1>4 DEF Handles
  <1>8. v.TXEIE = TRUE
    BY ONLY <1>1, <1>4 DEF Handles
  <1>9. QED  BY <1>3, <1>5, <1>6, <1>7, <1>8

LEMMA ReceptionStarts ==
    ASSUME NEW u \in Handles, NEW v, v = HAL_UART_Receive_IT(u)
    PROVE  /\ v \in Handles
           /\ v.RXNE = u.RXNE /\ v.Lock = u.Lock
           /\ v.TxXferCount = u.TxXferCount /\ v.TXEIE = u.TXEIE
           /\ v.State \in Transmitting <=> u.State \in Transmitting
           /\ u.State \notin Receiving /\ ~ u.Lock => v.RXNEIE /\ v.State \in Receiving
  <1>1. CASE u.State \in Receiving \/ u.Lock
    BY <1>1 DEF HAL_UART_Receive_IT
  <1>2. CASE u.State \notin Receiving /\ ~ u.Lock
    <2> DEFINE state == IF u.State = "BUSY_TX" THEN "BUSY_TX_RX" ELSE "BUSY_RX"
    <2>1. v = [u EXCEPT !.State = state, !.EIE = TRUE, !.RXNEIE = TRUE]
      BY <1>2 DEF HAL_UART_Receive_IT
    <2>2. state \in States /\ state \in Receiving /\ (state \in Transmitting <=> u.State \in Transmitting)
      BY <1>2 DEF States, Receiving, Transmitting
    <2> HIDE DEF state
    <2>3. v \in Handles
      BY <2>1, <2>2 DEF Handles
    <2>4. v.RXNE = u.RXNE /\ v.Lock = u.Lock
          /\ v.TxXferCount = u.TxXferCount /\ v.TXEIE = u.TXEIE
      BY <2>1 DEF Handles
    <2>5. v.RXNEIE /\ v.State = state
      BY <2>1 DEF Handles
    <2>6. QED  BY <2>2, <2>3, <2>4, <2>5
  <1>3. QED  BY <1>1, <1>2

LEMMA ErrorEnds ==
    ASSUME NEW u \in Handles, NEW v, v = ErrorHandled(u)
    PROVE  /\ v \in Handles
           /\ v.RXNE = u.RXNE /\ v.Lock = u.Lock
           /\ v.TxXferCount = u.TxXferCount /\ v.TXEIE = u.TXEIE
           /\ v.State \in Transmitting => u.State \in Transmitting
           /\ u.RXNEIE /\ u.State \in Receiving /\ ~ (Fails(u) /\ u.Lock) => v.RXNEIE /\ v.State \in Receiving
  <1>1. CASE ~ Fails(u)
    BY <1>1 DEF ErrorHandled
  <1>2. CASE Fails(u)
    <2> DEFINE w == [u EXCEPT !.ORE = FALSE, !.FE = FALSE, !.State = "READY"]
    <2>1. w \in Handles /\ w.RXNE = u.RXNE /\ w.Lock = u.Lock
          /\ w.TxXferCount = u.TxXferCount /\ w.TXEIE = u.TXEIE /\ w.State = "READY"
      BY DEF Handles, States
    <2>2. v = HAL_UART_Receive_IT(w)
      BY <1>2 DEF ErrorHandled
    <2> HIDE DEF w
    <2>3. w.State \notin Transmitting /\ w.State \notin Receiving
      BY <2>1 DEF Transmitting, Receiving
    <2>4. /\ v \in Handles
          /\ v.RXNE = w.RXNE /\ v.Lock = w.Lock
          /\ v.TxXferCount = w.TxXferCount /\ v.TXEIE = w.TXEIE
          /\ v.State \in Transmitting <=> w.State \in Transmitting
          /\ w.State \notin Receiving /\ ~ w.Lock => v.RXNEIE /\ v.State \in Receiving
      BY <2>1, <2>2, ReceptionStarts
    <2>5. QED  BY <1>2, <2>1, <2>3, <2>4
  <1>3. QED  BY <1>1, <1>2

LEMMA ByteTaken ==
    ASSUME NEW u \in Handles, NEW v, v = Received(u)
    PROVE  /\ v \in Handles
           /\ v.Lock = u.Lock
           /\ v.RXNE = IF Takes(u) THEN FALSE ELSE u.RXNE
           /\ v.TxXferCount = u.TxXferCount /\ v.TXEIE = u.TXEIE
           /\ v.State \in Transmitting <=> u.State \in Transmitting
           /\ u.RXNEIE /\ u.State \in Receiving /\ ~ (Takes(u) /\ u.Lock) => v.RXNEIE /\ v.State \in Receiving
  <1>1. CASE ~ Takes(u)
    BY <1>1 DEF Received
  <1>2. CASE Takes(u)
    <2> DEFINE both == [u EXCEPT !.RXNE = FALSE, !.RXNEIE = FALSE, !.State = "BUSY_TX"]
               only == [u EXCEPT !.RXNE = FALSE, !.RXNEIE = FALSE, !.State = "READY", !.EIE = FALSE]
               w == IF u.State = "BUSY_TX_RX" THEN both ELSE only
    <2>1. both \in Handles /\ ~ both.RXNE /\ both.Lock = u.Lock
          /\ both.TxXferCount = u.TxXferCount /\ both.TXEIE = u.TXEIE /\ both.State = "BUSY_TX"
      BY DEF Handles, States
    <2>2. only \in Handles /\ ~ only.RXNE /\ only.Lock = u.Lock
          /\ only.TxXferCount = u.TxXferCount /\ only.TXEIE = u.TXEIE /\ only.State = "READY"
      BY DEF Handles, States
    <2>3. v = HAL_UART_Receive_IT(w)
      BY <1>2 DEF Received
    <2> HIDE DEF both, only
    <2>4. w \in Handles /\ ~ w.RXNE /\ w.Lock = u.Lock
          /\ w.TxXferCount = u.TxXferCount /\ w.TXEIE = u.TXEIE
      BY <2>1, <2>2
    <2>5. w.State \notin Receiving /\ (w.State \in Transmitting <=> u.State \in Transmitting)
      BY <1>2, <2>1, <2>2 DEF Takes, Receiving, Transmitting
    <2> HIDE DEF w
    <2>a. /\ v \in Handles
          /\ v.RXNE = w.RXNE /\ v.Lock = w.Lock
          /\ v.TxXferCount = w.TxXferCount /\ v.TXEIE = w.TXEIE
          /\ v.State \in Transmitting <=> w.State \in Transmitting
          /\ w.State \notin Receiving /\ ~ w.Lock => v.RXNEIE /\ v.State \in Receiving
      BY <2>3, <2>4, ReceptionStarts
    <2>b. v.RXNE = FALSE
      BY <2>4, <2>a DEF Handles
    <2>6. QED  BY <1>2, <2>4, <2>5, <2>a, <2>b
  <1>3. QED  BY <1>1, <1>2

LEMMA ByteSent ==
    ASSUME NEW u \in Handles, NEW v, v = Transmitted(u)
    PROVE  /\ v \in Handles
           /\ v.Lock = u.Lock /\ v.RXNE = u.RXNE /\ v.RXNEIE = u.RXNEIE
           /\ u.State \in Receiving => v.State \in Receiving
           /\ Sends(u) => v.TxXferCount = 0 /\ v.TXEIE /\ v.State = u.State
           /\ Ends(u) => v.TxXferCount = 0 /\ ~ v.TXEIE /\ v.State \notin Transmitting
           /\ ~ Sends(u) /\ ~ Ends(u) => v = u
  <1>1. CASE Sends(u)
    <2>2. ~ Ends(u) /\ u.TXEIE
      BY <1>1 DEF Sends, Ends
    <2>1. v = [u EXCEPT !.TxXferCount = 0]
      BY <1>1, <2>2 DEF Transmitted
    <2>3. v \in Handles /\ v.Lock = u.Lock /\ v.RXNE = u.RXNE /\ v.RXNEIE = u.RXNEIE
      BY <2>1 DEF Handles
    <2>4. v.State = u.State /\ v.TxXferCount = 0
      BY <2>1 DEF Handles
    <2>a. v.TXEIE = u.TXEIE
      BY <2>1 DEF Handles
    <2>5. QED  BY <1>1, <2>2, <2>3, <2>4, <2>a
  <1>2. CASE Ends(u)
    <2> DEFINE both == [u EXCEPT !.TXEIE = FALSE, !.State = "BUSY_RX"]
               only == [u EXCEPT !.TXEIE = FALSE, !.State = "READY", !.EIE = FALSE]
    <2>1. ~ Sends(u) /\ u.State \in Transmitting /\ u.TxXferCount = 0
      BY <1>2 DEF Sends, Ends
    <2>2. both \in Handles /\ both.Lock = u.Lock /\ both.RXNE = u.RXNE
          /\ both.RXNEIE = u.RXNEIE /\ both.TxXferCount = u.TxXferCount /\ ~ both.TXEIE /\ both.State = "BUSY_RX"
      BY DEF Handles, States
    <2>3. only \in Handles /\ only.Lock = u.Lock /\ only.RXNE = u.RXNE
          /\ only.RXNEIE = u.RXNEIE /\ only.TxXferCount = u.TxXferCount /\ ~ only.TXEIE /\ only.State = "READY"
      BY DEF Handles, States
    <2>4. v = IF u.State = "BUSY_TX_RX" THEN both ELSE only
      BY <1>2, <2>1 DEF Transmitted
    <2> HIDE DEF both, only
    <2>5. u.State # "BUSY_TX_RX" => u.State \notin Receiving
      BY <2>1 DEF Transmitting, Receiving
    <2>6. QED  BY <1>2, <2>1, <2>2, <2>3, <2>4, <2>5 DEF Receiving, Transmitting
  <1>3. CASE ~ Sends(u) /\ ~ Ends(u)
    BY <1>3 DEF Transmitted
  <1>4. QED  BY <1>1, <1>2, <1>3

LEMMA TxCpltCallbackInvariant == IInv /\ HAL_UART_TxCpltCallback => IInv'
  <1> SUFFICES ASSUME IInv, HAL_UART_TxCpltCallback PROVE IInv'
    OBVIOUS
  <1>1. /\ isr = "waits" /\ isr' = "none" /\ shifter = Nothing
        /\ UNCHANGED <<rdr, line, rx, receiver, pc, poll, sender, now, arrived, lost, cut, refused>>
    BY DEF HAL_UART_TxCpltCallback
  <1>2. ~ huart.TXEIE /\ pc \notin SendSteps /\ ~ huart.Lock /\ huart.State \notin Transmitting
        /\ huart \in Handles /\ huart.State \in States
    BY <1>1 DEF IInv, Transmission, HandleLocked, SendSteps, LoadSteps, LockSteps, TypeOK, Handles
  <1>3. \/ /\ fifo_isEmpty(tx) /\ UNCHANGED <<huart, tx, gs_u8SendByte>>
        \/ /\ ~ fifo_isEmpty(tx) /\ gs_u8SendByte' = tx.buf[tx.head] /\ tx' = Dropped(tx, TxSize)
           /\ huart' = HAL_UART_Transmit_IT(huart)
    BY DEF HAL_UART_TxCpltCallback
  <1>4. /\ tx \in Rings(TxSize) /\ Queue \in Seq(Nat) /\ message \in Seq(Nat) /\ wire \in Seq(Nat)
        /\ sent \in Nat
    BY SenderTypes
  <1>5. ~ Loaded /\ Loading = <<>> /\ Shifting = <<>> /\ Shifting' = <<>> /\ shifter' = Nothing
    BY <1>1, <1>2 DEF Loaded, Loading, Shifting, line, SendSteps
  <1>6. pc' = pc /\ wire' = wire /\ message' = message /\ sent' = sent /\ seen' = seen /\ refused' = refused
    BY <1>1 DEF line, sender
  <1>7. CASE /\ fifo_isEmpty(tx) /\ UNCHANGED <<huart, tx, gs_u8SendByte>>
    <2>1. AllAccounted' /\ Reading' /\ Watched' /\ Timed'
      BY <1>1, <1>7, ReceiverKept
    <2>2. TypeOK'
      BY <1>1, <1>7 DEF IInv, TypeOK, line, receiver, poll, sender
    <2>3. HandleLocked' /\ Listens' /\ Remembered'
      BY <1>6, <1>7 DEF IInv, HandleLocked, Listens, Remembered
    <2>4. Transmission'
      BY <1>1, <1>2, <1>5, <1>6, <1>7 DEF IInv, Transmission
    <2>5. (Loaded <=> Loaded') /\ Loading' = Loading /\ Queue' = Queue
      BY <1>6, <1>7 DEF Loaded, Loading, Queue
    <2>6. InTurn'
      BY <1>5, <1>6, <2>5 DEF InTurn, IInv
    <2>7. Pushing'
      BY <1>2, <1>6, <1>7 DEF Pushing, IInv, SendSteps
    <2>8. QED  BY <2>1, <2>2, <2>3, <2>4, <2>6, <2>7 DEF IInv
  <1>8. CASE /\ ~ fifo_isEmpty(tx) /\ gs_u8SendByte' = tx.buf[tx.head] /\ tx' = Dropped(tx, TxSize)
             /\ huart' = HAL_UART_Transmit_IT(huart)
    <2>1. /\ huart' \in Handles /\ huart'.RXNE = huart.RXNE /\ huart'.Lock = huart.Lock
          /\ huart'.TxXferCount = 1 /\ huart'.TXEIE
          /\ huart'.RXNEIE = huart.RXNEIE
          /\ huart.State = "BUSY_RX" => huart'.State = "BUSY_TX_RX"
      BY <1>2, <1>8, TransmissionStarts
    <2>2. AllAccounted' /\ Reading' /\ Watched' /\ Timed'
      BY <1>1, <2>1, ReceiverKept
    <2>3. Queue # <<>> /\ tx' \in Rings(TxSize) /\ gs_u8SendByte' = Head(Queue) /\ Queue' = Tail(Queue)
      BY <1>4, <1>8, Sizes, DroppedByte DEF Queue
    <2>4. gs_u8SendByte' \in 0..MaxTx
      <3>1. Head(Queue) \in ToSet(Queue)
        BY <1>4, <2>3, FirstAndRest
      <3>2. ToSet(Queue) \subseteq 1..sent /\ sent \in 0..MaxTx
        BY BytesNumbered DEF IInv, TypeOK
      <3>3. QED  BY <2>3, <3>1, <3>2, Sizes
    <2>5. TypeOK'
      BY <1>1, <2>1, <2>3, <2>4 DEF IInv, TypeOK, line, receiver, poll, sender
    <2>6. HandleLocked' /\ Remembered'
      BY <1>6, <2>1 DEF IInv, HandleLocked, Remembered
    <2>7. Listens'
      BY <1>2, <1>6, <2>1 DEF IInv, Listens, Receiving, Transmitting
    <2>8. Transmission'
      BY <1>1, <1>2, <1>5, <1>6, <2>1 DEF IInv, Transmission
    <2>9. Loaded' /\ Loading' = <<Head(Queue)>>
      BY <2>1, <2>3 DEF Loaded, Loading
    <2>10. InTurn'
      <3>1. <<Head(Queue)>> \o (Tail(Queue) \o message) = <<>> \o (Queue \o message)
        BY <1>4, <2>3, QueueToNext
      <3>2. Loading' \o (Queue' \o message') = Loading \o (Queue \o message)
        BY <1>5, <1>6, <2>3, <2>9, <3>1, Zenon
      <3>3. OnTheWay(wire', Shifting', Loading', Queue', message') =
            OnTheWay(wire, Shifting, Loading, Queue, message)
        BY <1>5, <1>6, <3>2, Zenon DEF OnTheWay
      <3>4. QED  BY <1>5, <1>6, <3>3 DEF InTurn, IInv
    <2>11. Pushing'
      BY <1>2, <1>6, <2>1 DEF Pushing, IInv, SendSteps
    <2>12. QED  BY <2>2, <2>5, <2>6, <2>7, <2>8, <2>10, <2>11 DEF IInv
  <1>9. QED  BY <1>3, <1>7, <1>8
\* The handle h after the interrupt, with u and w between its parts.
Interrupted(h, u, w, v) ==
    /\ v \in Handles /\ v.Lock = h.Lock
    /\ v.RXNE = IF Takes(u) THEN FALSE ELSE h.RXNE
    /\ Takes(u) => h.RXNE
    /\ u.Lock = h.Lock
    /\ h.RXNEIE /\ h.State \in Receiving /\ ~ (Fails(h) /\ h.Lock) /\ ~ (Takes(u) /\ u.Lock) =>
           v.RXNEIE /\ v.State \in Receiving
    /\ Sends(w) => h.TXEIE /\ h.TxXferCount = 1 /\ v.TXEIE /\ v.TxXferCount = 0
    /\ Ends(w) => h.TXEIE /\ h.TxXferCount = 0 /\ ~ v.TXEIE /\ v.TxXferCount = 0
                  /\ v.State \notin Transmitting
    /\ ~ Sends(w) /\ ~ Ends(w) => v.TXEIE = h.TXEIE /\ v.TxXferCount = h.TxXferCount
    /\ v.State \in Transmitting => h.State \in Transmitting

LEMMA InterruptEnds ==
    ASSUME NEW h \in Handles, NEW u, u = ErrorHandled(h), NEW w, w = Received(u),
           NEW v, v = Transmitted(w)
    PROVE  Interrupted(h, u, w, v)
  <1>1. /\ u \in Handles
        /\ u.RXNE = h.RXNE /\ u.Lock = h.Lock
        /\ u.TxXferCount = h.TxXferCount /\ u.TXEIE = h.TXEIE
        /\ u.State \in Transmitting => h.State \in Transmitting
        /\ h.RXNEIE /\ h.State \in Receiving /\ ~ (Fails(h) /\ h.Lock) => u.RXNEIE /\ u.State \in Receiving
    BY ErrorEnds
  <1>2. /\ w \in Handles
        /\ w.Lock = u.Lock
        /\ w.RXNE = IF Takes(u) THEN FALSE ELSE u.RXNE
        /\ w.TxXferCount = u.TxXferCount /\ w.TXEIE = u.TXEIE
        /\ w.State \in Transmitting <=> u.State \in Transmitting
        /\ u.RXNEIE /\ u.State \in Receiving /\ ~ (Takes(u) /\ u.Lock) => w.RXNEIE /\ w.State \in Receiving
    BY <1>1, ByteTaken
  <1>3. /\ v \in Handles
        /\ v.Lock = w.Lock /\ v.RXNE = w.RXNE /\ v.RXNEIE = w.RXNEIE
        /\ w.State \in Receiving => v.State \in Receiving
        /\ Sends(w) => v.TxXferCount = 0 /\ v.TXEIE /\ v.State = w.State
        /\ Ends(w) => v.TxXferCount = 0 /\ ~ v.TXEIE /\ v.State \notin Transmitting
        /\ ~ Sends(w) /\ ~ Ends(w) => v = w
    <2>1. w \in Handles /\ v = Transmitted(w)
      BY <1>2
    <2>2. QED  BY ONLY <2>1, ByteSent
  <1>4. Takes(u) => h.RXNE
    BY <1>1 DEF Takes
  <1>5. Sends(w) => h.TXEIE /\ h.TxXferCount = 1
    BY <1>1, <1>2 DEF Sends
  <1>6. Ends(w) => h.TXEIE /\ h.TxXferCount = 0
    BY <1>1, <1>2 DEF Ends
  <1>7. v.State \in Transmitting => h.State \in Transmitting
    BY <1>1, <1>2, <1>3
  <1>8. v.RXNE = IF Takes(u) THEN FALSE ELSE h.RXNE
    BY <1>1, <1>2, <1>3
  <1>9. ~ Sends(w) /\ ~ Ends(w) => v.TXEIE = h.TXEIE /\ v.TxXferCount = h.TxXferCount
    BY <1>1, <1>2, <1>3
  <1>10. h.RXNEIE /\ h.State \in Receiving /\ ~ (Fails(h) /\ h.Lock) /\ ~ (Takes(u) /\ u.Lock) =>
             v.RXNEIE /\ v.State \in Receiving
    BY <1>1, <1>2, <1>3
  <1>11. QED  BY <1>1, <1>2, <1>3, <1>4, <1>5, <1>6, <1>7, <1>8, <1>9, <1>10 DEF Interrupted

\* The time out of a byte that comes now.
LEMMA TimeoutSet ==
    ASSUME NEW n \in 0..(TickMod - 1), NEW timeout, timeout = (n + u8RxInterval) % TickMod
    PROVE  timeout \in 0..(TickMod - 1) /\ timeout + 0 - n - u8RxInterval \in {- TickMod, 0, TickMod}
  <1>1. \A t \in Nat \ {0} : \A i \in 1..(t - 1) : \A m \in 0..(t - 1) :
            (m + i) % t = IF m + i < t THEN m + i ELSE m + i - t
    BY Z3
  <1>2. TickMod \in Nat \ {0} /\ u8RxInterval \in 1..(TickMod - 1)
    BY Sizes
  <1>3. (n + u8RxInterval) % TickMod = IF n + u8RxInterval < TickMod THEN n + u8RxInterval
                                       ELSE n + u8RxInterval - TickMod
    BY <1>1, <1>2, Zenon
  <1>4. timeout = IF n + u8RxInterval < TickMod THEN n + u8RxInterval ELSE n + u8RxInterval - TickMod
    BY <1>3
  <1>5. QED  BY <1>2, <1>4

LEMMA TailOfAppend ==
    ASSUME NEW s \in Seq(Nat), s # <<>>, NEW x \in Nat
    PROVE  Tail(Append(s, x)) = Append(Tail(s), x)
  <1> DEFINE a == Append(s, x)
  <1>1. a \in Seq(Nat) /\ Len(a) = Len(s) + 1 /\ a[Len(s) + 1] = x /\ \A i \in 1..Len(s) : a[i] = s[i]
    BY AppendProperties
  <1>2. Len(s) \in Nat \ {0}
    BY EmptySeq, LenProperties
  <1>3. a # <<>>
    BY <1>1, <1>2
  <1>4. Tail(s) \in Seq(Nat) /\ Len(Tail(s)) = Len(s) - 1 /\ \A i \in 1..Len(Tail(s)) : Tail(s)[i] = s[i + 1]
    BY HeadTailProperties
  <1> HIDE DEF a
  <1>5. Tail(a) \in Seq(Nat) /\ Len(Tail(a)) = Len(a) - 1 /\ \A i \in 1..Len(Tail(a)) : Tail(a)[i] = a[i + 1]
    BY <1>1, <1>3, HeadTailProperties
  <1> DEFINE t == Append(Tail(s), x)
  <1>6. t \in Seq(Nat) /\ Len(t) = Len(s) /\ t[Len(s)] = x /\ \A i \in 1..(Len(s) - 1) : t[i] = Tail(s)[i]
    <2>1. t \in Seq(Nat) /\ Len(t) = Len(Tail(s)) + 1 /\ t[Len(Tail(s)) + 1] = x
          /\ \A i \in 1..Len(Tail(s)) : t[i] = Tail(s)[i]
      BY <1>4, AppendProperties
    <2>2. Len(Tail(s)) + 1 = Len(s)
      BY <1>2, <1>4
    <2>3. QED  BY <1>4, <2>1, <2>2
  <1> HIDE DEF t
  <1>7. Len(Tail(a)) = Len(t)
    BY <1>1, <1>2, <1>5, <1>6
  <1>8. ASSUME NEW i \in 1..Len(t) PROVE Tail(a)[i] = t[i]
    <2>1. Tail(a)[i] = a[i + 1]
      BY <1>5, <1>7
    <2>2. CASE i = Len(s)
      BY <1>1, <1>6, <2>1, <2>2
    <2>3. CASE i \in 1..(Len(s) - 1)
      <3>1. i + 1 \in 1..Len(s) /\ i \in 1..Len(Tail(s))  BY <1>2, <1>4, <2>3
      <3>2. a[i + 1] = s[i + 1] /\ Tail(s)[i] = s[i + 1]  BY <1>1, <1>4, <3>1
      <3>3. QED  BY <1>6, <2>1, <2>3, <3>2
    <2>4. i = Len(s) \/ i \in 1..(Len(s) - 1)
      BY <1>2, <1>6
    <2>5. QED  BY <2>2, <2>3, <2>4
  <1> DEFINE b == Tail(a)
  <1>9. b \in Seq(Nat) /\ t \in Seq(Nat) /\ Len(b) = Len(t) /\ \A i \in 1..Len(b) : b[i] = t[i]
    <2>1. b \in Seq(Nat) /\ t \in Seq(Nat) /\ Len(b) = Len(t)
      BY <1>5, <1>6, <1>7, Zenon
    <2>2. \A i \in 1..Len(t) : b[i] = t[i]
      BY <1>8
    <2> HIDE DEF b
    <2>3. QED  BY <2>1, <2>2
  <1> HIDE DEF b
  <1>10. b = t
    BY ONLY <1>9, SeqEqual
  <1>11. QED  BY <1>10 DEF a, b, t

\* What the interrupt does to the bytes of the host.
LEMMA ReceivesByte ==
    ASSUME IInv, uart_SetReceiveByte, huart.RXNE, ~ huart'.RXNE,
           UNCHANGED <<rdr, pc, poll, now, arrived>>
    PROVE  /\ AllAccounted' /\ Reading' /\ Watched' /\ Timed'
           /\ rx' \in Rings(RxSize) /\ lost' \subseteq 1..MaxRx
           /\ bRxMonitorTmo' = TRUE /\ u8RxTimeout' \in 0..(TickMod - 1) /\ silence' = 0
  <1>1. /\ bRxMonitorTmo' = TRUE /\ u8RxTimeout' = (now + u8RxInterval) % TickMod /\ silence' = 0
        /\ rx' = fifo_BasePush(rx, RxSize, rdr)
        /\ lost' = IF fifo_isFull(rx, RxSize) THEN lost \cup {rdr} ELSE lost
    BY DEF uart_SetReceiveByte
  <1>2. /\ handed \in Seq(Nat) /\ au8Buf \in Seq(Nat) /\ rdr \in Nat /\ arrived \in Nat
        /\ rx \in Rings(RxSize) /\ Held(rx, RxSize) \in Seq(Nat) /\ Ring \in Seq(Nat)
    BY ReceiverTypes
  <1>3. Register = <<rdr>> /\ Register' = <<>>
    BY DEF Register
  <1>4. rdr \in 1..MaxRx
    <2>1. rdr \in ToSet(<<rdr>>)
      BY DEF ToSet
    <2>2. QED  BY <1>3, <2>1, BytesArrived
  <1>5. /\ rx' \in Rings(RxSize) /\ rx'.head = rx.head
        /\ ~ fifo_isFull(rx, RxSize) =>
             /\ rx.tail < rx.head => rx'.tail < rx.head
             /\ Held(rx', RxSize) = Append(Held(rx, RxSize), rdr)
        /\ fifo_isFull(rx, RxSize) => rx' = rx
    <2> DEFINE p == fifo_BasePush(rx, RxSize, rdr)
    <2>1. rx \in Rings(RxSize) /\ rdr \in Nat /\ RxSize \in Nat \ {0}
      BY <1>2, Sizes
    <2>2. /\ p \in Rings(RxSize) /\ p.head = rx.head
          /\ ~ fifo_isFull(rx, RxSize) =>
               /\ rx.tail < rx.head => p.tail < rx.head
               /\ Held(p, RxSize) = Append(Held(rx, RxSize), rdr)
          /\ fifo_isFull(rx, RxSize) => p = rx
      BY ONLY <2>1, Pushed
    <2>3. rx' = p
      BY <1>1
    <2> HIDE DEF p
    <2>4. QED  BY ONLY <2>2, <2>3
  <1>6. lost' \subseteq 1..MaxRx
    BY <1>1, <1>4 DEF IInv, TypeOK
  <1>7. u8RxTimeout' \in 0..(TickMod - 1) /\ u8RxTimeout' + 0 - now - u8RxInterval \in {- TickMod, 0, TickMod}
    BY <1>1, TimeoutSet DEF IInv, TypeOK
  <1>8. pc' = pc /\ au8Buf' = au8Buf /\ handed' = handed /\ arrived' = arrived /\ now' = now
        /\ u8Length' = u8Length /\ frame' = frame /\ torn' = torn /\ evt' = evt
    BY DEF poll
  <1>9. IF fifo_isFull(rx, RxSize) THEN Ring' = Ring ELSE Ring' = Append(Ring, rdr)
    <2>1. CASE fifo_isFull(rx, RxSize)
      BY <1>5, <1>8, <2>1 DEF Ring
    <2>2. CASE ~ fifo_isFull(rx, RxSize) /\ pc # "advance"
      BY <1>5, <1>8, <2>2 DEF Ring
    <2>3. CASE ~ fifo_isFull(rx, RxSize) /\ pc = "advance"
      <3>1. Held(rx, RxSize) # <<>> /\ Ring = Tail(Held(rx, RxSize))
        BY <2>3, ReceiverTypes
      <3>2. Held(rx', RxSize) # <<>>
        BY <1>2, <1>5, <2>3
      <3>3. ~ fifo_isEmpty(rx')
        BY <1>5, <3>2, Sizes, EmptyHolds
      <3>4. Held(Dropped(rx', RxSize), RxSize) = Tail(Held(rx', RxSize))
        BY <1>5, <3>3, Sizes, DroppedByte
      <3>5. Ring' = Held(Dropped(rx', RxSize), RxSize)
        BY <1>8, <2>3 DEF Ring
      <3>6. Tail(Append(Held(rx, RxSize), rdr)) = Append(Tail(Held(rx, RxSize)), rdr)
        BY <1>2, <3>1, TailOfAppend
      <3>7. QED  BY <1>5, <2>3, <3>1, <3>4, <3>5, <3>6
    <2>4. QED  BY <2>1, <2>2, <2>3
  <1>10. AllAccounted'
    <2>1. Accounted(Pieces(handed, au8Buf, Ring, <<rdr>>), lost, arrived)
      BY <1>3 DEF IInv, AllAccounted
    <2>2. CASE ~ fifo_isFull(rx, RxSize)
      <3>1. Pieces(handed, au8Buf, Append(Ring, rdr), <<>>) = Pieces(handed, au8Buf, Ring, <<rdr>>)
        BY <1>2, RegisterToRing
      <3>2. lost' = lost /\ Ring' = Append(Ring, rdr)
        BY <1>1, <1>9, <2>2
      <3>3. QED  BY <1>3, <1>8, <2>1, <3>1, <3>2, Zenon DEF AllAccounted
    <2>3. CASE fifo_isFull(rx, RxSize)
      <3> DEFINE p == Pieces(handed, au8Buf, Ring, <<>>)
      <3>1. /\ Pieces(handed, au8Buf, Ring, <<rdr>>) = (p \o <<rdr>>) \o <<>>
            /\ p \o <<>> = p /\ p \in Seq(Nat)
        BY <1>2, RegisterLost
      <3> HIDE DEF p
      <3>2. Accounted((p \o <<rdr>>) \o <<>>, lost, arrived)
        BY <2>1, <3>1, Zenon
      <3>3. p \in Seq(Nat) /\ <<rdr>> \in Seq(Nat) /\ <<>> \in Seq(Nat) /\ arrived \in Nat
        BY <1>2, <3>1
      <3>4. Accounted(p \o <<>>, lost \cup ToSet(<<rdr>>), arrived)
        BY <3>2, <3>3, LossAccounted
      <3>5. ToSet(<<rdr>>) = {rdr}
        BY DEF ToSet
      <3>6. lost' = lost \cup {rdr} /\ Ring' = Ring
        BY <1>1, <1>9, <2>3
      <3>7. QED  BY <1>3, <1>8, <3>1, <3>4, <3>5, <3>6, Zenon DEF AllAccounted, p
    <2>4. QED  BY <2>2, <2>3
  <1>11. Reading'
    <2>1. Len(au8Buf) \in Nat /\ Len(Ring) \in Nat /\ Len(Ring') \in Nat /\ Len(Ring) <= Len(Ring')
      <3>1. Len(Append(Ring, rdr)) = Len(Ring) + 1
        BY <1>2, AppendProperties
      <3>2. QED  BY <1>2, <1>9, <3>1, LenProperties
    <2>2. pc = "advance" => ~ fifo_isEmpty(rx')
      <3>1. SUFFICES ASSUME pc = "advance" PROVE ~ fifo_isEmpty(rx')
        OBVIOUS
      <3>2. ~ fifo_isEmpty(rx)
        BY <3>1 DEF IInv, Reading
      <3>3. CASE fifo_isFull(rx, RxSize)
        BY <1>5, <3>2, <3>3
      <3>4. CASE ~ fifo_isFull(rx, RxSize)
        <4>1. Held(rx', RxSize) # <<>>
          BY <1>2, <1>5, <3>4
        <4>2. QED  BY <1>5, <4>1, Sizes, EmptyHolds
      <3>5. QED  BY <3>3, <3>4
    <2>3. pc = "around" => rx'.tail < rx'.head
      BY <1>5 DEF IInv, Reading
    <2>4. pc \in {"receive", "advance"} =>
              /\ u8Length = Len(frame) + (IF torn THEN LengthMod - RxSize ELSE 0)
              /\ Begins(frame, au8Buf \o Ring')
      <3>1. SUFFICES ASSUME pc \in {"receive", "advance"} PROVE Begins(frame, au8Buf \o Ring')
        BY DEF IInv, Reading
      <3>2. Begins(frame, au8Buf \o Ring)
        BY <3>1 DEF IInv, Reading
      <3>3. CASE fifo_isFull(rx, RxSize)
        BY <1>9, <3>2, <3>3
      <3>4. CASE ~ fifo_isFull(rx, RxSize)
        <4>1. Ring' = Append(Ring, rdr)
          BY <1>9, <3>4
        <4>2. au8Buf \o Ring \in Seq(Nat) /\ frame \in Seq(Nat)
          BY <1>2, Sizes, BytesAreNat, BytesTogether DEF IInv, TypeOK
        <4>3. au8Buf \o Append(Ring, rdr) = Append(au8Buf \o Ring, rdr)
          BY <1>2, LastOfConcat
        <4>4. QED  BY <1>2, <3>2, <4>1, <4>2, <4>3, BeginsLonger
      <3>5. QED  BY <3>3, <3>4
    <2>5. pc \notin {"receive", "advance"} => au8Buf = <<>>
      BY DEF IInv, Reading
    <2>6. pc \in {"receive", "advance"} => Len(au8Buf) <= u8Length
      BY DEF IInv, Reading
    <2>7. QED  BY <1>1, <1>8, <2>2, <2>3, <2>4, <2>5, <2>6 DEF Reading
  <1>12. Watched'
    BY <1>1 DEF Watched
  <1>13. Timed'
    BY <1>1, <1>7, <1>8 DEF Timed
  <1>14. QED  BY <1>1, <1>5, <1>6, <1>7, <1>10, <1>11, <1>12, <1>13

LEMMA IRQHandlerInvariant == IInv /\ HAL_UART_IRQHandler => IInv'
  <1> SUFFICES ASSUME IInv, HAL_UART_IRQHandler PROVE IInv'
    OBVIOUS
  <1> DEFINE u == ErrorHandled(huart)
             w == Received(u)
  <1>1. /\ isr = "none" /\ huart' = Transmitted(w)
        /\ IF Takes(u) THEN uart_SetReceiveByte ELSE UNCHANGED <<rx, receiver, lost>>
        /\ refused' = (refused \/ ((Fails(huart) \/ Takes(u)) /\ u.Lock))
        /\ cut' = (cut \/ (Fails(huart) /\ huart.State \in Transmitting))
        /\ shifter' = IF Sends(w) THEN gs_u8SendByte ELSE shifter
        /\ isr' = IF Ends(w) THEN "waits" ELSE "none"
        /\ UNCHANGED <<rdr, gs_u8SendByte, wire, tx, pc, poll, sender, now, arrived>>
    BY DEF HAL_UART_IRQHandler
  <1>2. /\ refused' \in BOOLEAN /\ cut' \in BOOLEAN
        /\ ~ refused' => ~ refused /\ ~ (Fails(huart) /\ u.Lock) /\ ~ (Takes(u) /\ u.Lock)
    <2>1. refused \in BOOLEAN /\ cut \in BOOLEAN
      BY DEF IInv, TypeOK
    <2>2. QED  BY <1>1, <2>1
  <1>3. huart \in Handles
    BY DEF IInv, TypeOK
  <1>4. /\ huart' \in Handles /\ huart'.Lock = huart.Lock
        /\ huart'.RXNE = IF Takes(u) THEN FALSE ELSE huart.RXNE
        /\ Takes(u) => huart.RXNE
        /\ u.Lock = huart.Lock
        /\ huart.RXNEIE /\ huart.State \in Receiving /\ ~ (Fails(huart) /\ huart.Lock) /\ ~ (Takes(u) /\ u.Lock) =>
               huart'.RXNEIE /\ huart'.State \in Receiving
        /\ Sends(w) => huart.TXEIE /\ huart.TxXferCount = 1 /\ huart'.TXEIE /\ huart'.TxXferCount = 0
        /\ Ends(w) => huart.TXEIE /\ huart.TxXferCount = 0 /\ ~ huart'.TXEIE /\ huart'.TxXferCount = 0
                      /\ huart'.State \notin Transmitting
        /\ ~ Sends(w) /\ ~ Ends(w) => huart'.TXEIE = huart.TXEIE /\ huart'.TxXferCount = huart.TxXferCount
        /\ huart'.State \in Transmitting => huart.State \in Transmitting
    <2>1. huart \in Handles /\ u = ErrorHandled(huart) /\ w = Received(u) /\ huart' = Transmitted(w)
      BY <1>1, <1>3
    <2> HIDE DEF u, w
    <2>2. Interrupted(huart, u, w, huart')
      BY <2>1, InterruptEnds, Zenon
    <2>3. QED  BY <2>2 DEF Interrupted
  <1> HIDE DEF u, w
  <1>5. pc' = pc /\ wire' = wire /\ message' = message /\ sent' = sent /\ tx' = tx /\ seen' = seen
        /\ gs_u8SendByte' = gs_u8SendByte /\ bTxRestart' = bTxRestart
    BY <1>1 DEF sender
  <1>6. /\ AllAccounted' /\ Reading' /\ Watched' /\ Timed'
        /\ rx' \in Rings(RxSize) /\ lost' \subseteq 1..MaxRx
        /\ bRxMonitorTmo' \in BOOLEAN /\ u8RxTimeout' \in 0..(TickMod - 1) /\ silence' \in 0..TickMod
    <2>1. CASE Takes(u)
      <3>1. uart_SetReceiveByte /\ huart.RXNE
        BY <1>1, <1>4, <2>1
      <3>2. ~ huart'.RXNE
        BY <1>4, <2>1
      <3>3. /\ AllAccounted' /\ Reading' /\ Watched' /\ Timed'
            /\ rx' \in Rings(RxSize) /\ lost' \subseteq 1..MaxRx
            /\ bRxMonitorTmo' = TRUE /\ u8RxTimeout' \in 0..(TickMod - 1) /\ silence' = 0
        BY <1>1, <3>1, <3>2, ReceivesByte
      <3>4. QED  BY <3>3, Sizes
    <2>2. CASE ~ Takes(u)
      <3>1. UNCHANGED <<rx, receiver, lost>> /\ huart'.RXNE = huart.RXNE
        BY <1>1, <1>4, <2>2
      <3>2. AllAccounted' /\ Reading' /\ Watched' /\ Timed'
        BY <1>1, <3>1, ReceiverKept
      <3>3. QED  BY <3>1, <3>2 DEF IInv, TypeOK, receiver
    <2>3. QED  BY <2>1, <2>2
  <1>7. TypeOK'
    <2>1. shifter' \in 0..MaxTx /\ isr' \in {"none", "waits"}
      BY <1>1 DEF IInv, TypeOK
    <2>2. {ended', torn', cut', refused'} \subseteq BOOLEAN
      BY <1>1, <1>2 DEF IInv, TypeOK, poll
    <2>3. QED  BY <1>1, <1>4, <1>6, <2>1, <2>2 DEF IInv, TypeOK, poll, sender
  <1>8. pc \in SendSteps => ~ huart.TXEIE /\ ~ Sends(w) /\ ~ Ends(w)
    BY <1>4 DEF IInv, Transmission
  <1>9. HandleLocked'
    BY <1>2, <1>4, <1>5 DEF IInv, HandleLocked
  <1>10. Transmission'
    <2>1. pc \in {"assign", "read_cr1", "write_cr1", "unlock", "txe"} => pc \in SendSteps
      BY DEF SendSteps, LoadSteps, LockSteps
    <2>2. ~ huart'.TXEIE /\ isr' = "none" => shifter' = Nothing
      <3>1. SUFFICES ASSUME ~ huart'.TXEIE, isr' = "none" PROVE shifter' = Nothing
        OBVIOUS
      <3>2. ~ Sends(w) /\ ~ Ends(w)
        BY <1>1, <1>4, <3>1
      <3>3. ~ huart.TXEIE
        BY <1>4, <3>1, <3>2
      <3>4. QED  BY <1>1, <3>2, <3>3 DEF IInv, Transmission
    <2>3. huart'.TXEIE => isr' = "none"
      BY <1>1, <1>4
    <2>4. pc \in SendSteps => ~ huart'.TXEIE /\ isr' = "none" /\ huart'.TxXferCount = huart.TxXferCount
      BY <1>1, <1>4, <1>8
    <2>5. huart'.State \in Transmitting => huart'.TXEIE \/ pc \in {"read_cr1", "write_cr1", "unlock", "txe"}
      <3>1. huart'.State \in Transmitting => huart.TXEIE \/ pc \in {"read_cr1", "write_cr1", "unlock", "txe"}
        BY <1>4 DEF IInv, Transmission
      <3>2. huart'.State \in Transmitting /\ huart.TXEIE => huart'.TXEIE
        BY <1>4
      <3>3. QED  BY <3>1, <3>2
    <2>6. pc \in {"assign", "read_cr1", "write_cr1", "unlock", "txe"} => huart.TxXferCount = 1
      BY DEF IInv, Transmission
    <2>7. QED  BY <1>5, <2>1, <2>2, <2>3, <2>4, <2>5, <2>6 DEF Transmission
  <1>11. Listens'
    <2>1. SUFFICES ASSUME ~ refused' PROVE huart'.RXNEIE /\ huart'.State \in Receiving
      BY DEF Listens
    <2>2. huart.RXNEIE /\ huart.State \in Receiving /\ ~ (Fails(huart) /\ huart.Lock)
      BY <1>2, <1>4, <2>1 DEF IInv, Listens
    <2>3. QED  BY <1>2, <1>4, <2>1, <2>2
  <1>12. Remembered'
    BY <1>2, <1>5 DEF IInv, Remembered
  <1>13. Queue' = Queue
    BY <1>5 DEF Queue
  <1>14. InTurn'
    <2>1. CASE Sends(w)
      <3>1. Loaded /\ ~ Loaded'
        <4>1. pc \notin LoadSteps
          BY <1>8, <2>1 DEF SendSteps
        <4>2. huart'.TxXferCount = 0
          BY <1>4, <2>1
        <4>3. QED  BY <1>4, <1>5, <2>1, <4>1, <4>2 DEF Loaded
      <3>2. shifter = Nothing
        BY <3>1 DEF IInv, InTurn
      <3>3. gs_u8SendByte \in Nat \ {Nothing}
        <4>1. Loading = <<gs_u8SendByte>>
          BY <3>1 DEF Loading
        <4>2. gs_u8SendByte \in ToSet(<<gs_u8SendByte>>)
          BY DEF ToSet
        <4>3. gs_u8SendByte \in 1..sent
          BY <4>1, <4>2, BytesNumbered
        <4>4. QED  BY <4>3, SenderTypes DEF Nothing
      <3>4. /\ Loading = <<gs_u8SendByte>> /\ Loading' = <<>>
            /\ Shifting = <<>> /\ Shifting' = <<gs_u8SendByte>>
        BY <1>1, <2>1, <3>1, <3>2, <3>3 DEF Loading, Shifting
      <3> DEFINE t == Queue \o message
      <3>5. gs_u8SendByte \in Nat /\ t \in Seq(Nat)
        BY SenderTypes, BytesTogether
      <3>6. t = Queue' \o message'
        BY <1>5, <1>13
      <3> HIDE DEF t
      <3>7. <<gs_u8SendByte>> \o (<<>> \o t) = <<>> \o (<<gs_u8SendByte>> \o t)
        BY <3>5, NextToShifter
      <3>8. wire' \o (Shifting' \o (Loading' \o t)) = wire \o (Shifting \o (Loading \o t))
        BY <1>5, <3>4, <3>7, Zenon
      <3>9. OnTheWay(wire', Shifting', Loading', Queue', message') =
            OnTheWay(wire, Shifting, Loading, Queue, message)
        BY <3>6, <3>8, Zenon DEF OnTheWay, t
      <3>10. QED  BY <1>5, <3>1, <3>9 DEF InTurn, IInv
    <2>2. CASE ~ Sends(w)
      <3>1. shifter' = shifter
        BY <1>1, <2>2
      <3>2. Loaded <=> Loaded'
        <4>1. CASE Ends(w)
          <5>1. pc \notin LoadSteps /\ huart.TxXferCount # 1 /\ huart'.TxXferCount # 1
            BY <1>4, <1>8, <4>1 DEF SendSteps
          <5>2. QED  BY <1>5, <5>1 DEF Loaded
        <4>2. CASE ~ Ends(w)
          BY <1>4, <1>5, <2>2, <4>2 DEF Loaded
        <4>3. QED  BY <4>1, <4>2
      <3>3. Loading' = Loading /\ Shifting' = Shifting
        BY <1>5, <3>1, <3>2 DEF Loading, Shifting
      <3>4. QED  BY <1>5, <1>13, <3>1, <3>2, <3>3 DEF InTurn, IInv
    <2>3. QED  BY <2>1, <2>2
  <1>15. Pushing'
    <2>1. ~ huart'.TXEIE /\ isr' = "none" => ~ huart.TXEIE
      BY <1>1, <1>4
    <2>2. QED  BY <1>1, <1>5, <1>13, <2>1 DEF Pushing, IInv
  <1>16. QED  BY <1>6, <1>7, <1>9, <1>10, <1>11, <1>12, <1>14, <1>15 DEF IInv
----------------------------------------------------------------------------
(* The invariant holds                                                    *)

LEMMA EmptyRingHolds ==
    ASSUME NEW size \in Nat \ {0}
    PROVE  /\ EmptyRing(size) \in Rings(size) /\ fifo_isEmpty(EmptyRing(size))
           /\ Held(EmptyRing(size), size) = <<>>
  <1>1. EmptyRing(size) \in Rings(size)
    BY DEF EmptyRing, Rings, Nothing
  <1>2. fifo_isEmpty(EmptyRing(size))
    BY DEF EmptyRing, fifo_isEmpty
  <1>3. QED  BY <1>1, <1>2, EmptyHolds

LEMMA InitInvariant == Init => IInv
  <1> SUFFICES ASSUME Init PROVE IInv
    OBVIOUS
  <1> DEFINE h == [State |-> "READY", Lock |-> FALSE, TxXferCount |-> 0, RXNEIE |-> FALSE,
                   TXEIE |-> FALSE, EIE |-> FALSE, RXNE |-> FALSE, ORE |-> FALSE,
                   FE |-> FALSE]
  <1>1. /\ huart = HAL_UART_Receive_IT(h)
        /\ rdr = Nothing /\ gs_u8SendByte = Nothing /\ shifter = Nothing /\ isr = "none"
        /\ rx = EmptyRing(RxSize) /\ tx = EmptyRing(TxSize)
        /\ bRxMonitorTmo = FALSE /\ u8RxTimeout = 0
        /\ pc = "idle" /\ evt = {} /\ u8Length = 0 /\ au8Buf = <<>>
        /\ message = <<>> /\ bTxRestart = FALSE /\ seen = FALSE /\ now = 0
        /\ arrived = 0 /\ sent = 0 /\ wire = <<>> /\ handed = <<>> /\ lost = {}
        /\ silence = 0 /\ ended = FALSE /\ frame = <<>> /\ torn = FALSE /\ cut = FALSE /\ refused = FALSE
    BY DEF Init
  <1>2. /\ huart \in Handles /\ ~ huart.RXNE /\ ~ huart.Lock /\ ~ huart.TXEIE
        /\ huart.RXNEIE /\ huart.State \in Receiving /\ huart.State \notin Transmitting
    <2>1. /\ h \in Handles /\ ~ h.RXNE /\ ~ h.Lock /\ ~ h.TXEIE
          /\ h.State = "READY"
      BY DEF Handles, States
    <2>2. h.State \notin Receiving /\ h.State \notin Transmitting
      BY <2>1 DEF Receiving, Transmitting
    <2> HIDE DEF h
    <2>3. huart = HAL_UART_Receive_IT(h)
      BY <1>1
    <2>4. /\ huart \in Handles
          /\ huart.RXNE = h.RXNE /\ huart.Lock = h.Lock
          /\ huart.TxXferCount = h.TxXferCount /\ huart.TXEIE = h.TXEIE
          /\ huart.State \in Transmitting <=> h.State \in Transmitting
          /\ h.State \notin Receiving /\ ~ h.Lock => huart.RXNEIE /\ huart.State \in Receiving
      BY <2>1, <2>3, ReceptionStarts
    <2>5. QED  BY <2>1, <2>2, <2>4
  <1> HIDE DEF h
  <1>3. /\ rx \in Rings(RxSize) /\ tx \in Rings(TxSize) /\ fifo_isEmpty(rx) /\ fifo_isEmpty(tx)
        /\ Ring = <<>> /\ Queue = <<>>
    BY <1>1, Sizes, EmptyRingHolds DEF Ring, Queue
  <1>4. /\ au8Buf \in Seq(1..MaxRx) /\ frame \in Seq(1..MaxRx) /\ handed \in Seq(1..MaxRx) /\ message \in Seq(1..MaxTx)
        /\ wire \in Seq(0..MaxTx)
    BY <1>1
  <1>5. TypeOK
    <2>1. /\ 0 \in 0..MaxRx /\ 0 \in 0..MaxTx /\ 0 \in 0..(TickMod - 1) /\ 0 \in 0..TickMod
          /\ 0 \in 0..(LengthMod - 1)
      BY Sizes
    <2>2. {ended, torn, cut, refused} \subseteq BOOLEAN
      BY <1>1
    <2>3. pc \in Steps /\ evt \subseteq {"RX_FIFO_FULL", "RX_TIMEOUT"} /\ lost \subseteq 1..MaxRx
      BY <1>1 DEF Steps
    <2>4. bRxMonitorTmo \in BOOLEAN /\ bTxRestart \in BOOLEAN /\ seen \in BOOLEAN
      BY <1>1
    <2>5. /\ rdr \in 0..MaxRx /\ gs_u8SendByte \in 0..MaxTx /\ shifter \in 0..MaxTx
          /\ isr \in {"none", "waits"} /\ u8RxTimeout \in 0..(TickMod - 1)
          /\ u8Length \in 0..(LengthMod - 1) /\ now \in 0..(TickMod - 1)
          /\ arrived \in 0..MaxRx /\ sent \in 0..MaxTx /\ silence \in 0..TickMod
      BY <1>1, <2>1 DEF Nothing
    <2>6. QED  BY <1>2, <1>3, <1>4, <2>2, <2>3, <2>4, <2>5 DEF TypeOK
  <1>6. AllAccounted
    <2>1. Register = <<>>
      BY <1>2 DEF Register
    <2>2. <<>> \o <<>> = <<>>
      BY ConcatEmptySeq
    <2>3. Pieces(<<>>, <<>>, <<>>, <<>>) = <<>>
      BY <2>2, Zenon DEF Pieces
    <2>4. Accounted(<<>>, {}, 0)
      BY DEF Accounted, ToSet
    <2>5. QED  BY <1>1, <1>3, <2>1, <2>3, <2>4 DEF AllAccounted
  <1>7. Reading /\ Watched /\ Timed
    BY <1>1 DEF Reading, Watched, Timed
  <1>8. HandleLocked /\ Transmission /\ Listens /\ Remembered
    BY <1>1, <1>2 DEF HandleLocked, Transmission, Listens, Remembered, SendSteps, LoadSteps, LockSteps
  <1>9. InTurn
    <2>1. ~ Loaded
      BY <1>1, <1>2 DEF Loaded, LoadSteps, LockSteps
    <2>2. Loading = <<>> /\ Shifting = <<>>
      BY <1>1, <2>1 DEF Loading, Shifting
    <2>3. <<>> \in Seq(Nat)
      OBVIOUS
    <2>4. OnTheWay(<<>>, <<>>, <<>>, <<>>, <<>>) = <<>>
      BY <2>3, AtRest
    <2>5. FirstBytes(0) = <<>>
      BY DEF FirstBytes
    <2>6. QED  BY <1>1, <1>3, <2>1, <2>2, <2>4, <2>5 DEF InTurn
  <1>10. Pushing
    BY <1>1, <1>3 DEF Pushing
  <1>11. QED  BY <1>5, <1>6, <1>7, <1>8, <1>9, <1>10 DEF IInv

LEMMA StutterInvariant == IInv /\ UNCHANGED vars => IInv'
  <1> SUFFICES ASSUME IInv, UNCHANGED vars PROVE IInv'
    OBVIOUS
  <1>1. AllAccounted' /\ Reading' /\ Watched' /\ Timed'
    BY ReceiverKept DEF vars
  <1>2. HandleLocked' /\ Transmission' /\ Listens' /\ Remembered' /\ InTurn' /\ Pushing'
    BY SenderKept DEF vars
  <1>3. TypeOK'
    BY DEF IInv, TypeOK, vars, line, receiver, poll, sender
  <1>4. QED  BY <1>1, <1>2, <1>3 DEF IInv

LEMMA NextInvariant == IInv /\ [Next]_vars => IInv'
  <1> SUFFICES ASSUME IInv, [Next]_vars PROVE IInv'
    OBVIOUS
  <1>1. CASE Interrupt
    BY <1>1, IRQHandlerInvariant, TxCpltCallbackInvariant DEF Interrupt
  <1>2. CASE (\E disturbed \in BOOLEAN : ByteArrives(disturbed)) \/ ByteLeaves \/ Tick
    BY <1>2, ByteArrivesInvariant, ByteLeavesInvariant, TickInvariant
  <1>3. CASE Polls
    BY <1>3, PollBeginsInvariant, MonitorsInvariant, ChecksTimeoutInvariant, LooksForEventsInvariant,
       ReadsLengthInvariant, ReadsByteInvariant, AdvancesHeadInvariant, HandsOverInvariant DEF Polls
  <1>4. CASE PushesByte \/ Restarts
    BY <1>4, PushesByteInvariant, RestartsInvariant
  <1>5. CASE Transmits
    BY <1>5, LocksInvariant, ReadsStateInvariant, AssignsStateInvariant, ReadsCR1Invariant,
       WritesCR1Invariant, UnlocksInvariant, EnablesTXEInvariant DEF Transmits
  <1>6. CASE \E n \in 1..(TxSize - 1) : uart_SendBytes(n)
    BY <1>6, SendBytesInvariant
  <1>7. CASE UNCHANGED vars
    BY <1>7, StutterInvariant
  <1>8. QED  BY <1>1, <1>2, <1>3, <1>4, <1>5, <1>6, <1>7 DEF Next, Loop

\* What the interrupt, the main loop and the line keep true between any two of
\* their steps.
THEOREM Invariance == Spec => []IInv
  <1>1. Init => IInv
    BY InitInvariant
  <1>2. IInv /\ [Next]_vars => IInv'
    BY NextInvariant
  <1>3. QED  BY <1>1, <1>2, PTL DEF Spec

----------------------------------------------------------------------------
(* What follows from it                                                   *)

\* The registers, the rings and the main loop stay in their types: among them
\* that no byte is read from an empty place of the ring of the host, which
\* would be the byte 0 (cfifo.h:62).
THEOREM TypeCorrect == Spec => []TypeOK
  <1>1. IInv => TypeOK
    BY DEF IInv
  <1>2. QED  BY <1>1, Invariance, PTL

\* No byte of the host vanishes, is read twice or overtakes another while the
\* interrupt fills the ring that the main loop empties (cfifo.h:52-73).
THEOREM EveryByteAccountedFor == Spec => []BytesAccountedFor
  <1>1. IInv => BytesAccountedFor
    <2> SUFFICES ASSUME IInv PROVE BytesAccountedFor
      OBVIOUS
    <2> DEFINE bytes == handed \o Waiting
    <2>1. bytes = Pieces(handed, au8Buf, Ring, Register)
      BY Zenon DEF Waiting, Register, Pieces
    <2>2. bytes \in Seq(Nat)
      <3>1. handed \in Seq(Nat) /\ au8Buf \in Seq(Nat) /\ Ring \in Seq(Nat) /\ Register \in Seq(Nat)
        BY ReceiverTypes
      <3>2. au8Buf \o Ring \in Seq(Nat)  BY <3>1, BytesTogether
      <3>3. (au8Buf \o Ring) \o Register \in Seq(Nat)  BY <3>1, <3>2, BytesTogether
      <3>4. Pieces(handed, au8Buf, Ring, Register) \in Seq(Nat)
        BY <3>1, <3>3, BytesTogether DEF Pieces
      <3>5. QED  BY <2>1, <3>4, Zenon
    <2>3. Accounted(bytes, lost, arrived)
      BY <2>1, Zenon DEF IInv, AllAccounted
    <2> HIDE DEF bytes
    <2>4. /\ ToSet(bytes) \cup lost = 1..arrived /\ ToSet(bytes) \cap lost = {}
          /\ \A i, j \in 1..Len(bytes) : i < j => bytes[i] < bytes[j]
      BY <2>3 DEF Accounted
    <2>5. \A i \in 1..(Len(bytes) - 1) : bytes[i] < bytes[i + 1]
      <3>1. \A i \in 1..(Len(bytes) - 1) : i \in 1..Len(bytes) /\ i + 1 \in 1..Len(bytes) /\ i < i + 1
        BY <2>2, LenProperties
      <3>2. QED  BY <2>4, <3>1, Zenon
    <2>6. QED  BY <2>4, <2>5 DEF BytesAccountedFor, bytes
  <1>2. QED  BY <1>1, Invariance, PTL

\* When the main loop is at rest, the bytes of all messages have gone out,
\* once and in order (uart.c:314).
THEOREM EveryMessageComplete == Spec => []MessagesComplete
  <1>1. IInv => MessagesComplete
    <2> SUFFICES ASSUME IInv, Idle PROVE wire = FirstBytes(sent)
      BY DEF MessagesComplete, FirstBytes
    <2>1. pc = "idle" /\ isr = "none" /\ ~ huart.TXEIE
      BY DEF Idle, Pending
    <2>2. shifter = Nothing /\ message = <<>> /\ fifo_isEmpty(tx)
      BY <2>1 DEF IInv, Transmission, Pushing, SendSteps, LoadSteps, LockSteps
    <2>3. ~ Loaded
      BY <2>1 DEF Loaded, LoadSteps, LockSteps
    <2>4. Shifting = <<>> /\ Loading = <<>>
      BY <2>2, <2>3 DEF Shifting, Loading
    <2>5. Queue = <<>>
      BY <2>2, Sizes, SenderTypes, EmptyHolds DEF Queue
    <2>6. OnTheWay(wire, <<>>, <<>>, <<>>, <<>>) = FirstBytes(sent)
      BY <2>2, <2>4, <2>5, Zenon DEF IInv, InTurn
    <2>7. wire \in Seq(Nat) /\ <<>> \in Seq(Nat)
      BY SenderTypes
    <2>8. QED  BY <2>6, <2>7, AtRest
  <1>2. QED  BY <1>1, Invariance, PTL

\* Reception is started whenever the main loop runs, unless a byte came while
\* it held the lock of the handle (stm32l0xx_hal_uart.c:835).
THEOREM ReceptionStarted == Spec => []Listens
  <1>1. IInv => Listens
    BY DEF IInv
  <1>2. QED  BY <1>1, Invariance, PTL

\* The length that is read for a frame is the number of bytes that are in the
\* ring then, and these are the ones that follow; when the tail wraps between its
\* two reads the length is too large by LengthMod - RxSize (cfifo.h:78).
THEOREM EveryLengthIsBytes == Spec => []LengthIsBytes
  <1>1. IInv => LengthIsBytes
    <2> SUFFICES ASSUME IInv, pc \in {"receive", "advance"}
                 PROVE  /\ u8Length = Len(frame) + (IF torn THEN LengthMod - RxSize ELSE 0)
                        /\ IsPrefix(frame, au8Buf \o Ring)
      BY DEF LengthIsBytes
    <2> DEFINE bytes == au8Buf \o Ring
    <2>1. /\ u8Length = Len(frame) + (IF torn THEN LengthMod - RxSize ELSE 0)
          /\ Begins(frame, bytes)
      BY DEF IInv, Reading
    <2>2. bytes \in Seq(Nat) /\ frame \in Seq(Nat)
      BY ReceiverTypes, Sizes, BytesAreNat, BytesTogether DEF IInv, TypeOK
    <2> HIDE DEF bytes
    <2>3. IsPrefix(frame, bytes)
      BY <2>1, <2>2, BeginsIsPrefix
    <2>4. QED  BY <2>1, <2>3 DEF bytes
  <1>2. QED  BY <1>1, Invariance, PTL

\* When a poll has looked for the end of a frame within reach of the tick's
\* eight bits, no byte of the frame stays behind unwatched (uart.c:162-167).
THEOREM EveryEndIsSeen == Spec => []EndIsSeen
  <1>1. IInv => EndIsSeen
    BY DEF IInv, Watched, EndIsSeen
  <1>2. QED  BY <1>1, Invariance, PTL
=============================================================================
