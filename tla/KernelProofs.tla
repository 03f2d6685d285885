---------------------------- MODULE KernelProofs ----------------------------
(***************************************************************************)
(* The kernel's clock, its sorted list of timers and its signals, for any  *)
(* number of timers, processes and signals and any width of the counter.   *)
(*                                                                         *)
(* First the times: comparing pairs is comparing milliseconds, and adding  *)
(* to a pair adds milliseconds.  Then the invariants.  NoneOverdue needs   *)
(* to know why the update routine may return early: no timer is due at the *)
(* time of the last update, and whatever is started later is due later.    *)
(* From this and from Sorted follows that the walk over the list stops at  *)
(* the first timer of all that are not due, so that what it fires is what  *)
(* the abstract service fires.                                             *)
(***************************************************************************)
EXTENDS Kernel, TLAPS

----------------------------------------------------------------------------
(* Times                                                                  *)

LEMMA MsType == ASSUME NEW t \in Time PROVE Ms(t) \in Nat
BY KernelTimeAssumption DEF Time, Ms

\* time_tick_less_than() and time_tick_less_or_equal() of timer.c compare times.
THEOREM ComparisonIsOfMs ==
    ASSUME NEW t1 \in Time, NEW t2 \in Time
    PROVE  /\ time_tick_less_than(t1, t2) <=> Ms(t1) < Ms(t2)
           /\ time_tick_less_or_equal(t1, t2) <=> Ms(t1) <= Ms(t2)
           /\ t1 = t2 <=> Ms(t1) = Ms(t2)
<1> DEFINE M == MsPerS
<1>1. M \in Nat \ {0}
  BY KernelTimeAssumption
<1>2. /\ t1.s \in Nat /\ t1.ms \in 0..(M - 1) /\ t2.s \in Nat /\ t2.ms \in 0..(M - 1)
      /\ t1 = t2 <=> t1.s = t2.s /\ t1.ms = t2.ms
  BY DEF Time
<1>3. ASSUME NEW a \in Nat, NEW b \in Nat, a < b
      PROVE  a * M + M <= b * M
  BY <1>1, <1>3
<1>4. t1.s < t2.s => Ms(t1) < Ms(t2)
  BY <1>1, <1>2, <1>3 DEF Ms
<1>5. t2.s < t1.s => Ms(t2) < Ms(t1)
  BY <1>1, <1>2, <1>3 DEF Ms
<1>6. t1.s = t2.s => Ms(t1) - Ms(t2) = t1.ms - t2.ms
  BY <1>1, <1>2 DEF Ms
<1> QED
  BY <1>1, <1>2, <1>4, <1>5, <1>6, MsType DEF time_tick_less_than, time_tick_less_or_equal

LEMMA DivMod ==
    ASSUME NEW a \in Nat, NEW k \in Nat \ {0}
    PROVE  a \div k \in Nat /\ a % k \in 0..(k - 1) /\ a = (a \div k) * k + (a % k)
OBVIOUS

LEMMA AddedMs ==
    ASSUME NEW t \in Time, NEW d \in Nat, NEW a \in Nat, a = t.ms + d
    PROVE  LET r == [s |-> t.s + a \div MsPerS, ms |-> a % MsPerS]
           IN  r \in Time /\ Ms(r) = Ms(t) + d
<1> DEFINE q == a \div MsPerS
           m == a % MsPerS
<1>1. q \in Nat /\ m \in 0..(MsPerS - 1) /\ a = q * MsPerS + m
  BY DivMod, KernelTimeAssumption
<1> HIDE DEF q, m
<1>2. t.s \in Nat /\ t.ms \in Nat
  BY KernelTimeAssumption DEF Time
<1>3. (t.s + q) * MsPerS = t.s * MsPerS + q * MsPerS
  BY <1>1, <1>2, KernelTimeAssumption
<1>4. [s |-> t.s + q, ms |-> m] \in Time
  BY <1>1, <1>2 DEF Time
<1>5. Ms([s |-> t.s + q, ms |-> m]) = Ms(t) + d
  BY <1>1, <1>2, <1>3, KernelTimeAssumption DEF Ms
<1> QED
  BY <1>4, <1>5 DEF q, m

\* __haddock_increment_time_tick_now() adds to the clock, with the carry.
THEOREM IncrementAdds ==
    ASSUME NEW t \in Time, NEW d \in Nat
    PROVE  /\ __haddock_increment_time_tick_now(t, d) \in Time
           /\ Ms(__haddock_increment_time_tick_now(t, d)) = Ms(t) + d
<1>1. t.ms + d \in Nat /\ t.s \in Nat /\ t.ms \in Nat
  BY KernelTimeAssumption DEF Time
<1>2. CASE t.ms + d >= MsPerS
  BY <1>1, <1>2, AddedMs DEF __haddock_increment_time_tick_now
<1>3. CASE t.ms + d < MsPerS
  BY <1>1, <1>3, KernelTimeAssumption DEF __haddock_increment_time_tick_now, Time, Ms
<1> QED
  BY <1>1, <1>2, <1>3, KernelTimeAssumption

\* A timer that is set to d ms fires d ms after the clock's present time.
LEMMA TimeoutIsLater ==
    ASSUME NEW t \in Time, NEW d \in Nat
    PROVE  /\ __haddock_calc_timeout_value(t, d) \in Time
           /\ Ms(__haddock_calc_timeout_value(t, d)) = Ms(t) + d
<1>1. t.ms + d \in Nat /\ d + t.ms = t.ms + d
  BY KernelTimeAssumption DEF Time
<1> QED
  BY <1>1, AddedMs DEF __haddock_calc_timeout_value

LEMMA DifferenceOfTimes ==
    ASSUME NEW a \in Time, NEW b \in Time, time_tick_less_than(b, a)
    PROVE  LET d == IF a.ms >= b.ms
                    THEN [s |-> a.s - b.s, ms |-> a.ms - b.ms]
                    ELSE [s |-> a.s - b.s - 1, ms |-> (MsPerS - b.ms) + a.ms]
           IN  d \in Time /\ Ms(d) = Ms(a) - Ms(b)
<1>1. /\ a.s \in Nat /\ b.s \in Nat /\ MsPerS \in Nat \ {0}
      /\ a.ms \in 0..(MsPerS - 1) /\ b.ms \in 0..(MsPerS - 1)
  BY KernelTimeAssumption DEF Time
<1>2. CASE a.ms >= b.ms
  <2>1. a.s - b.s \in Nat /\ a.ms - b.ms \in 0..(MsPerS - 1)
    BY <1>1, <1>2 DEF time_tick_less_than
  <2>2. (a.s - b.s) * MsPerS = a.s * MsPerS - b.s * MsPerS
    BY <1>1
  <2> QED
    BY <1>1, <1>2, <2>1, <2>2 DEF Time, Ms
<1>3. CASE a.ms < b.ms
  <2>1. a.s - b.s - 1 \in Nat /\ (MsPerS - b.ms) + a.ms \in 0..(MsPerS - 1)
    BY <1>1, <1>3 DEF time_tick_less_than
  <2>2. (a.s - b.s - 1) * MsPerS = a.s * MsPerS - b.s * MsPerS - MsPerS
    BY <1>1
  <2> QED
    BY <1>1, <1>3, <2>1, <2>2 DEF Time, Ms
<1> QED
  BY <1>1, <1>2, <1>3

\* haddock_time_calc_delta() returns a time, and it is the distance of its
\* arguments, with the sign of their difference.
THEOREM DeltaIsDistance ==
    ASSUME NEW t1 \in Time, NEW t2 \in Time
    PROVE  LET r == haddock_time_calc_delta(t1, t2)
           IN  r.delta \in Time /\ Ms(t1) - Ms(t2) = r.sign * Ms(r.delta)
<1>1. CASE t1 = t2
  <2>1. [s |-> 0, ms |-> 0] \in Time /\ Ms([s |-> 0, ms |-> 0]) = 0
    BY KernelTimeAssumption DEF Time, Ms
  <2> QED
    BY <1>1, <2>1, MsType DEF haddock_time_calc_delta
<1>2. CASE t1 # t2 /\ time_tick_less_than(t2, t1)
  <2> DEFINE r == haddock_time_calc_delta(t1, t2)
  <2>1. r.delta \in Time /\ Ms(r.delta) = Ms(t1) - Ms(t2) /\ r.sign = 1
    BY <1>2, DifferenceOfTimes DEF haddock_time_calc_delta
  <2> HIDE DEF r
  <2>2. Ms(t1) - Ms(t2) = r.sign * Ms(r.delta)
    BY <2>1, MsType
  <2> QED
    BY <2>1, <2>2 DEF r
<1>3. CASE t1 # t2 /\ ~ time_tick_less_than(t2, t1)
  <2>1. time_tick_less_than(t1, t2)
    BY <1>3, ComparisonIsOfMs, MsType
  <2>2. LET r == haddock_time_calc_delta(t1, t2)
        IN  r.delta \in Time /\ Ms(r.delta) = Ms(t2) - Ms(t1) /\ r.sign = -1
    BY <1>3, <2>1, DifferenceOfTimes DEF haddock_time_calc_delta
  <2> DEFINE r == haddock_time_calc_delta(t1, t2)
  <2>3. r.delta \in Time /\ Ms(r.delta) = Ms(t2) - Ms(t1) /\ r.sign = -1
    BY <2>2
  <2> HIDE DEF r
  <2>4. Ms(t1) - Ms(t2) = r.sign * Ms(r.delta)
    BY <2>3, MsType
  <2> QED
    BY <2>3, <2>4 DEF r
<1> QED
  BY <1>1, <1>2, <1>3

----------------------------------------------------------------------------
(* The invariant                                                          *)

\* Nothing is due at the time of the last update, so that it need not be
\* looked at again until the clock moves.
UpdatedOnce ==
    /\ last_update # Never => Ms(last_update) <= Ms(haddock_time_tick_now)
    /\ last_update = haddock_time_tick_now =>
          \A i \in DOMAIN haddock_timer_list : ~ DueAt(haddock_time_tick_now, haddock_timer_list[i])

ClockInv == TypeOK /\ TickExact /\ ClockLag
ListInv == Sorted /\ UpdatedOnce /\ NoneOverdue

IInv == ClockInv /\ ListInv

\* The list and the loop as the clock's part of a step leaves them.
LEMMA InitInvariant == Init => IInv
<1> SUFFICES ASSUME Init PROVE IInv
  OBVIOUS
<1>1. [s |-> 0, ms |-> 0] \in Time /\ Ms([s |-> 0, ms |-> 0]) = 0
  BY KernelTimeAssumption DEF Time, Ms
<1>2. Never # [s |-> 0, ms |-> 0]
  BY DEF Never
<1>3. haddock_timer_list = <<>> /\ DOMAIN haddock_timer_list = {}
  BY DEF Init
<1>4. TypeOK
  BY <1>1, <1>3, KernelTimeAssumption, KernelAssumption DEF Init, TypeOK, Steps, Nobody, Process
<1>5. TickExact
  BY KernelTimeAssumption DEF Init, TickExact
<1>6. ClockLag
  BY <1>1, KernelTimeAssumption DEF Init, ClockLag
<1> QED
  BY <1>2, <1>3, <1>4, <1>5, <1>6
     DEF Init, IInv, ClockInv, ListInv, Sorted, UpdatedOnce, NoneOverdue

LEMMA ReadClock ==
    ASSUME ClockInv, haddock_get_time_tick_now, UNCHANGED systick
    PROVE  /\ systick_prev' \in 0..(TICKS - 1)
           /\ haddock_time_tick_now' \in Time
           /\ Ms(haddock_time_tick_now') >= Ms(haddock_time_tick_now)
           /\ TickExact' /\ ClockLag'
<1> DEFINE e == ElapsedTicks(systick_prev, u32Ms)
<1>1. /\ u32Ms \in 0..(TICKS - 1) /\ systick_prev \in 0..(TICKS - 1) /\ TICKS \in Nat \ {0}
      /\ haddock_time_tick_now \in Time /\ overflows \in Nat
  BY KernelTimeAssumption DEF ClockInv, TypeOK
<1>2. e \in Nat
  BY <1>1 DEF ElapsedTicks
<1>3. /\ haddock_time_tick_now' \in Time
      /\ Ms(haddock_time_tick_now') = Ms(haddock_time_tick_now) + e
  <2>1. CASE u32Ms = systick_prev
    BY <1>1, <2>1, MsType DEF haddock_get_time_tick_now, ElapsedTicks
  <2>2. CASE u32Ms # systick_prev
    BY <1>1, <1>2, <2>2, IncrementAdds DEF haddock_get_time_tick_now
  <2> QED
    BY <2>1, <2>2
<1>4. TickExact'
  BY DEF ClockInv, TickExact, systick
<1>5. ClockLag'
  <2>1. systick_prev' = u32Ms /\ u32Ms' = u32Ms /\ overflows' = overflows
    BY DEF haddock_get_time_tick_now, systick
  <2>2. CASE systick_prev <= u32Ms
    BY <1>1, <1>3, <2>1, <2>2, MsType DEF ClockInv, ClockLag, ElapsedTicks
  <2>3. CASE systick_prev > u32Ms
    <3>1. (overflows - 1) * (TICKS - 1) = overflows * (TICKS - 1) - (TICKS - 1)
      BY <1>1
    <3> QED
      BY <1>1, <1>3, <2>1, <2>3, <3>1, MsType DEF ClockInv, ClockLag, ElapsedTicks
  <2> QED
    BY <1>1, <2>2, <2>3
<1> QED
  BY <1>1, <1>2, <1>3, <1>4, <1>5, MsType DEF haddock_get_time_tick_now

LEMMA InterruptInvariant == IInv /\ HAL_LPTIM_AutoReloadMatchCallback => IInv'
<1> SUFFICES ASSUME IInv, HAL_LPTIM_AutoReloadMatchCallback PROVE IInv'
  OBVIOUS
<1> USE DEF HAL_LPTIM_AutoReloadMatchCallback
<1>1. /\ u32Ms \in 0..(TICKS - 1) /\ systick_prev \in 0..(TICKS - 1) /\ TICKS \in Nat \ {0}
      /\ u32delta \in Nat /\ RELOAD_CNT \in Nat /\ CNT_PER_MS \in Nat \ {0}
      /\ haddock_time_tick_now \in Time /\ overflows \in Nat /\ interrupts \in Nat
  BY KernelTimeAssumption DEF IInv, ClockInv, TypeOK
<1> DEFINE q == (u32delta + RELOAD_CNT) \div CNT_PER_MS
           r == (u32delta + RELOAD_CNT) % CNT_PER_MS
<1>2. q \in Nat /\ r \in 0..(CNT_PER_MS - 1) /\ u32delta + RELOAD_CNT = q * CNT_PER_MS + r
  <2>1. u32delta + RELOAD_CNT \in Nat
    BY <1>1
  <2> QED
    BY <1>1, <2>1, DivMod
<1>3. /\ NextMs = u32Ms + q /\ NextDelta = r
  BY DEF NextMs, NextDelta
<1> HIDE DEF q, r
<1>4. u32Ms + q < TICKS \/ u32Ms + q - TICKS < systick_prev
  BY <1>1, <1>2, <1>3 DEF Unread
<1>5. u32Ms' \in 0..(TICKS - 1) /\ u32delta' \in 0..(CNT_PER_MS - 1)
  BY <1>1, <1>2, <1>3, <1>4
<1>6. overflows' * TICKS + u32Ms' = overflows * TICKS + u32Ms + q
  <2>1. (overflows + 1) * TICKS = overflows * TICKS + TICKS
    BY <1>1
  <2> QED
    BY <1>1, <1>2, <1>3, <2>1
<1>7. TickExact'
  <2> DEFINE n == overflows * TICKS + u32Ms
  <2>1. n \in Nat /\ overflows' * TICKS + u32Ms' = n + q
    BY <1>1, <1>6
  <2>2. n * CNT_PER_MS + u32delta = interrupts * RELOAD_CNT
    BY DEF IInv, ClockInv, TickExact
  <2> HIDE DEF n
  <2>3. (n + q) * CNT_PER_MS = n * CNT_PER_MS + q * CNT_PER_MS
    BY <1>1, <1>2, <2>1
  <2>4. (interrupts + 1) * RELOAD_CNT = interrupts * RELOAD_CNT + RELOAD_CNT
    BY <1>1
  <2>5. (n + q) * CNT_PER_MS + r = (interrupts + 1) * RELOAD_CNT
    BY <1>1, <1>2, <2>1, <2>2, <2>3, <2>4
  <2> QED
    BY <1>3, <2>1, <2>5 DEF TickExact
<1>8. ClockLag'
  <2>1. UNCHANGED <<systick_prev, haddock_time_tick_now>>
    BY DEF clock
  <2>2. CASE NextMs < TICKS
    <3>1. systick_prev <= u32Ms <=> systick_prev <= u32Ms + q
      BY <1>1, <1>2, <1>3, <2>2 DEF Unread
    <3> QED
      BY <1>3, <2>1, <2>2, <3>1 DEF IInv, ClockInv, ClockLag
  <2>3. CASE ~ NextMs < TICKS
    <3>1. systick_prev <= u32Ms /\ ~ systick_prev <= u32Ms + q - TICKS
      BY <1>1, <1>2, <1>3, <2>3 DEF Unread
    <3>2. overflows' - 1 = overflows /\ u32Ms' = u32Ms + q - TICKS
      <4>1. overflows' = overflows + 1 /\ u32Ms' = NextMs - TICKS
        BY <2>3
      <4> QED
        BY <1>1, <1>2, <1>3, <4>1
    <3> QED
      BY <2>1, <3>1, <3>2 DEF IInv, ClockInv, ClockLag
  <2> QED
    BY <2>2, <2>3
<1>9. TypeOK'
  BY <1>1, <1>3, <1>5 DEF IInv, ClockInv, TypeOK, clock, loop
<1>10. ListInv'
  BY DEF IInv, ListInv, Sorted, UpdatedOnce, NoneOverdue, DueAt, clock, loop
<1> QED
  BY <1>7, <1>8, <1>9, <1>10 DEF IInv, ClockInv

\* What is not due stays so while the clock only goes on where it must.
LEMMA NotDue ==
    ASSUME NEW time \in Time, NEW x \in TimerRecord
    PROVE  ~ DueAt(time, x) <=> Ms(time) < Ms(x.timeout_value)
BY ComparisonIsOfMs, MsType DEF TimerRecord, DueAt

LEMMA ListElements ==
    ASSUME TypeOK, NEW i \in DOMAIN haddock_timer_list
    PROVE  haddock_timer_list[i] \in TimerRecord /\ haddock_timer_list[i].timeout_value \in Time
<1>1. haddock_timer_list[i] \in TimerRecord
  BY DEF TypeOK
<1> QED
  BY <1>1 DEF TimerRecord

\* A step that leaves counter, clock and list alone and chooses no process.
LEMMA OtherStep ==
    ASSUME IInv, UNCHANGED <<systick, clock, last_update, haddock_timer_list>>,
           pc' = "schedule" => pc = "schedule", TypeOK'
    PROVE  IInv'
BY DEF IInv, ClockInv, ListInv, TickExact, ClockLag, Sorted, UpdatedOnce, NoneOverdue, DueAt,
       systick, clock

LEMMA ReadsClockInvariant == IInv /\ (ReadsClock \/ EntryReadsClock) => IInv'
<1> SUFFICES ASSUME IInv, ReadsClock \/ EntryReadsClock PROVE IInv'
  OBVIOUS
<1>1. /\ haddock_get_time_tick_now
      /\ UNCHANGED <<systick, last_update, haddock_timer_list, signal, running, taken>>
      /\ pc' # "schedule"
  BY DEF ReadsClock, EntryReadsClock, Calls
<1>2. ClockInv
  BY DEF IInv
<1>3. /\ systick_prev' \in 0..(TICKS - 1) /\ haddock_time_tick_now' \in Time
      /\ Ms(haddock_time_tick_now') >= Ms(haddock_time_tick_now)
      /\ TickExact' /\ ClockLag'
  BY <1>1, <1>2, ReadClock
<1>4. TypeOK'
  BY <1>1, <1>2, <1>3 DEF ReadsClock, EntryReadsClock, Calls, ClockInv, TypeOK, systick, Steps
<1>5. Sorted' /\ NoneOverdue'
  BY <1>1 DEF IInv, ListInv, Sorted, NoneOverdue
<1>6. UpdatedOnce'
  <2>1. haddock_time_tick_now \in Time /\ last_update \in Time \cup {Never}
    BY <1>2 DEF ClockInv, TypeOK
  <2>2. last_update' # Never => Ms(last_update') <= Ms(haddock_time_tick_now')
    BY <1>1, <1>3, <2>1, MsType DEF IInv, ListInv, UpdatedOnce
  <2>3. ASSUME last_update' = haddock_time_tick_now'
        PROVE  haddock_time_tick_now' = haddock_time_tick_now
    <3>1. last_update # Never
      BY <1>1, <1>3, <2>3 DEF Time, Never
    <3>2. Ms(last_update) <= Ms(haddock_time_tick_now) /\ last_update = haddock_time_tick_now'
      BY <1>1, <2>3, <3>1 DEF IInv, ListInv, UpdatedOnce
    <3> QED
      BY <1>3, <2>1, <3>2, ComparisonIsOfMs, MsType
  <2> QED
    BY <1>1, <2>2, <2>3 DEF IInv, ListInv, UpdatedOnce, DueAt
<1> QED
  BY <1>3, <1>4, <1>5, <1>6 DEF IInv, ClockInv, ListInv

\* The walk over the sorted list stops at the first timer that is not due, and
\* no timer behind it is.
LEMMA RestNotDue ==
    ASSUME IInv, NEW n \in 0..Len(haddock_timer_list), FirstNotDue(n),
           NEW i \in DOMAIN haddock_timer_list, i > n
    PROVE  ~ DueAt(haddock_time_tick_now, haddock_timer_list[i])
<1>1. haddock_time_tick_now \in Time /\ haddock_timer_list \in Seq(TimerRecord)
  BY DEF IInv, ClockInv, TypeOK
<1>2. n + 1 \in DOMAIN haddock_timer_list /\ i \in Nat /\ i >= n + 1
  BY <1>1
<1>3. ~ DueAt(haddock_time_tick_now, haddock_timer_list[n + 1])
  BY <1>1, <1>2 DEF FirstNotDue
<1>4. TypeOK
  BY DEF IInv, ClockInv
<1>5. CASE i = n + 1
  BY <1>3, <1>5
<1>6. CASE i > n + 1
  <2>1. time_tick_less_or_equal(haddock_timer_list[n + 1].timeout_value,
                                haddock_timer_list[i].timeout_value)
    BY <1>2, <1>6 DEF IInv, ListInv, Sorted
  <2>2. Ms(haddock_timer_list[n + 1].timeout_value) <= Ms(haddock_timer_list[i].timeout_value)
    BY <1>2, <1>4, <2>1, ListElements, ComparisonIsOfMs
  <2>3. Ms(haddock_time_tick_now) < Ms(haddock_timer_list[n + 1].timeout_value)
    BY <1>1, <1>2, <1>3, <1>4, ListElements, NotDue
  <2>4. /\ Ms(haddock_time_tick_now) \in Nat
        /\ Ms(haddock_timer_list[n + 1].timeout_value) \in Nat
        /\ Ms(haddock_timer_list[i].timeout_value) \in Nat
    BY <1>1, <1>2, <1>4, ListElements, MsType
  <2> QED
    BY <1>1, <1>4, <2>2, <2>3, <2>4, ListElements, NotDue
<1> QED
  BY <1>2, <1>5, <1>6

LEMMA UpdatesTimersInvariant == IInv /\ UpdatesTimers => IInv'
<1> SUFFICES ASSUME IInv, UpdatesTimers PROVE IInv'
  OBVIOUS
<1>1. /\ UNCHANGED <<systick, clock, running, taken, calls>>
      /\ pc = "timers" /\ pc' = "schedule"
  BY DEF UpdatesTimers
<1>2. TickExact' /\ ClockLag'
  BY <1>1 DEF IInv, ClockInv, TickExact, ClockLag, systick, clock
<1>3. CASE /\ haddock_timer_list = <<>> \/ last_update = haddock_time_tick_now
           /\ UNCHANGED <<last_update, haddock_timer_list, signal>>
  <2>1. TypeOK'
    BY <1>1, <1>3 DEF IInv, ClockInv, TypeOK, systick, clock, Steps
  <2>2. Sorted' /\ UpdatedOnce'
    BY <1>1, <1>3 DEF IInv, ListInv, Sorted, UpdatedOnce, DueAt, clock
  <2>3. NoneOverdue'
    BY <1>1, <1>3 DEF IInv, ListInv, UpdatedOnce, NoneOverdue, DueAt, clock
  <2> QED
    BY <1>2, <2>1, <2>2, <2>3 DEF IInv, ClockInv, ListInv
<1>4. CASE /\ last_update' = haddock_time_tick_now
           /\ \E n \in 0..Len(haddock_timer_list) : FirstNotDue(n) /\ Fires(n)
  <2>1. PICK n \in 0..Len(haddock_timer_list) : FirstNotDue(n) /\ Fires(n)
    BY <1>4
  <2>2. haddock_time_tick_now \in Time /\ haddock_timer_list \in Seq(TimerRecord)
    BY DEF IInv, ClockInv, TypeOK
  <2>3. /\ haddock_timer_list' \in Seq(TimerRecord)
        /\ DOMAIN haddock_timer_list' = 1..(Len(haddock_timer_list) - n)
        /\ \A i \in DOMAIN haddock_timer_list' :
              /\ i + n \in DOMAIN haddock_timer_list /\ i + n > n
              /\ haddock_timer_list'[i] = haddock_timer_list[i + n]
    BY <2>1, <2>2 DEF Fires
  <2>4. signal' \in [Process -> SUBSET Signal]
    BY <2>1 DEF Fires, IInv, ClockInv, TypeOK
  <2>5. TypeOK'
    BY <1>1, <1>4, <2>2, <2>3, <2>4 DEF IInv, ClockInv, TypeOK, systick, clock, Steps
  <2>6. Sorted'
    <3> SUFFICES ASSUME NEW i \in DOMAIN haddock_timer_list', NEW j \in DOMAIN haddock_timer_list',
                        i < j
                 PROVE  /\ haddock_timer_list'[i].timer # haddock_timer_list'[j].timer
                        /\ time_tick_less_or_equal(haddock_timer_list'[i].timeout_value,
                                                   haddock_timer_list'[j].timeout_value)
      BY DEF Sorted
    <3>1. i + n < j + n
      BY <2>3
    <3> QED
      BY <2>3, <3>1 DEF IInv, ListInv, Sorted
  <2>7. \A i \in DOMAIN haddock_timer_list' : ~ DueAt(haddock_time_tick_now, haddock_timer_list'[i])
    BY <2>1, <2>3, RestNotDue
  <2>8. UpdatedOnce' /\ NoneOverdue'
    BY <1>1, <1>4, <2>2, <2>7, MsType DEF UpdatedOnce, NoneOverdue, DueAt, clock
  <2> QED
    BY <1>2, <2>5, <2>6, <2>8 DEF IInv, ClockInv, ListInv
<1> QED
  BY <1>3, <1>4 DEF UpdatesTimers, haddock_timer_update_routine

LEMMA StartsTimerInvariant ==
    ASSUME IInv, NEW t \in Timer, NEW x \in Targets, NEW d \in Delay, StartsTimer(t, x, d)
    PROVE  IInv'
<1> DEFINE list == haddock_timer_list
           now == haddock_time_tick_now
           timeout == __haddock_calc_timeout_value(now, d)
           new == [timer |-> t, timeout_value |-> timeout, target |-> x]
<1>1. /\ UNCHANGED <<systick, clock, last_update, pc, running, taken, signal>>
      /\ calls' = calls + 1 /\ pc = "entry" /\ ~ Started(t)
  BY DEF StartsTimer, Calls
<1>2. PICK k \in 0..Len(list) :
         Position(list, k, timeout) /\ haddock_timer_list' = InsertedBehind(list, k, new)
  BY DEF StartsTimer
<1>3. now \in Time /\ list \in Seq(TimerRecord) /\ TypeOK /\ calls \in Nat
  BY DEF IInv, ClockInv, TypeOK
<1>4. timeout \in Time /\ Ms(timeout) > Ms(now) /\ new \in TimerRecord
  BY <1>3, TimeoutIsLater, MsType, KernelAssumption DEF TimerRecord
<1> HIDE DEF timeout, new
<1>5. new.timer = t /\ new.timeout_value = timeout
  BY DEF new
<1>6. /\ DOMAIN haddock_timer_list' = 1..(Len(list) + 1)
      /\ haddock_timer_list' \in Seq(TimerRecord)
      /\ \A i \in DOMAIN haddock_timer_list' :
            haddock_timer_list'[i] = IF i <= k THEN list[i] ELSE IF i = k + 1 THEN new ELSE list[i - 1]
  BY <1>2, <1>3, <1>4 DEF InsertedBehind
<1>7. ASSUME NEW i \in DOMAIN haddock_timer_list'
      PROVE  \/ i <= k /\ i \in DOMAIN list /\ haddock_timer_list'[i] = list[i]
             \/ i = k + 1 /\ haddock_timer_list'[i] = new
             \/ i > k + 1 /\ i - 1 \in DOMAIN list /\ haddock_timer_list'[i] = list[i - 1]
  BY <1>3, <1>6, <1>7
<1>8. \A i \in DOMAIN list :
         /\ list[i].timer # t
         /\ i <= k => Ms(list[i].timeout_value) <= Ms(timeout)
         /\ i > k => Ms(timeout) <= Ms(list[i].timeout_value)
  <2> TAKE i \in DOMAIN list
  <2>1. list[i].timer # t
    BY <1>1 DEF Started
  <2>2. ASSUME i <= k PROVE Ms(list[i].timeout_value) <= Ms(timeout)
    <3>1. time_tick_less_or_equal(list[i].timeout_value, timeout)
      BY <1>2, <1>3, <2>2 DEF Position
    <3> QED
      BY <1>3, <1>4, <3>1, ListElements, ComparisonIsOfMs
  <2>3. ASSUME i > k PROVE Ms(timeout) <= Ms(list[i].timeout_value)
    <3>1. k + 1 \in DOMAIN list /\ k < Len(list) /\ i \in Nat
      BY <1>3, <2>3
    <3>2. time_tick_less_than(timeout, list[k + 1].timeout_value)
      BY <1>2, <3>1 DEF Position
    <3>3. Ms(timeout) < Ms(list[k + 1].timeout_value)
      BY <1>3, <1>4, <3>1, <3>2, ListElements, ComparisonIsOfMs
    <3>4. CASE i > k + 1
      <4>1. time_tick_less_or_equal(list[k + 1].timeout_value, list[i].timeout_value)
        BY <3>1, <3>4 DEF IInv, ListInv, Sorted
      <4>2. Ms(list[k + 1].timeout_value) <= Ms(list[i].timeout_value)
        BY <1>3, <3>1, <4>1, ListElements, ComparisonIsOfMs
      <4>3. Ms(list[k + 1].timeout_value) \in Nat /\ Ms(list[i].timeout_value) \in Nat
        BY <1>3, <3>1, ListElements, MsType
      <4> QED
        BY <1>4, <3>3, <4>2, <4>3, MsType
    <3>5. Ms(list[k + 1].timeout_value) \in Nat
      BY <1>3, <3>1, ListElements, MsType
    <3> QED
      BY <1>4, <2>3, <3>1, <3>3, <3>4, <3>5, MsType
  <2> QED
    BY <2>1, <2>2, <2>3
<1>9. TypeOK'
  BY <1>1, <1>3, <1>6 DEF TypeOK, systick, clock
<1>10. Sorted'
  <2> SUFFICES ASSUME NEW i \in DOMAIN haddock_timer_list', NEW j \in DOMAIN haddock_timer_list',
                      i < j
               PROVE  /\ haddock_timer_list'[i].timer # haddock_timer_list'[j].timer
                      /\ time_tick_less_or_equal(haddock_timer_list'[i].timeout_value,
                                                 haddock_timer_list'[j].timeout_value)
    BY DEF Sorted
  <2>1. i \in Nat /\ j \in Nat /\ k \in Nat
    BY <1>3, <1>6
  <2>2. \A a, b \in DOMAIN list : a < b =>
          /\ list[a].timer # list[b].timer
          /\ time_tick_less_or_equal(list[a].timeout_value, list[b].timeout_value)
    BY DEF IInv, ListInv, Sorted
  <2>3. CASE i = k + 1
    <3>1. haddock_timer_list'[i] = new
      BY <1>7, <2>1, <2>3
    <3>2. j - 1 \in DOMAIN list /\ haddock_timer_list'[j] = list[j - 1] /\ j - 1 > k
      BY <1>7, <2>1, <2>3
    <3> QED
      BY <1>3, <1>4, <1>5, <1>8, <3>1, <3>2, ListElements, ComparisonIsOfMs
  <2>4. CASE j = k + 1
    <3>1. haddock_timer_list'[j] = new
      BY <1>7, <2>1, <2>4
    <3>2. i \in DOMAIN list /\ haddock_timer_list'[i] = list[i] /\ i <= k
      BY <1>7, <2>1, <2>4
    <3> QED
      BY <1>3, <1>4, <1>5, <1>8, <3>1, <3>2, ListElements, ComparisonIsOfMs
  <2>5. CASE i # k + 1 /\ j # k + 1
    <3>1. PICK a \in DOMAIN list : haddock_timer_list'[i] = list[a] /\ a = IF i <= k THEN i ELSE i - 1
      BY <1>7, <2>1, <2>5
    <3>2. PICK b \in DOMAIN list : haddock_timer_list'[j] = list[b] /\ b = IF j <= k THEN j ELSE j - 1
      BY <1>7, <2>1, <2>5
    <3>3. a < b
      BY <2>1, <2>5, <3>1, <3>2
    <3> QED
      BY <2>2, <3>1, <3>2, <3>3
  <2> QED
    BY <2>3, <2>4, <2>5
<1>11. UpdatedOnce' /\ NoneOverdue'
  <2>1. ~ DueAt(now, new)
    BY <1>3, <1>4, <1>5, NotDue
  <2> QED
    BY <1>1, <1>7, <2>1 DEF IInv, ListInv, UpdatedOnce, NoneOverdue, DueAt, clock
<1> QED
  BY <1>1, <1>9, <1>10, <1>11 DEF IInv, ClockInv, ListInv, TickExact, ClockLag, systick, clock

LEMMA StopsTimerInvariant ==
    ASSUME IInv, NEW t \in Timer, os_timer_stop(t)
    PROVE  IInv'
<1> DEFINE list == haddock_timer_list
<1>1. /\ UNCHANGED <<systick, clock, last_update, pc, running, taken, signal>>
      /\ calls' = calls + 1 /\ pc = "entry"
  BY DEF os_timer_stop, Calls
<1>2. PICK k \in DOMAIN list :
         haddock_timer_list' = [i \in 1..(Len(list) - 1) |-> list[IF i < k THEN i ELSE i + 1]]
  BY DEF os_timer_stop
<1>3. list \in Seq(TimerRecord) /\ TypeOK /\ k \in Nat /\ calls \in Nat
  BY DEF IInv, ClockInv, TypeOK
<1>4. /\ haddock_timer_list' \in Seq(TimerRecord)
      /\ \A i \in DOMAIN haddock_timer_list' :
            /\ i \in Nat
            /\ (IF i < k THEN i ELSE i + 1) \in DOMAIN list
            /\ haddock_timer_list'[i] = list[IF i < k THEN i ELSE i + 1]
  BY <1>2, <1>3
<1>5. TypeOK'
  BY <1>1, <1>3, <1>4 DEF TypeOK, systick, clock
<1>6. Sorted'
  <2> SUFFICES ASSUME NEW i \in DOMAIN haddock_timer_list', NEW j \in DOMAIN haddock_timer_list',
                      i < j
               PROVE  /\ haddock_timer_list'[i].timer # haddock_timer_list'[j].timer
                      /\ time_tick_less_or_equal(haddock_timer_list'[i].timeout_value,
                                                 haddock_timer_list'[j].timeout_value)
    BY DEF Sorted
  <2>1. (IF i < k THEN i ELSE i + 1) < (IF j < k THEN j ELSE j + 1)
    BY <1>3, <1>4
  <2> QED
    BY <1>4, <2>1 DEF IInv, ListInv, Sorted
<1>7. UpdatedOnce' /\ NoneOverdue'
  BY <1>1, <1>4 DEF IInv, ListInv, UpdatedOnce, NoneOverdue, DueAt, clock
<1> QED
  BY <1>1, <1>5, <1>6, <1>7 DEF IInv, ClockInv, ListInv, TickExact, ClockLag, systick, clock

\* The steps that only pass signals.
SignalStep ==
    \/ NothingToRun \/ EntryReturns
    \/ \E p \in Process, s \in Signal :
          Runs(p, s) \/ InterruptSetsSignal(p, s) \/ os_ipc_set_signal(p, s)

LEMMA SignalInvariant == IInv /\ SignalStep => IInv'
<1> SUFFICES ASSUME IInv, SignalStep PROVE IInv'
  OBVIOUS
<1>1. TypeOK /\ Nobody \notin Process
  BY DEF IInv, ClockInv, Nobody, Process
<1>2. CASE NothingToRun
  <2>1. TypeOK'
    BY <1>1, <1>2 DEF NothingToRun, TypeOK, systick, clock, Steps
  <2> QED
    BY <1>2, <2>1, OtherStep DEF NothingToRun
<1>3. CASE EntryReturns
  <2>1. signal[running] \in SUBSET Signal /\ taken \in SUBSET Signal /\ signal \in [Process -> SUBSET Signal]
    BY <1>1, <1>3 DEF EntryReturns, TypeOK
  <2>2. signal' \in [Process -> SUBSET Signal]
    BY <1>3, <2>1 DEF EntryReturns, Merged
  <2>3. TypeOK'
    BY <1>1, <1>3, <2>2 DEF EntryReturns, TypeOK, systick, clock, Steps
  <2> QED
    BY <1>3, <2>3, OtherStep DEF EntryReturns
<1>4. ASSUME NEW p \in Process, NEW s \in Signal, Runs(p, s) PROVE IInv'
  <2>1. TypeOK'
    BY <1>1, <1>4 DEF Runs, TypeOK, systick, clock, Steps
  <2> QED
    BY <1>4, <2>1, OtherStep DEF Runs
<1>5. ASSUME NEW p \in Process, NEW s \in Signal, InterruptSetsSignal(p, s) PROVE IInv'
  <2>1. TypeOK'
    BY <1>1, <1>5 DEF InterruptSetsSignal, TypeOK, systick, clock, loop
  <2> QED
    BY <1>5, <2>1, OtherStep DEF InterruptSetsSignal, loop
<1>6. ASSUME NEW p \in Process, NEW s \in Signal, os_ipc_set_signal(p, s) PROVE IInv'
  <2>1. TypeOK'
    BY <1>1, <1>6 DEF os_ipc_set_signal, Calls, TypeOK, systick, clock
  <2> QED
    BY <1>6, <2>1, OtherStep DEF os_ipc_set_signal, Calls
<1> QED
  BY <1>2, <1>3, <1>4, <1>5, <1>6 DEF SignalStep

LEMMA NextInvariant == IInv /\ [Next]_vars => IInv'
<1> SUFFICES ASSUME IInv, [Next]_vars PROVE IInv'
  OBVIOUS
<1>1. CASE SignalStep
  BY <1>1, SignalInvariant
<1>2. CASE UNCHANGED vars
  <2>1. TypeOK'
    BY <1>2 DEF IInv, ClockInv, TypeOK, vars, systick, clock, loop
  <2> QED
    BY <1>2, <2>1, OtherStep DEF vars, loop
<1>3. CASE HAL_LPTIM_AutoReloadMatchCallback
  BY <1>3, InterruptInvariant
<1>4. CASE ReadsClock \/ EntryReadsClock
  BY <1>4, ReadsClockInvariant
<1>5. CASE UpdatesTimers
  BY <1>5, UpdatesTimersInvariant
<1>6. ASSUME NEW t \in Timer, os_timer_stop(t) PROVE IInv'
  BY <1>6, StopsTimerInvariant
<1>7. ASSUME NEW t \in Timer, NEW x \in Targets, NEW d \in Delay, StartsTimer(t, x, d) PROVE IInv'
  BY <1>7, StartsTimerInvariant
<1> QED
  BY <1>1, <1>2, <1>3, <1>4, <1>5, <1>6, <1>7 DEF Next, Loop, EntryCalls, SignalStep

\* The inductive invariant of the kernel.
THEOREM Invariance == Spec => []IInv
BY InitInvariant, NextInvariant, PTL DEF Spec

\* The type invariant.
THEOREM TypeCorrect == Spec => []TypeOK
BY Invariance, PTL DEF IInv, ClockInv

\* The counter is the time of all interrupts (systick.c).
THEOREM CounterIsExact == Spec => []TickExact
BY Invariance, PTL DEF IInv, ClockInv

\* The clock loses a millisecond with every overflow of the counter (timer.c:560).
THEOREM ClockLosesOneMsPerOverflow == Spec => []ClockLag
BY Invariance, PTL DEF IInv, ClockInv

\* The clock is the time of all interrupts, less what the overflows cost.
THEOREM TimeIsKept == Spec => []TimeKept
BY CounterIsExact, ClockLosesOneMsPerOverflow, PTL DEF TimeKept

\* The list is sorted and holds a timer once.
THEOREM ListIsSorted == Spec => []Sorted
BY Invariance, PTL DEF IInv, ListInv

\* No process is chosen while a timer is due.
THEOREM TimersBeforeProcesses == Spec => []NoneOverdue
BY Invariance, PTL DEF IInv, ListInv

----------------------------------------------------------------------------
(* The service                                                            *)

\* A timer of the list as the service sees it.
Seen(x) == [timer |-> x.timer, at |-> Ms(x.timeout_value), target |-> x.target]

LEMMA ArmedElements ==
    /\ Armed = {Seen(haddock_timer_list[i]) : i \in DOMAIN haddock_timer_list}
    /\ Armed' = {Seen(haddock_timer_list'[i]) : i \in DOMAIN haddock_timer_list'}
BY DEF Armed, Seen

Pending == [p \in Process |-> Unhandled(p)]

LEMMA DueTimers ==
    ASSUME IInv
    PROVE  Service!Due = {Seen(haddock_timer_list[i]) :
                             i \in {j \in DOMAIN haddock_timer_list :
                                       DueAt(haddock_time_tick_now, haddock_timer_list[j])}}
<1>1. haddock_time_tick_now \in Time /\ TypeOK
  BY DEF IInv, ClockInv, TypeOK
<1>2. ASSUME NEW i \in DOMAIN haddock_timer_list
      PROVE  DueAt(haddock_time_tick_now, haddock_timer_list[i])
             <=> Seen(haddock_timer_list[i]).at <= Ms(haddock_time_tick_now)
  BY <1>1, ListElements, ComparisonIsOfMs DEF DueAt, Seen
<1> QED
  BY <1>2, ArmedElements DEF Service!Due

LEMMA InitImplements == Init => Service!Init
<1> SUFFICES ASSUME Init PROVE Service!Init
  OBVIOUS
<1>1. Ms(haddock_time_tick_now) = 0
  BY KernelTimeAssumption DEF Init, Ms
<1>2. Armed = {}
  BY DEF Init, Armed
<1>3. Pending \in [Process -> SUBSET Signal]
  BY DEF Init, Pending, Unhandled
<1> QED
  BY <1>1, <1>2, <1>3 DEF Service!Init, Pending

LEMMA FireImplements ==
    ASSUME IInv, UpdatesTimers
    PROVE  Service!Fire \/ UNCHANGED Service!vars
<1> DEFINE list == haddock_timer_list
<1>1. UNCHANGED <<haddock_time_tick_now, running, taken>>
  BY DEF UpdatesTimers, clock
<1>2. CASE UNCHANGED <<haddock_timer_list, signal>>
  <2>1. Pending' = Pending /\ Armed' = Armed
    BY <1>1, <1>2 DEF Pending, Unhandled, Armed
  <2> QED
    BY <1>1, <2>1 DEF Service!vars, Pending, Ms
<1>3. CASE \E n \in 0..Len(list) : FirstNotDue(n) /\ Fires(n)
  <2>1. PICK n \in 0..Len(list) : FirstNotDue(n) /\ Fires(n)
    BY <1>3
  <2>2. list \in Seq(TimerRecord) /\ TypeOK
    BY DEF IInv, ClockInv, TypeOK
  <2>3. \A i \in DOMAIN list : DueAt(haddock_time_tick_now, list[i]) <=> i \in 1..n
    BY <2>1, <2>2, RestNotDue DEF FirstNotDue
  <2>4. Service!Due = {Seen(list[i]) : i \in 1..n}
    BY <2>2, <2>3, DueTimers
  <2>5. Armed' = {Seen(list[i]) : i \in (n + 1)..Len(list)}
    <3>1. DOMAIN haddock_timer_list' = 1..(Len(list) - n)
      BY <2>1, <2>2 DEF Fires
    <3>2. \A i \in 1..(Len(list) - n) : haddock_timer_list'[i] = list[i + n]
      BY <2>1 DEF Fires
    <3>3. {Seen(haddock_timer_list'[i]) : i \in 1..(Len(list) - n)}
          = {Seen(list[i]) : i \in (n + 1)..Len(list)}
      <4>1. \A i \in (n + 1)..Len(list) : i - n \in 1..(Len(list) - n) /\ (i - n) + n = i
        BY <2>2
      <4>2. \A i \in 1..(Len(list) - n) : i + n \in (n + 1)..Len(list)
        BY <2>2
      <4> QED
        BY <3>2, <4>1, <4>2
    <3> QED
      BY <3>1, <3>3, ArmedElements
  <2>6. Armed' = Armed \ Service!Due
    <3>1. \A i \in 1..n, j \in (n + 1)..Len(list) : Seen(list[i]) # Seen(list[j])
      BY <2>2 DEF Seen, IInv, ListInv, Sorted
    <3>2. DOMAIN list = (1..n) \cup ((n + 1)..Len(list))
      <4>1. DOMAIN list = 1..Len(list) /\ Len(list) \in Nat /\ n \in Nat /\ n <= Len(list)
        BY <2>2
      <4> QED
        BY <4>1
    <3> QED
      BY <2>4, <2>5, <3>1, <3>2, ArmedElements
  <2>7. Pending' = [p \in Process |->
                      Pending[p] \cup {s \in Signal : \E x \in Service!Due : x.target = <<p, s>>}]
    <3>1. ASSUME NEW p \in Process
          PROVE  {s \in Signal : \E x \in Service!Due : x.target = <<p, s>>}
                 = {s \in Signal : \E i \in 1..n : list[i].target = <<p, s>>}
      <4>1. \A i \in 1..n : Seen(list[i]).target = list[i].target
        BY DEF Seen
      <4>2. \A s \in Signal : (\E x \in Service!Due : x.target = <<p, s>>)
                               <=> \E i \in 1..n : Seen(list[i]).target = <<p, s>>
        BY <2>4
      <4> QED
        BY <4>1, <4>2
    <3>2. ASSUME NEW p \in Process
          PROVE  signal'[p] = signal[p] \cup {s \in Signal : \E i \in 1..n : list[i].target = <<p, s>>}
      BY <2>1 DEF Fires
    <3> QED
      BY <1>1, <3>1, <3>2 DEF Pending, Unhandled
  <2> QED
    BY <1>1, <2>6, <2>7 DEF Service!Fire, Pending, Ms
<1> QED
  BY <1>2, <1>3 DEF UpdatesTimers, haddock_timer_update_routine

LEMMA StartImplements ==
    ASSUME IInv, NEW t \in Timer, NEW x \in Targets, NEW d \in Delay, StartsTimer(t, x, d)
    PROVE  Service!Start(t, x, d)
<1> DEFINE list == haddock_timer_list
           timeout == __haddock_calc_timeout_value(haddock_time_tick_now, d)
           new == [timer |-> t, timeout_value |-> timeout, target |-> x]
<1>1. PICK k \in 0..Len(list) : haddock_timer_list' = InsertedBehind(list, k, new)
  BY DEF StartsTimer
<1>2. list \in Seq(TimerRecord) /\ haddock_time_tick_now \in Time
  BY DEF IInv, ClockInv, TypeOK
<1>3. Seen(new) = [timer |-> t, at |-> Ms(haddock_time_tick_now) + d, target |-> x]
  BY <1>2, TimeoutIsLater, KernelAssumption DEF Seen
<1> HIDE DEF new
<1>4. /\ DOMAIN haddock_timer_list' = 1..(Len(list) + 1)
      /\ \A i \in 1..(Len(list) + 1) :
            haddock_timer_list'[i] = IF i <= k THEN list[i] ELSE IF i = k + 1 THEN new ELSE list[i - 1]
  BY <1>1, <1>2 DEF InsertedBehind
<1>5. \A i \in 1..Len(list) : \E j \in 1..(Len(list) + 1) : haddock_timer_list'[j] = list[i]
  <2> TAKE i \in 1..Len(list)
  <2>1. CASE i <= k
    BY <1>2, <1>4, <2>1
  <2>2. CASE i > k
    <3>1. i + 1 \in 1..(Len(list) + 1) /\ ~ i + 1 <= k /\ i + 1 # k + 1 /\ (i + 1) - 1 = i
      BY <1>2, <2>2
    <3> QED
      BY <1>4, <3>1
  <2> QED
    BY <1>2, <2>1, <2>2
<1>6. \A j \in 1..(Len(list) + 1) :
         haddock_timer_list'[j] = new \/ \E i \in 1..Len(list) : haddock_timer_list'[j] = list[i]
  BY <1>2, <1>4
<1>7. k + 1 \in 1..(Len(list) + 1) /\ haddock_timer_list'[k + 1] = new
  BY <1>2, <1>4
<1>8. Armed' = Armed \cup {Seen(new)}
  <2>1. DOMAIN list = 1..Len(list)
    BY <1>2
  <2> QED
    BY <1>4, <1>5, <1>6, <1>7, <2>1, ArmedElements
<1>9. \A y \in Armed : y.timer # t
  BY ArmedElements DEF StartsTimer, Started, Seen
<1>10. UNCHANGED <<haddock_time_tick_now, running, taken, signal>>
  BY DEF StartsTimer, Calls, clock
<1>11. Pending' = Pending
  BY <1>10 DEF Pending, Unhandled
<1> QED
  BY <1>3, <1>8, <1>9, <1>10, <1>11 DEF Service!Start, Pending, Ms

LEMMA StopImplements ==
    ASSUME IInv, NEW t \in Timer, os_timer_stop(t)
    PROVE  Service!Stop(t)
<1> DEFINE list == haddock_timer_list
<1>1. PICK k \in DOMAIN list :
         /\ list[k].timer = t
         /\ haddock_timer_list' = [i \in 1..(Len(list) - 1) |-> list[IF i < k THEN i ELSE i + 1]]
  BY DEF os_timer_stop
<1>2. list \in Seq(TimerRecord) /\ DOMAIN list = 1..Len(list) /\ Len(list) \in Nat
  BY DEF IInv, ClockInv, TypeOK
<1>3. DOMAIN haddock_timer_list' = 1..(Len(list) - 1)
  BY <1>1, <1>2
<1>4. \A i \in DOMAIN haddock_timer_list' :
         \E j \in DOMAIN list : j # k /\ haddock_timer_list'[i] = list[j]
  <2> TAKE i \in DOMAIN haddock_timer_list'
  <2> DEFINE j == IF i < k THEN i ELSE i + 1
  <2>1. j \in DOMAIN list /\ j # k
    BY <1>1, <1>2, <1>3
  <2>2. haddock_timer_list'[i] = list[j]
    BY <1>1, <1>3
  <2> QED
    BY <2>1, <2>2
<1>5. \A j \in DOMAIN list \ {k} :
         \E i \in DOMAIN haddock_timer_list' : haddock_timer_list'[i] = list[j]
  <2> TAKE j \in DOMAIN list \ {k}
  <2> DEFINE i == IF j < k THEN j ELSE j - 1
  <2>1. i \in 1..(Len(list) - 1) /\ (IF i < k THEN i ELSE i + 1) = j
    BY <1>1, <1>2
  <2> QED
    BY <1>1, <1>3, <2>1
<1>6. \A j \in DOMAIN list : list[j].timer = t <=> j = k
  BY <1>1, <1>2 DEF IInv, ListInv, Sorted
<1>7. Armed' = {y \in Armed : y.timer # t}
  <2>1. \A j \in DOMAIN list : Seen(list[j]).timer = list[j].timer
    BY DEF Seen
  <2>2. ASSUME NEW y \in Armed' PROVE y \in Armed /\ y.timer # t
    BY <1>4, <1>6, <2>1, <2>2, ArmedElements
  <2>3. ASSUME NEW y \in Armed, y.timer # t PROVE y \in Armed'
    <3>1. PICK j \in DOMAIN list : y = Seen(list[j])
      BY ArmedElements
    <3>2. j \in DOMAIN list \ {k}
      BY <1>6, <2>1, <2>3, <3>1
    <3> QED
      BY <1>5, <3>1, <3>2, ArmedElements
  <2> QED
    BY <2>2, <2>3
<1>8. UNCHANGED <<haddock_time_tick_now, running, taken, signal>>
  BY DEF os_timer_stop, Calls, clock
<1>9. Pending' = Pending
  BY <1>8 DEF Pending, Unhandled
<1> QED
  BY <1>7, <1>8, <1>9 DEF Service!Stop, Pending, Ms

LEMMA SignalImplements == IInv /\ SignalStep => [Service!Next]_(Service!vars)
<1> SUFFICES ASSUME IInv, SignalStep PROVE [Service!Next]_(Service!vars)
  OBVIOUS
<1>1. TypeOK /\ signal \in [Process -> SUBSET Signal] /\ Nobody \notin Process
  BY DEF IInv, ClockInv, TypeOK, Nobody, Process
<1>2. UNCHANGED <<haddock_time_tick_now, haddock_timer_list>>
  BY DEF SignalStep, NothingToRun, EntryReturns, Runs, InterruptSetsSignal, os_ipc_set_signal,
         Calls, clock
<1>3. Armed' = Armed
  BY <1>2 DEF Armed
<1>4. CASE NothingToRun
  <2>1. Pending' = Pending
    BY <1>4 DEF NothingToRun, Pending, Unhandled
  <2> QED
    BY <1>2, <1>3, <2>1 DEF Service!vars, Pending, Ms
<1>5. CASE EntryReturns
  <2>1. running \in Process /\ running' = Nobody
    BY <1>1, <1>5 DEF EntryReturns, TypeOK
  <2>2. ASSUME NEW p \in Process PROVE Unhandled(p)' = Unhandled(p)
    BY <1>1, <1>5, <2>1 DEF EntryReturns, Unhandled, Merged
  <2>3. Pending' = Pending
    BY <2>2 DEF Pending
  <2> QED
    BY <1>2, <1>3, <2>3 DEF Service!vars, Pending, Ms
<1>6. ASSUME NEW p \in Process, NEW s \in Signal,
             InterruptSetsSignal(p, s) \/ os_ipc_set_signal(p, s)
      PROVE  Service!Next
  <2>1. signal' = [signal EXCEPT ![p] = @ \cup {s}] /\ UNCHANGED <<running, taken>>
    BY <1>6 DEF InterruptSetsSignal, os_ipc_set_signal, Calls, loop
  <2>2. ASSUME NEW q \in Process
        PROVE  Unhandled(q)' = IF q = p THEN Unhandled(p) \cup {s} ELSE Unhandled(q)
    BY <1>1, <2>1 DEF Unhandled
  <2>3. Pending' = [Pending EXCEPT ![p] = @ \cup {s}]
    BY <2>2 DEF Pending
  <2>4. Service!Raise(p, s)
    BY <1>2, <1>3, <2>3 DEF Service!Raise, Pending, Ms
  <2> QED
    BY <2>4 DEF Service!Next
<1>7. ASSUME NEW p \in Process, NEW s \in Signal, Runs(p, s)
      PROVE  Service!Next
  <2>1. running = Nobody /\ running' = p /\ s \in signal[p]
    BY <1>1, <1>7 DEF Runs, TypeOK, Steps
  <2>2. ASSUME NEW q \in Process
        PROVE  Unhandled(q)' = IF q = p THEN Unhandled(p) \ {s} ELSE Unhandled(q)
    BY <1>1, <1>7, <2>1 DEF Runs, Unhandled
  <2>3. Pending' = [Pending EXCEPT ![p] = @ \ {s}] /\ s \in Pending[p]
    BY <1>1, <2>1, <2>2 DEF Pending, Unhandled
  <2>4. Service!Due = {}
    BY <1>7, DueTimers DEF Runs, IInv, ListInv, NoneOverdue
  <2>5. Service!Handle(p, s)
    BY <1>2, <1>3, <2>3, <2>4 DEF Service!Handle, Pending, Ms
  <2> QED
    BY <2>5 DEF Service!Next
<1> QED
  BY <1>4, <1>5, <1>6, <1>7 DEF SignalStep

LEMMA StepImplements == IInv /\ [Next]_vars => [Service!Next]_(Service!vars)
<1> SUFFICES ASSUME IInv, [Next]_vars PROVE [Service!Next]_(Service!vars)
  OBVIOUS
<1>1. CASE SignalStep
  BY <1>1, SignalImplements
<1>2. CASE UNCHANGED vars \/ HAL_LPTIM_AutoReloadMatchCallback
  <2>1. UNCHANGED <<haddock_time_tick_now, haddock_timer_list, signal, running, taken>>
    BY <1>2 DEF vars, clock, loop, HAL_LPTIM_AutoReloadMatchCallback
  <2>2. Pending' = Pending /\ Armed' = Armed
    BY <2>1 DEF Pending, Unhandled, Armed
  <2> QED
    BY <2>1, <2>2 DEF Service!vars, Pending, Ms
<1>3. CASE ReadsClock \/ EntryReadsClock
  <2>1. haddock_get_time_tick_now /\ UNCHANGED <<systick, haddock_timer_list, signal, running, taken>>
    BY <1>3 DEF ReadsClock, EntryReadsClock, Calls
  <2>2. Pending' = Pending /\ Armed' = Armed
    BY <2>1 DEF Pending, Unhandled, Armed
  <2>3. Ms(haddock_time_tick_now') \in Nat /\ Ms(haddock_time_tick_now') >= Ms(haddock_time_tick_now)
    BY <2>1, ReadClock, MsType DEF IInv
  <2>4. Service!Advance
    BY <2>2, <2>3 DEF Service!Advance, Pending, Ms
  <2> QED
    BY <2>4 DEF Service!Next
<1>4. CASE UpdatesTimers
  BY <1>4, FireImplements DEF Service!Next
<1>5. ASSUME NEW t \in Timer, os_timer_stop(t) PROVE Service!Next
  BY <1>5, StopImplements DEF Service!Next
<1>6. ASSUME NEW t \in Timer, NEW x \in Targets, NEW d \in Delay, StartsTimer(t, x, d)
      PROVE  Service!Next
  BY <1>6, StartImplements DEF Service!Next
<1> QED
  BY <1>1, <1>2, <1>3, <1>4, <1>5, <1>6 DEF Next, Loop, EntryCalls, SignalStep

\* The list, the early return, the walk that stops at the first timer that is
\* not due, and the vectors that the loop takes and gives back implement the
\* service, for any number of timers, processes and signals.
THEOREM KernelImplementsService == Spec => ImplementsTimerService
<1>1. Init => Service!Init
  BY InitImplements
<1>2. IInv /\ [Next]_vars => [Service!Next]_(Service!vars)
  BY StepImplements
<1> QED
  BY <1>1, <1>2, Invariance, PTL DEF Spec, ImplementsTimerService, Service!Spec
=============================================================================
