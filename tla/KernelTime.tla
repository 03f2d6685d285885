----------------------------- MODULE KernelTime -----------------------------
(***************************************************************************)
(* The kernel's time as pairs of seconds and milliseconds (timer.c), and   *)
(* the systick counter that it is read from (systick.c).  MsPerS is 1000   *)
(* and TICKS is 2^32 in the code.  One interrupt of the low-power timer is *)
(* RELOAD_CNT (3000) counts of a clock with CNT_PER_MS (1024) of them in a *)
(* millisecond.                                                            *)
(***************************************************************************)
EXTENDS Integers

CONSTANTS MsPerS, TICKS, RELOAD_CNT, CNT_PER_MS

ASSUME KernelTimeAssumption ==
    /\ MsPerS \in Nat \ {0}
    /\ TICKS \in Nat \ {0}
    /\ RELOAD_CNT \in Nat
    /\ CNT_PER_MS \in Nat \ {0}

Time == [s : Nat, ms : 0..(MsPerS - 1)]

\* What a time stands for.
Ms(t) == t.s * MsPerS + t.ms

time_tick_less_than(t1, t2) == t1.s < t2.s \/ (t1.s = t2.s /\ t1.ms < t2.ms)

\* Both parts on their own, as a mutant.
LessInBothParts(t1, t2) == t1.s <= t2.s /\ t1.ms <= t2.ms

time_tick_less_or_equal(t1, t2) == t1.s < t2.s \/ (t1.s = t2.s /\ t1.ms <= t2.ms)

\* Without the carry, as a mutant.
IncrementWithoutCarry(t, delta_ms) == [t EXCEPT !.ms = @ + delta_ms]

\* The clock when delta_ms have passed.
__haddock_increment_time_tick_now(t, delta_ms) ==
    IF t.ms + delta_ms >= MsPerS
    THEN [s |-> t.s + (t.ms + delta_ms) \div MsPerS, ms |-> (t.ms + delta_ms) % MsPerS]
    ELSE [t EXCEPT !.ms = @ + delta_ms]

\* The timeout of a timer that is configured at t.
__haddock_calc_timeout_value(t, delta_ms) ==
    [s |-> t.s + (delta_ms + t.ms) \div MsPerS, ms |-> (t.ms + delta_ms) % MsPerS]

\* Which of two times is later (1, 0 or -1), and by how much.
haddock_time_calc_delta(t1, t2) ==
    LET difference(a, b) == IF a.ms >= b.ms
                            THEN [s |-> a.s - b.s, ms |-> a.ms - b.ms]
                            ELSE [s |-> a.s - b.s - 1, ms |-> (MsPerS - b.ms) + a.ms]
    IN  IF t1 = t2 THEN [sign |-> 0, delta |-> [s |-> 0, ms |-> 0]]
        ELSE IF time_tick_less_than(t2, t1) THEN [sign |-> 1, delta |-> difference(t1, t2)]
        ELSE [sign |-> -1, delta |-> difference(t2, t1)]

\* Without the difference at the wrap, as a mutant.
ElapsedWithoutWrap(prev, tick) == IF tick >= prev THEN tick - prev ELSE 0

\* The milliseconds between two readings of the counter.  0xFFFFFFFF is one
\* less than the number of its values.
ElapsedTicks(prev, tick) == IF tick >= prev THEN tick - prev ELSE (TICKS - 1) - prev + tick
=============================================================================
