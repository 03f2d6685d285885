------------------------------- MODULE Kernel -------------------------------
(***************************************************************************)
(* The kernel's main loop (kernel_main.c), its timers (timer.c), signals   *)
(* (ipc.c) and scheduler (scheduler.c), and the systick interrupt          *)
(* (systick.c).                                                            *)
(*                                                                         *)
(* One round of the loop reads the clock, lets the timers that are due     *)
(* raise their signals, picks the first process that has a signal, takes   *)
(* all its signals and runs its entry.  The entry handles one of them and  *)
(* returns the others, which are added to those that were set meanwhile.   *)
(* Interrupts come between any two of these steps.  kernel_main.c:57-61    *)
(* wants them to be able to set signals, so here they do.                  *)
(*                                                                         *)
(* Processes are 1, 2, ... in the order in which schedule_next() meets     *)
(* them: by priority, then in the order of their creation.                 *)
(***************************************************************************)
EXTENDS KernelTime, Sequences, FiniteSets, Functions

CONSTANTS
    Timer, NProcs, Signal,
    Targets,          \* the processes and signals that timers are set up for
    Pairs,            \* ... that processes and interrupts set
    Delay,            \* the delays that processes ask for, in ms
    MaxInterrupts,    \* bound: systick interrupts
    MaxCalls          \* bound: calls of the kernel in one run of an entry

Process == 1..NProcs

ASSUME KernelAssumption ==
    /\ NProcs \in Nat
    /\ Targets \subseteq Process \X Signal
    /\ Pairs \subseteq Process \X Signal
    /\ Delay \subseteq Nat \ {0}
    /\ MaxInterrupts \in Nat /\ MaxCalls \in Nat

VARIABLES
    u32Ms, u32delta,          \* gs_tSystickTime
    interrupts, overflows,    \* history: of the timer, and of u32Ms
    systick_prev,             \* the last reading of u32Ms
    haddock_time_tick_now,    \* the clock
    last_update,              \* _now of haddock_timer_update_routine()
    haddock_timer_list,       \* the running timers, each with its timeout_value
                              \* and its target (pid and signal)
    signal,                   \* the signal vector of a process
    pc, running, taken, calls \* the loop; taken: what the entry will return

systick == <<u32Ms, u32delta, interrupts, overflows>>
clock   == <<systick_prev, haddock_time_tick_now>>
loop    == <<pc, running, taken, calls>>
vars    == <<systick, clock, last_update, haddock_timer_list, signal, loop>>

Never == [s |-> -1, ms |-> -1]    \* 0xFFFFFFFF in the code
Nobody == 0

Steps == {"clock", "timers", "schedule", "entry"}

Init ==
    /\ u32Ms = 0 /\ u32delta = 0 /\ interrupts = 0 /\ overflows = 0
    /\ systick_prev = 0
    /\ haddock_time_tick_now = [s |-> 0, ms |-> 0]
    /\ last_update = Never
    /\ haddock_timer_list = <<>>
    /\ signal \in [Process -> SUBSET Signal]
    /\ pc = "clock" /\ running = Nobody /\ taken = {} /\ calls = 0

\* What a list holds of a timer.  A timer that is stopped keeps its values in
\* the code, but is configured again before it is started again.
TimerRecord == [timer : Timer, timeout_value : Time, target : Targets]

Started(t) == \E i \in DOMAIN haddock_timer_list : haddock_timer_list[i].timer = t

----------------------------------------------------------------------------
(* Interrupts                                                             *)

\* How far u32Ms is ahead of the last reading.
Unread == IF u32Ms >= systick_prev THEN u32Ms - systick_prev ELSE TICKS - systick_prev + u32Ms

\* The count of u32Ms after an interrupt, before it overflows, and what is
\* left of a millisecond.
NextMs == u32Ms + (u32delta + RELOAD_CNT) \div CNT_PER_MS

\* The rest dropped, as a mutant.
NoRest == 0

NextDelta == (u32delta + RELOAD_CNT) % CNT_PER_MS

\* The loop comes back to its first line before the counter (49 days) has made
\* a round.
HAL_LPTIM_AutoReloadMatchCallback ==
    /\ interrupts < MaxInterrupts
    /\ Unread + (NextMs - u32Ms) < TICKS
    /\ interrupts' = interrupts + 1
    /\ u32delta' = NextDelta
    /\ u32Ms' = IF NextMs < TICKS THEN NextMs ELSE NextMs - TICKS
    /\ overflows' = IF NextMs < TICKS THEN overflows ELSE overflows + 1
    /\ UNCHANGED <<clock, last_update, haddock_timer_list, signal, loop>>

InterruptSetsSignal(p, s) ==
    /\ <<p, s>> \in Pairs
    /\ signal' = [signal EXCEPT ![p] = @ \cup {s}]
    /\ UNCHANGED <<systick, clock, last_update, haddock_timer_list, loop>>

----------------------------------------------------------------------------
(* The main loop                                                          *)

\* Returned signals replace those that were set meanwhile, as a mutant.
Replaced(set, returned) == returned

Merged(set, returned) == set \cup returned

haddock_get_time_tick_now ==
    /\ systick_prev' = u32Ms
    /\ haddock_time_tick_now' =
           IF u32Ms = systick_prev THEN haddock_time_tick_now
           ELSE __haddock_increment_time_tick_now(haddock_time_tick_now,
                                                  ElapsedTicks(systick_prev, u32Ms))

ReadsClock ==
    /\ pc = "clock" /\ pc' = "timers"
    /\ haddock_get_time_tick_now
    /\ UNCHANGED <<systick, last_update, haddock_timer_list, signal, running, taken, calls>>

DueAt(time, x) == time_tick_less_or_equal(x.timeout_value, time)

\* One timer at a time, as a mutant.
OnlyTheFirst(n) == n = IF DueAt(haddock_time_tick_now, haddock_timer_list[1]) THEN 1 ELSE 0

\* The walk over the list stops at the first timer that is not due.
FirstNotDue(n) ==
    /\ n \in 0..Len(haddock_timer_list)
    /\ \A i \in 1..n : DueAt(haddock_time_tick_now, haddock_timer_list[i])
    /\ n < Len(haddock_timer_list) => ~ DueAt(haddock_time_tick_now, haddock_timer_list[n + 1])

\* The first n timers raise their signals and are stopped.  Whether they are
\* within HDK_CFG_TIMER_SCHEDULE_THRESHOLD makes no difference.
Fires(n) ==
    /\ signal' = [p \in Process |-> signal[p] \cup
                     {s \in Signal : \E i \in 1..n : haddock_timer_list[i].target = <<p, s>>}]
    /\ haddock_timer_list' = [i \in 1..(Len(haddock_timer_list) - n) |-> haddock_timer_list[i + n]]

haddock_timer_update_routine ==
    \/ /\ haddock_timer_list = <<>> \/ last_update = haddock_time_tick_now
       /\ UNCHANGED <<last_update, haddock_timer_list, signal>>
    \/ /\ haddock_timer_list # <<>> /\ last_update # haddock_time_tick_now
       /\ last_update' = haddock_time_tick_now
       /\ \E n \in 0..Len(haddock_timer_list) : FirstNotDue(n) /\ Fires(n)

UpdatesTimers ==
    /\ pc = "timers" /\ pc' = "schedule"
    /\ haddock_timer_update_routine
    /\ UNCHANGED <<systick, clock, running, taken, calls>>

\* schedule_next()
IsNext(p) == signal[p] # {} /\ \A q \in 1..(p - 1) : signal[q] = {}

\* The loop takes all signals of the process; its entry handles s.
Runs(p, s) ==
    /\ pc = "schedule" /\ pc' = "entry"
    /\ IsNext(p)
    /\ s \in signal[p]
    /\ running' = p /\ taken' = signal[p] \ {s} /\ calls' = 0
    /\ signal' = [signal EXCEPT ![p] = {}]
    /\ UNCHANGED <<systick, clock, last_update, haddock_timer_list>>

NothingToRun ==
    /\ pc = "schedule" /\ pc' = "clock"
    /\ \A p \in Process : signal[p] = {}
    /\ UNCHANGED <<systick, clock, last_update, haddock_timer_list, signal, running, taken, calls>>

EntryReturns ==
    /\ pc = "entry" /\ pc' = "clock"
    /\ signal' = [signal EXCEPT ![running] = Merged(@, taken)]
    /\ running' = Nobody /\ taken' = {} /\ calls' = 0
    /\ UNCHANGED <<systick, clock, last_update, haddock_timer_list>>

----------------------------------------------------------------------------
(* What an entry may call                                                 *)

Calls ==
    /\ pc = "entry" /\ calls < MaxCalls
    /\ calls' = calls + 1
    /\ UNCHANGED <<systick, last_update, pc, running, taken>>

\* Behind all timers that are not later, before the first one that is.
Position(list, k, time) ==
    /\ k \in 0..Len(list)
    /\ \A i \in 1..k : time_tick_less_or_equal(list[i].timeout_value, time)
    /\ k < Len(list) => time_tick_less_than(time, list[k + 1].timeout_value)

InsertedBehind(list, k, x) ==
    [i \in 1..(Len(list) + 1) |-> IF i <= k THEN list[i] ELSE IF i = k + 1 THEN x ELSE list[i - 1]]

\* os_timer_reconfig() and os_timer_start(), one right after the other.  Both
\* are asserted to find the timer stopped.
StartsTimer(t, x, d) ==
    /\ Calls
    /\ ~ Started(t)
    /\ LET timeout == __haddock_calc_timeout_value(haddock_time_tick_now, d)
       IN  \E k \in 0..Len(haddock_timer_list) :
              /\ Position(haddock_timer_list, k, timeout)
              /\ haddock_timer_list' =
                     InsertedBehind(haddock_timer_list, k,
                                    [timer |-> t, timeout_value |-> timeout, target |-> x])
    /\ UNCHANGED <<clock, signal>>

os_timer_stop(t) ==
    /\ Calls
    /\ \E k \in DOMAIN haddock_timer_list :
          /\ haddock_timer_list[k].timer = t
          /\ haddock_timer_list' = [i \in 1..(Len(haddock_timer_list) - 1) |->
                                       haddock_timer_list[IF i < k THEN i ELSE i + 1]]
    /\ UNCHANGED <<clock, signal>>

os_ipc_set_signal(p, s) ==
    /\ Calls
    /\ <<p, s>> \in Pairs
    /\ signal' = [signal EXCEPT ![p] = @ \cup {s}]
    /\ UNCHANGED <<clock, haddock_timer_list>>

\* haddock_time_calc_delta_till_now() and the start of a transmission.
EntryReadsClock ==
    /\ Calls
    /\ haddock_get_time_tick_now
    /\ UNCHANGED <<haddock_timer_list, signal>>

----------------------------------------------------------------------------
Loop ==
    \/ ReadsClock
    \/ UpdatesTimers
    \/ NothingToRun
    \/ \E p \in Process, s \in Signal : Runs(p, s)
    \/ EntryReturns

EntryCalls ==
    \/ \E t \in Timer : os_timer_stop(t) \/ (\E x \in Targets, d \in Delay : StartsTimer(t, x, d))
    \/ \E p \in Process, s \in Signal : os_ipc_set_signal(p, s)
    \/ EntryReadsClock

Next ==
    \/ HAL_LPTIM_AutoReloadMatchCallback
    \/ \E p \in Process, s \in Signal : InterruptSetsSignal(p, s)
    \/ Loop
    \/ EntryCalls

Spec == Init /\ [][Next]_vars

\* Time passes and the loop goes on: an entry returns, and no interrupt keeps
\* the processor for itself.
FairSpec == Spec /\ WF_vars(HAL_LPTIM_AutoReloadMatchCallback) /\ WF_vars(Loop)

----------------------------------------------------------------------------
TypeOK ==
    /\ u32Ms \in 0..(TICKS - 1) /\ u32delta \in 0..(CNT_PER_MS - 1)
    /\ interrupts \in Nat /\ overflows \in Nat
    /\ systick_prev \in 0..(TICKS - 1)
    /\ haddock_time_tick_now \in Time
    /\ last_update \in Time \cup {Never}
    /\ haddock_timer_list \in Seq(TimerRecord)
    /\ signal \in [Process -> SUBSET Signal]
    /\ pc \in Steps
    /\ running \in Process \cup {Nobody} /\ taken \in SUBSET Signal
    /\ pc = "entry" <=> running # Nobody
    /\ calls \in Nat

\* The fraction of a millisecond that an interrupt leaves is never lost: the
\* counter and its overflows are the time of all interrupts (systick.c:288).
TickExact == (overflows * TICKS + u32Ms) * CNT_PER_MS + u32delta = interrupts * RELOAD_CNT

\* The kernel's clock is the counter at its last reading, less one millisecond
\* for every overflow that it has read over (timer.c:560).
ClockLag ==
    LET over == IF systick_prev <= u32Ms THEN overflows ELSE overflows - 1
    IN  Ms(haddock_time_tick_now) = over * (TICKS - 1) + systick_prev

\* The two together: however interrupts, overflows and readings of the counter
\* interleave, the kernel's clock loses nothing but the fraction that the next
\* interrupt carries and one millisecond for every overflow.
TimeKept == TickExact /\ ClockLag

\* The list is sorted by timeout and holds a timer once (timer.c:185).
Sorted ==
    \A i, j \in DOMAIN haddock_timer_list : i < j =>
        /\ haddock_timer_list[i].timer # haddock_timer_list[j].timer
        /\ time_tick_less_or_equal(haddock_timer_list[i].timeout_value,
                                   haddock_timer_list[j].timeout_value)

\* When a process is chosen, no timer is left that is due by the kernel's clock,
\* although the routine does nothing while the clock stands still and stops at
\* the first timer that is not due (timer.c:301-369).
NoneOverdue ==
    pc = "schedule" =>
        \A i \in DOMAIN haddock_timer_list : ~ DueAt(haddock_time_tick_now, haddock_timer_list[i])

Unhandled(p) == signal[p] \cup (IF p = running THEN taken ELSE {})

Armed == {[timer |-> haddock_timer_list[i].timer,
           at |-> Ms(haddock_timer_list[i].timeout_value),
           target |-> haddock_timer_list[i].target] : i \in DOMAIN haddock_timer_list}

Service == INSTANCE TimerService WITH
    clock   <- Ms(haddock_time_tick_now),
    armed   <- Armed,
    pending <- [p \in Process |-> Unhandled(p)]

\* The list of timers, the walk that stops early, the signal vectors that the
\* loop empties and fills again, with interrupts in between, implement the
\* service.
ImplementsTimerService == Service!Spec

\* The clock at which the bounded model stops, at the least.
Horizon == (MaxInterrupts * RELOAD_CNT) \div CNT_PER_MS - 1 - (MaxInterrupts * RELOAD_CNT) \div (CNT_PER_MS * TICKS)

\* A timer that is started fires or is stopped, whatever processes and
\* interrupts do and although a low priority process may never run.
TimerFires ==
    \A t \in Timer : (\E x \in Armed : x.timer = t /\ x.at <= Horizon) ~> ~ Started(t)
=============================================================================
