---------------------------- MODULE TimerService ----------------------------
(***************************************************************************)
(* What the kernel promises its processes, whatever its lists and loops:   *)
(*                                                                         *)
(*   - all timers that are due fire together, before any process runs on   *)
(*     the time at which they are due, and no other timer fires;           *)
(*   - a signal that was set, by a timer, a process or an interrupt, stays *)
(*     pending until the process handles it.                               *)
(***************************************************************************)
EXTENDS Integers

CONSTANTS
    Timer, Process, Signal,
    Targets,    \* the processes and signals that timers are set up for
    Delay       \* the delays that they are started with, in ms

VARIABLES
    clock,      \* the time in ms
    armed,      \* the running timers: when each fires, and what it raises
    pending     \* the signals that a process has not handled yet

vars == <<clock, armed, pending>>

Init == clock = 0 /\ armed = {} /\ pending \in [Process -> SUBSET Signal]

Due == {x \in armed : x.at <= clock}

Advance == clock' \in Nat /\ clock' >= clock /\ UNCHANGED <<armed, pending>>

Start(t, target, d) ==
    /\ \A x \in armed : x.timer # t
    /\ armed' = armed \cup {[timer |-> t, at |-> clock + d, target |-> target]}
    /\ UNCHANGED <<clock, pending>>

Stop(t) ==
    /\ armed' = {x \in armed : x.timer # t}
    /\ UNCHANGED <<clock, pending>>

Fire ==
    /\ pending' = [p \in Process |->
                      pending[p] \cup {s \in Signal : \E x \in Due : x.target = <<p, s>>}]
    /\ armed' = armed \ Due
    /\ UNCHANGED clock

Raise(p, s) ==
    /\ pending' = [pending EXCEPT ![p] = @ \cup {s}]
    /\ UNCHANGED <<clock, armed>>

Handle(p, s) ==
    /\ s \in pending[p]
    /\ Due = {}
    /\ pending' = [pending EXCEPT ![p] = @ \ {s}]
    /\ UNCHANGED <<clock, armed>>

Next ==
    \/ Advance \/ Fire
    \/ \E t \in Timer : Stop(t) \/ (\E x \in Targets, d \in Delay : Start(t, x, d))
    \/ \E p \in Process, s \in Signal : Raise(p, s) \/ Handle(p, s)

Spec == Init /\ [][Next]_vars
=============================================================================
