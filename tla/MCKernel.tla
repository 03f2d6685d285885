------------------------------ MODULE MCKernel ------------------------------
(* Kernel with two processes and two signals for TLC. *)
EXTENDS Kernel, TLC

CONSTANTS a, b

TargetsOfTimers == {<<1, a>>, <<2, a>>}
AllPairs == TargetsOfTimers \cup {<<2, b>>}
=============================================================================
