--------------------------- MODULE MCTxFramesMgmt ---------------------------
(***************************************************************************)
(* TxFramesMgmt on a small instance: three blocks, few sequence     *)
(* numbers and beacons on a short head of the lollipop.                    *)
(***************************************************************************)
EXTENDS TxFramesMgmt, TLC

CONSTANTS s1, s2, s3

MCSlot == {s1, s2, s3}
MCBeacon == {0, 1}

\* Blocks of the pool are interchangeable: nothing orders them.
BlockSymmetry == Permutations(MCSlot)
=============================================================================
