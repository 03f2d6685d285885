---------------------------- MODULE MCGatewayMac ----------------------------
(***************************************************************************)
(* GatewayMac on small instances: two devices, two blocks, a short head of *)
(* the lollipop.                                                           *)
(***************************************************************************)
EXTENDS GatewayMac, TLC

CONSTANTS d1, d2, f1, f2

MCDevice == {d1, d2}
MCFbuf == {f1, f2}

\* Nothing orders the devices.
DeviceSymmetry == Permutations(MCDevice)
=============================================================================
