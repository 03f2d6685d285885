----------------------------- MODULE AckService -----------------------------
(***************************************************************************)
(* What a gateway promises the end devices about packed ACKs, whatever its *)
(* lists, counters and signals are: the ACK of a frame that is received in *)
(* one beacon period goes out with the beacon PACKED_ACK_DELAY_NUM periods *)
(* later, together with those of all other frames of that period and in    *)
(* the order of their arrival.  A period has room for a limited number.    *)
(*                                                                         *)
(* The state is a delay line of queues.                                    *)
(***************************************************************************)
EXTENDS Naturals, Sequences

CONSTANTS
    Device,                                    \* addresses of end devices
    PACKED_ACK_DELAY_NUM,
    GATEWAY_MAX_UPLINK_MSG_PER_BEACON_PERIOD

VARIABLES
    owed,    \* owed[k]: the devices to acknowledge k beacons from now
    sent     \* the devices that the last beacon acknowledges

vars == <<owed, sent>>

Delay == 1..PACKED_ACK_DELAY_NUM

TypeOK == owed \in [Delay -> Seq(Device)] /\ sent \in Seq(Device)

NothingOwed == [k \in Delay |-> <<>>]

Init == owed = NothingOwed /\ sent = <<>>

\* A frame of device d is received while there is room.
Receive(d) ==
    /\ Len(owed[PACKED_ACK_DELAY_NUM]) < GATEWAY_MAX_UPLINK_MSG_PER_BEACON_PERIOD
    /\ owed' = [owed EXCEPT ![PACKED_ACK_DELAY_NUM] = Append(@, d)]
    /\ UNCHANGED sent

\* A beacon: what was owed moves one period closer.
Beacon ==
    /\ sent' = owed[1]
    /\ owed' = [k \in Delay |-> IF k < PACKED_ACK_DELAY_NUM THEN owed[k + 1] ELSE <<>>]

\* The gateway starts again on another channel.
Restart == owed' = NothingOwed /\ UNCHANGED sent

Next == (\E d \in Device : Receive(d)) \/ Beacon \/ Restart

Spec == Init /\ [][Next]_vars
=============================================================================
