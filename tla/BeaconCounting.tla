--------------------------- MODULE BeaconCounting ---------------------------
(***************************************************************************)
(* The two ends of the link count beacons independently: the gateway the   *)
(* ones it sends, the device the beacon periods since the last beacon it   *)
(* has received.  Most periods the device does not listen at all (virtual  *)
(* tracking).  A frame carries no ACK number of its own: the device works  *)
(* out from its count which beacon will answer it, and the gateway's CPU   *)
(* asks for a reply in the beacon with that number.                        *)
(*                                                                         *)
(* One gateway that is never restarted, one device, one frame at a time.   *)
(***************************************************************************)
EXTENDS BeaconSeq

CONSTANTS
    PACKED_ACK_DELAY_NUM,    \* periods from a frame to its packed ACK
    NoBeacon                 \* no beacon has been found

ASSUME BeaconCountingAssumption ==
    /\ PACKED_ACK_DELAY_NUM \in 1..(BEACON_MAX_SEQ_NUM \div 2)
    /\ NoBeacon \notin BeaconSeqNum

VARIABLES
    beacon_seq_id,             \* the gateway's number of the current beacon
    expected_beacon_seq_id,    \* the device's number of the current beacon
    frame,                     \* the frame that waits for its ACK, if any
    periods                    \* history: how many periods it has yet to wait

vars == <<beacon_seq_id, expected_beacon_seq_id, frame, periods>>

TypeOK ==
    /\ beacon_seq_id \in BeaconSeqNum
    /\ expected_beacon_seq_id \in BeaconSeqNum \cup {NoBeacon}
    /\ frame \in BeaconSeqNum \cup {NoBeacon}
    /\ periods \in 0..PACKED_ACK_DELAY_NUM

\* The first beacon is counted before it is sent.
Init ==
    /\ beacon_seq_id = NextBeaconSeq(InitialBeaconSeq)
    /\ expected_beacon_seq_id = NoBeacon
    /\ frame = NoBeacon /\ periods = 0

\* Whether the frame's beacon is the current one, as the device sees it.
IsDue == frame # NoBeacon
         /\ calc_bcn_seq_delta(frame, expected_beacon_seq_id) = 0

\* A beacon is found, or tracked: the device takes over its number.
btracker_sync_info_base ==
    /\ expected_beacon_seq_id' = beacon_seq_id
    /\ UNCHANGED <<beacon_seq_id, frame, periods>>

\* A frame is sent in the current period.
SendFrame ==
    /\ expected_beacon_seq_id # NoBeacon /\ frame = NoBeacon
    /\ frame' = calc_expected_beacon_seq_id(expected_beacon_seq_id, PACKED_ACK_DELAY_NUM)
    /\ periods' = PACKED_ACK_DELAY_NUM
    /\ UNCHANGED <<beacon_seq_id, expected_beacon_seq_id>>

\* The frame's beacon is here: it is acknowledged, retried or given up.
Settle ==
    /\ IsDue
    /\ frame' = NoBeacon /\ periods' = 0
    /\ UNCHANGED <<beacon_seq_id, expected_beacon_seq_id>>

\* Tracking has failed: the frame is retried or given up, and the device will
\* have to search for a beacon.
TrackFailed ==
    /\ expected_beacon_seq_id # NoBeacon
    /\ expected_beacon_seq_id' = NoBeacon
    /\ frame' = NoBeacon /\ periods' = 0
    /\ UNCHANGED beacon_seq_id

\* One more beacon.
gw_mac_engine_bcn_info_ticktock == NextBeaconSeq(beacon_seq_id)
CountedWithoutOverflowTest == Int8(expected_beacon_seq_id + 1)
btracker_info_base_ticktock == NextBeaconSeq(expected_beacon_seq_id)

\* The next beacon period.  The gateway counts, and so does a device that
\* tracks.  A device that has a frame due in this period handles that first.
Ticktock ==
    /\ ~IsDue
    /\ beacon_seq_id' = gw_mac_engine_bcn_info_ticktock
    /\ expected_beacon_seq_id' = IF expected_beacon_seq_id = NoBeacon THEN NoBeacon
                                 ELSE btracker_info_base_ticktock
    /\ periods' = IF periods > 0 THEN periods - 1 ELSE 0
    /\ UNCHANGED frame

Next == btracker_sync_info_base \/ SendFrame \/ Settle \/ TrackFailed \/ Ticktock

Spec == Init /\ [][Next]_vars

\* The device keeps working as long as time passes and it settles what is due.
FairSpec == Spec /\ WF_vars(Ticktock) /\ WF_vars(Settle)
-----------------------------------------------------------------------------
\* A device that tracks has the gateway's number, however long it has not
\* listened and wherever the wrap falls.
InStep == expected_beacon_seq_id \in {NoBeacon, beacon_seq_id}

\* While a frame waits, the distance to its beacon is the number of periods it
\* has still to wait.  It is never negative (the assertion on the delta in
\* mac_tx_frames_handle_check_ack() and mac_tx_frames_handle_no_ack() holds)
\* and zero in its own period only (it is not settled by another beacon).
DeltaIsPeriods ==
    frame # NoBeacon => calc_bcn_seq_delta(frame, beacon_seq_id) = periods

\* The gateway accepts a reply in the frame's beacon in every period from the
\* one the frame was sent in to the one before that beacon, and in no other.
ReplyAccepted ==
    frame # NoBeacon =>
        (gw_mac_is_valid_tx_bcn_seq_id(frame, beacon_seq_id, PACKED_ACK_DELAY_NUM)
            <=> periods > 0)

\* A frame does not wait for ever: its beacon is reached.
FrameSettled == frame # NoBeacon ~> frame = NoBeacon
=============================================================================
