# tubelink_modem: verification project

TLA+ models of the firmware in `src/eli_modem`: an "EasyLinkIn" LPWAN modem
that is built either as a gateway modem or as an end-device modem, on the
cooperative kernel `haddock-os`. The models are checked by TLC on small
instances; what they say of safety is proved by TLAPS for every instance.

`PROJECT.json` lists the runs, their properties, the mutants, the source lines
of every definition, the hazards and the theorems. Below, `DM` is
`end_device/mac_engine.c`, `BT` `beacon_tracker.c`, `TX` `tx_frames_mgmt.c`,
`GM` `gateway/mac_engine.c`, `PA` `packed_ack_frames_mgmt.c`, `UA` `uart.c`,
`HU` `stm32l0xx_hal_uart.c`.

## 1. The system

A gateway sends a beacon every 8 s (SF8), numbered in a cycle 0..127 that a
"stick" of negative numbers precedes. The period is divided in 128 slots: the
beacon, then the downlink frames that it announces, then uplink. An end device
sends a frame in one period and finds its acknowledgement packed in the beacon
`PACKED_ACK_DELAY_NUM` (2) periods later; most beacons in between it does not
receive but counts ("virtual tracking"). An ACK with "message pending" tells
the device that a downlink frame follows.

| Component | State | Operations | Interaction |
|---|---|---|---|
| Kernel (`process.c`, `ipc.c`, `scheduler.c`, `kernel_main.c`) | processes by priority, a signal bit vector per process | set signal, schedule; the main loop hands a process its signals and takes back those it did not handle | all components are processes; one entry runs to completion and handles one signal; interrupts set signals too |
| Timers and time (`timer.c`, `systick.c`) | clock as (s, ms), sorted list of running timers; counter of the low-power timer's interrupt | read the clock, reconfig, start, stop, update routine; count | set a signal of a process when they expire; a signal once set cannot be taken back |
| Pools, ring buffers, lists (`lib/`) | bit vectors, counters, links | allocate, free, push, pop | under every queue of the system |
| Radio controller | IDLE, TX, TX_CCA, TX_ING, RX; frame being sent, receive buffer | tx, rx, continuous rx, rx_stop, reset | one caller at a time; signals the result to it |
| Beacon numbering (`lpwan_utils.c`, `GM`, `BT`) | number of the current beacon on either side | count, delta, expected number, validity | decides when ACKs, replies and downlinks are due |
| Device: tx frames (`TX`) | pool, pending list, wait list, a counter for each, JOIN_REQ buffer, frame sequence number | put, prepare, sent, failed, check ack, no ack, lost beacon, join | called by the device's MAC engine |
| Device: beacon tracker (`BT`) | INITED, SEARCH_BEACON, BEACON_FOUND, BCN_TRACKING, BCN_TRACKING_SEARCH, base of counting | search, track, reset | signals found / tracked / lost to the MAC engine |
| Device: MAC engine (`DM`) | INITED, JOINING, JOINED and sub-states, timers | join, send, receive downlink | uses tracker, radio controller, tx frames |
| Gateway: MAC engine (`GM`) | INITED, TX_BEACON, TX_DOWNLINK, RX_UPLINK; beacon and slot timers | start, stop, beacon, downlink, uplink | uses packed ACK lists and radio controller; driven by the driver |
| Gateway: packed ACKs and downlinks (`PA`) | one ACK list and one downlink list per delay, current list, tx list, pool | ticktock, push, pop, put, check, sent, clear | called by the engine and, for downlinks, by the host |
| Gateway driver, host protocol | configuration, parser | host commands | start and configure the engine, put downlinks |
| Host interface, UART (`app_hostif.c`, `uart.c`, `cfifo.h`, the HAL's interrupt driver) | two byte rings, end-of-frame time out, the HAL's handle and lock | poll, receive, send, the UART's interrupt | main loop and interrupt share rings, handle and registers |

What is hard: signals that are set but not handled when their reason is gone
(stop, reset, restart); the order in which an entry looks at pending signals;
two sides counting a cyclic number over lost beacons; retries whose limits mix
three kinds of failure; buffers shared by several lists with a counter each;
downlink frames tied to the beacon that announces them; assertions, which stop
the modem for good (`haddock_assert` is an endless loop); an interrupt that
shares rings, a lock and a state with the main loop; a clock that is read at
irregular times from a counter that overflows. Nothing is persisted
but the configuration, so there is no recovery from crashes to model.

What makes the components correct: gateway and device agree on the number of
every beacon and thereby on the beacon that answers a frame; no frame leaves
its buffer unless it is acknowledged or given up, no block of a pool is lost or
used twice, no assertion fails; every ACK goes out with the right beacon,
downlink frames in the announced order; a started gateway goes on sending
beacons; the kernel loses no signal, and no process runs on a time at which a
timer is due that has not fired; no byte of the host is lost but in ways the
code knows of, and the modem's messages go out whole.

## 2. Modules

| Module | Models |
|---|---|
| `BeaconSeq` | the arithmetic of beacon numbers, as operators; `Int8` for the code's 8 bits |
| `BeaconSeqProofs` | lemmas about it |
| `BeaconCounting` | a gateway and a device that count; a frame that waits |
| `BeaconCountingProofs` | its invariants |
| `TxFramesMgmt` | the device's frame buffers |
| `MCTxFramesMgmt` | its instance for TLC |
| `TxFramesMgmtProofs` | its invariants and action properties |
| `DeviceMac` | the device's engine, its beacon tracker and the radio controller, with signals, timers and the radio |
| `DeviceMacProofs` | which signals and timers can be on when; its invariants |
| `AckService` | what the gateway promises about ACKs: a delay line of queues |
| `GatewayMac` | the gateway's engine, its lists, and the radio, timers and host around it |
| `MCGatewayMac` | its instance for TLC |
| `GatewayMacProofs` | ACKs on time, and the implementation of `AckService` |
| `GatewayFrameProofs` | the pool, the downlink frames in turn and in order, no assertion fails |
| `TimerService` | what the kernel promises its processes: timers and signals |
| `KernelTime` | times as (s, ms), the systick counter, as operators |
| `Kernel` | main loop, timer list, signals, scheduler, systick interrupt |
| `MCKernel` | its instance for TLC |
| `KernelProofs` | its arithmetic, its invariants, and the implementation of `TimerService` |
| `HostUart` | main loop, UART interrupt and line of the host interface |
| `HostUartProofs` | its invariants |

`BeaconCounting`, `TxFramesMgmt` and `GatewayMac` extend `BeaconSeq`; `Kernel`
extends `KernelTime`. Two modules are shown to implement an abstract one:

* `GatewayMac` implements `AckService` with `owed[k]` = the addresses in list
  `(cur_list_id + k) % D` and `sent` = those in the last beacon;
* `Kernel` implements `TimerService` with `clock` = the kernel's clock in ms,
  `armed` = the timers of the list, and `pending[p]` = the signal vector of `p`
  with, while `p` runs, the signals that its entry has still to return.

`DeviceMac` and `GatewayMac` use the kernel as `TimerService` describes it: a
process handles one signal at a time, a signal stays until it is handled, a
timer raises its signal when it is due and not before.

### BeaconSeq, BeaconCounting

`NextBeaconSeq` is the increment of `gw_mac_engine_bcn_info_ticktock()` and of
`btracker_info_base_ticktock()` with its overflow test. `calc_bcn_seq_delta`,
`calc_expected_beacon_seq_id` and `gw_mac_is_valid_tx_bcn_seq_id` are the
functions of these names. A step `Ticktock` is one beacon period on both sides.
`btracker_sync_info_base` is a received beacon, `TrackFailed` the loss of the
network, and a beacon that is merely not received is a `Ticktock` without
synchronisation. `periods` is a history variable: the distance to the answer
that an observer with an unbounded clock would see.

### TxFramesMgmt

One action per function of `TX`, guarded by where `DM` calls it (`mac_state`,
`cur_tx`). Lists are sequences of blocks, with the counters kept beside them as
in the code; block contents are the four fields that decide anything. What a
beacon says (its number, the number it confirms) is arbitrary, so every ACK of
every beacon can arrive, also ones that are stale. A failing assertion sets
`halted` to its name and stops the model. `mac_tx_frames_handle_tx_msg_failed`
leaves the counter of the pending list behind when it gives a frame up;
`MaxSurplus` bounds by how much, and is the only bound of the model that is not
the code's. Two history variables say what the properties need: `on_air`, the
frames that have been sent in this membership, and `heard`, the ACK that the
step handles. SeqKept holds within a membership and says what happens at its
end: `join_ok()` zeroes the attempts of the messages that are left (`TX:114`),
so that one which the gateway has relayed already goes out under a new number
and is relayed again. Payloads and the JOIN_REQ's contents are left out. The walk over a
list that unlinks some members is stated by what it leaves (`SubList`), so that
proofs need no induction.

### DeviceMac

The composition of the three processes of an end device. `sig[p]` is the signal
vector of process `p`; `mac_order`, `tracker_order`, `radio_order` and
`own_order` give the order in which an entry tests its signals in each state;
an action `...Takes(state, s)` needs that `s` is the first of them and that no
process before it has a signal (priority 0 for the radio controller, then
tracker and engine in the order of their creation). What an entry does is one
action with all the calls it makes: `RxOk` includes `radio_controller_rx_stop()`,
the timers and the signal to the engine. An assertion that fails, or a signal
that no case takes, sets `halted`; nothing happens afterwards.

* `timer[t]` is the signal that timer `t` will raise, or `Off`. A timer that is
  started must be off (`timer.c:145`), and stopping one does not take back its
  signal (`timer.c:215`). `Expire` and its order of time: the user's bound of a
  reception comes before the radio controller's, which is 50 ms longer; bounds of
  a reception may expire between any two calls of an entry, other timers find the
  device quiet. A delay of 0, for which the engine sets the signal at once, is a
  timer that expires next.
* The tracker's timer, 100 ms before its beacon, may expire while the engine
  sends or receives: the sections of a beacon are meant to lie within its period,
  but a transmission starts at a random moment and ends when the radio says so,
  and neither the kernel nor the engine looks. `overtaken` is a history variable
  that remembers it. Then the tracker takes a reception over; during a
  transmission the assertion of `radio_controller_rx_stop()` stops the device.
* `calm` is a history variable: no join was denied, no timer expired while
  a signal was pending, and the tracker has not overtaken the engine. The
  violations below need one of the first two; the invariant `NoHang` and the
  liveness properties are about calm behaviours, `NothingOverdue` about those
  without overtaking, `RadioHasOneUser` and `ReportsToWhoAsked` about all.
* `tx_due` is the period in which the ACK of the message that is being sent will
  be due; it counts on when the tracker counts a beacon meanwhile.
* The frame buffers are seen from outside: the number of messages to be sent and
  the set of periods, counted in beacons, after which the ACKs of the others are
  due (one frame is sent per period, so a set is enough). `SentAgain(n)` stands
  for the decision between a retry and giving up, which `TxFramesMgmt` has.
* The classes: `allow_tx` is what `mac_engine_is_allow_tx()` says of the beacon.
  A tracked beacon carries the number and class that the tracker has counted to
  (`BeaconCounting` shows when it does); one found by a search, any.
* The poll of the radio every 3 ms (`ROUTINE_CHECK_TIMER`) is part of
  `RadioRaises`; the radio controller has the highest priority, so that nothing
  can be between the poll and its result.

Left out: `LPWAN_DEBUG_ONLY_TRACK_BEACON` and the virtual join (not built),
identifiers and addresses, reception that ends with the first frame and
transmission without random wait (nothing in the device calls them).

### GatewayMac

`signals` is the engine's pending signal vector. An action `Handles(s)` only if
`s` is the first pending one in the order in which the entry of the current
state tests them (`EntryOrder`), and gives the others back, as the main loop
does. A signal that no case takes is the assertion `WrongSignal`. Interactions:

* the radio controller and timers may act between any two runs of the engine;
  the driver and the host interface, of lower priority, only when the engine has
  no signal (`HostRuns`);
* a result of the radio comes once per transmission, failed or not (CCA, CRC,
  timeout are one failure: the engine treats them alike);
* the beacon timer does not expire during transmissions: a beacon and its
  downlinks take at most 12 slots groups of 375 ms of the period of 8 s;
* a frame is received only when the previous one has been read (a frame is
  seconds or at least many milliseconds long, one run of the engine is not).

`beacon` holds what the last beacon said, `slots_downlink_msg` the slots its
ratio gives to downlink frames; `Ack.bcn` and `Frame.due` are history.
`downlink_frames_check` says which frame the k-th ACK announces: the first of
its device that no ACK before it has announced. The pool takes the free block
that `find_any_0_bit_uint32()` finds, a function of the blocks in use; which one
that is makes no difference (`AnyFree`).

Left out: the update of beacon classes and of beacon information (contents of
beacons only), frame formats, virtual joining (off in this build), and the STOP
signal, which nothing raises. `PACKED_ACK_DELAY_NUM` is 1 or 2: from 3 on the
code would index a list with a negative remainder. `gl_cur_tx_downlink_fbuf` is
`NoFrame` once its block is freed (the code keeps the pointer and does not use
it). No received frame carries the gateway's initial number, which no beacon
has.

### KernelTime, Kernel

One round of the loop of `main()` is `ReadsClock`, `UpdatesTimers`, `Runs(p, s)`
or `NothingToRun`, and `EntryReturns`. While an entry runs (`pc = "entry"`) it
may set signals, start and stop timers and read the clock; `taken` is what it
will return. Both interrupts, the systick's and one that sets any signal, come
between any two of these steps: `kernel_main.c:57-61` wants the latter possible.

* A clock is a record [s, ms] and the functions of `timer.c` that compare, add
  and subtract are operators of `KernelTime`. `ElapsedTicks` is one too small
  at an overflow of the counter, as in the code.
* The counter `u32Ms` and the rest `u32delta` are those of `systick.c`, which
  counts `RELOAD_CNT` per interrupt with `CNT_PER_MS` in a millisecond.
* The list holds what the update routine looks at, in the list's order.
  `Position` is the place at which `os_timer_start()` inserts. The walk is
  stated by where it stops (`FirstNotDue`), so that no recursion is needed.
* `os_timer_reconfig()` and `os_timer_start()` are one action, as every caller
  calls one right after the other.
* The loop reads the clock before the counter has made a full round (49 days):
  the guard of the interrupt that says so is the only one the code has not.

Left out: absolute timers and `haddock_timer_sync()`, one-shot timers (neither
has a caller), power saving and IPC messages (not built), and the process table,
which is filled before the loop starts.

### HostUart

Three parties: the main loop, one action per access to what it shares with the
interrupt; the interrupt, one action but for its wait for TC
(`HAL_UART_TxCpltCallback` is the rest, bytes may arrive in between); the line.
The main loop does not move while an interrupt is pending or waits.
`HAL_UART_Transmit_IT` runs in both: as an operator in the interrupt, as the
seven actions `Locks` ... `EnablesTXE` in the main loop, where reading and
assigning the handle's state and setting a bit in CR1 are two steps each.

Assumed of the hardware: a byte written to TDR moves to the idle shifter at
once, so that the interrupt chain runs until the ring is empty and TC; an
interrupt is taken before the next byte is complete, except during the wait for
TC, where a host that is slightly faster makes an overrun. Polls and messages
come at any time; the code polls every 100 ms. `u8RxTimeout` and the tick are
8 bits (`TickMod`), and so is the length (`LengthMod`).

FE stands for framing errors and noise, which the interrupt handles alike; PE
is never set, as the line has no parity bit (`app_hostif.c:807`). An error comes
with a byte that is disturbed on the line, or that overruns the last one.

Three facts of the code appear as history variables, and the properties say
what holds as long as they are false, or how far the code goes wrong when they
are true:

* `cut`: an error of the line during a transmission sets the state to READY and
  leaves TXE enabled (`HU:1148`), and then the interrupt comes back for ever.
* `refused`: a byte or an error that comes while the main loop holds the handle's
  lock does not start reception again (`HU:835`, `HU:773`).
* `torn`: `fifo_Size()` (`cfifo.h:78`) reads the tail twice, and a wrap in
  between gives a length that is `LengthMod - RxSize` too large.

`Listens` and `MainLoopGoesOn` do not say that these do no harm. They say that
nothing else does: an error at any other time, one that waits through the end of
a transmission included, is got over. `LengthIsBytes` says which length is read
in either case; `frame` are the bytes it should count.

Left out: `bTxFlag` and the event of a half-full ring, on which nothing acts,
the `HAL_GetTick()` bound of the wait for TC (a byte takes a fraction of it),
the text commands (not built).

## 3. Runs

| Run | Instance | Shows |
|---|---|---|
| `BeaconCounting` | the real cycle 127, delay 2, fair | InStep, DeltaIsPeriods, ReplyAccepted, FrameSettled |
| `MCTxFramesMgmt` | 3 blocks (symmetric), cycle 0..3, 1 retry, 1 failure, 2 frame numbers, surplus 1 | five invariants, three action properties |
| `PendingCounter` | the same | violated: the assertion on the pending list |
| `DeviceMac` | delay 2, 2 messages, fair | four invariants; ReportsToWhoAsked; KeepsListening, JoinReqSettled |
| `DeviceDenied` | the same | violated: SearchFromInited |
| `DeviceRace` | the same | violated: NoWrongSignal |
| `GatewaySafety` | 2 devices (symmetric), 2 blocks, cycle 0..5, delay 2, 1 ACK per period, channel updates | bookkeeping, ACKs and lists; implements `AckService` |
| `GatewayAnnouncements` | 2 devices, 2 blocks, cycle 0..3, delay 1, 2 ACKs per period, no channel updates, fair | no assertion fails, announced order, beacons for ever; no deadlock |
| `GatewayChannelUpdate` | as GatewaySafety | violated: NoHang |
| `Kernel` | 2 timers, 2 processes, 2 signals, delays 1 and 3, 4 interrupts, 2 calls per entry, 4 ms in a second, counter of 5, 3 counts per interrupt, 2 per ms, fair | the clock keeps time, no timer overdue, implements `TimerService`, timers fire; no deadlock |
| `HostUart` | rings of 3, 3 bytes of the host, 2 of the modem, ticks modulo 4, lengths modulo 8, fair | six invariants, MainLoopGoesOn; no deadlock |
| `HostUartFrameEnd` | the same, 2 bytes of the host and none of the modem | violated: FrameHandedOver |

Why the bounds are enough. Beacon numbers: `BeaconCounting` uses the code's own
128; elsewhere the cycle only has to be longer than twice the delay so that
early, due and late differ, and to be divisible by the number of lists, as 128
is. Frames: three blocks give a frame before, at and behind any other in either
list. Limits of 1 make "below, at, above" reachable for each counter. Two
devices and two blocks give an ACK with and one without a frame pending, two
frames for one device, and an exhausted pool; announcements need two ACKs in a
beacon, which is why that run has room for two. The device: with a delay of 2
and two messages, frames wait for this beacon, the next one and the one after
it, one message can wait while another is to be sent, and the pool can be full.
The kernel: four interrupts of 1.5 ms pass the counter's overflow and the carry
into the seconds, leave every rest, and let timers of 1 and 3 ms be due alone
and together; two calls per entry are a stop and a start, or two timers. What
matters beyond that, any number and width, is proved. The host interface: a ring
of 3 holds 2 bytes, so 3 bytes fill it, wrap both pointers and overrun; 2 bytes
of the modem are one message of two or two of one, and the second finds the
transmitter busy, ending or idle.

`CHECK_DEADLOCK FALSE` is set only where an assertion stops the modem on
purpose (`halted`). Symmetry is used in safety runs only.

### What the violations mean

* `PendingCounter`: after six failed transmissions (with the code's limits) of
  the only pending frame the device stops in an assertion. The other properties
  and the proofs hold in spite of the defect: they are stated so that the
  counter may exceed the list.
* `GatewayChannelUpdate`: a channel update in the round in which the beacon
  timer expires stops the gateway.
* `DeviceDenied`: a join that the gateway denies stops the device at its next
  search, 300 s later, or before that if the tracker, which is still at work,
  reports a beacon to the engine, which does not expect it.
* `DeviceRace`: the few milliseconds in which a frame is handled are enough; the
  50 ms by which the radio controller's bound is longer do not matter for it.
  The shortest case is a search that ends while a frame is waiting to be read.
* `HostUartFrameEnd`: a command whose last byte is followed by a poll within
  the interval is not executed until the host sends something else, and then
  together with it. At 100 ms between polls this is rare; at the 5 ms that the
  comment at `app_hostif.c:352` asks for it would be the normal case.

Some facts are stated by the exact condition of a property instead of a
violation, as nothing in the repository says otherwise; such a property does not
count as one about the fact:

* a downlink frame for a beacon that has no ACKs stays in its list and goes out
  after a later beacon of that list (`FramesInTheirList` permits these frames);
* a message left over from an earlier membership is sent under a new number
  (`SeqKept`);
* a device whose tracker wakes up during a transmission stops
  (`RadioHasOneUser` says what may happen until then);
* the three of the serial line (`cut`, `refused`, `torn`).

## 4. Fairness

* `BeaconCounting`: time passes (`WF Ticktock`) and a device settles a frame
  that is due (`WF Settle`): the track timer and the kernel's loop.
* `DeviceMac`: the kernel's loop goes on (`WF` of each process), a transmission
  ends (`WF` of `RadioRaises` while the radio is sending), and time passes
  (`SF Expire(t)` for each timer: frames from outside may make the device busy
  again and again, but a timer that is not stopped comes to its time, and
  handling a frame is shorter than the frame). Nothing is assumed about beacons,
  other frames or the application.
* `GatewayMac`: the kernel's loop runs the highest-priority process that has a
  signal, and a run ends (`WF Engine`); started timers expire; every
  transmission ends, by success, CCA failure or the radio's timeout
  (`WF RadioTxDone`). `SF StopRx`: in RX_UPLINK a received frame is looked at
  before the beacon that is due, so a frame could disable `StopRx` again and
  again; frames are far longer than one run of the engine, so it is enabled in
  between and taken. Nothing is assumed about the host or the devices.
* `Kernel`: the systick's interrupt comes until the bound, and the loop goes on
  (`WF Loop`, which includes that an entry returns: it makes `MaxCalls` calls at
  most). No process is assumed to be chosen: `TimerFires` does not need it.
* `HostUart`: a pending interrupt is taken and ends its wait (`WF Interrupt`),
  the main loop goes on when no interrupt keeps it (`WF Loop`), the line carries
  its byte, and time passes. The host need not send anything.

## 5. Proofs

Assumptions are the named ASSUMEs of the modules (sizes positive, delay at most
half the cycle, sets finite, model values distinct), which TLC evaluates in
every run.

* `BeaconSeqProofs`: the expected number is ahead by exactly the delay, one more
  beacon brings it one closer, and 0 is the delta of equal numbers only. These
  are arithmetic with case splits on the wrap.
* `BeaconCountingProofs`: the invariant is TypeOK, InStep and DeltaIsPeriods,
  with "a frame waits only while the device tracks". DeltaIsPeriods alone is not
  inductive: a step of the device is a step of the gateway only if they are in
  step.
* `TxFramesMgmtProofs`: the invariant `IInv` is TypeOK, Bookkeeping,
  MembershipScoped, AttemptsBounded and AssertionsHold with the facts they need
  of each other: lists without repetition, disjoint, and together the allocated
  blocks, which makes a counter equal to a cardinality; and `OnAirIsCounted`, that a
  frame which has been on the air has an attempt counted, so that it is not taken
  for a new one. For each action a lemma
  shows that it keeps `IInv`; the action properties follow from `IInv` and a case
  for each action. List lemmas (`InjectiveLength`, `SubListProperties`,
  `ConcatRange`) come first.
* `GatewayMacProofs`: AckOnTime, and that the gateway implements `AckService`,
  channel updates included. AckOnTime speaks of the last beacon only; the
  invariant says of every ACK that it is as many beacons from its own as its
  list is from the current one (`DueInTurn`), which counting a beacon keeps by
  `CountingApproachesExpected`. A restart needs two more facts: lists are empty
  until the current list's number is valid (`EmptyUntilValid`), as the numbers
  -2 and -1 are no lists, and a frame that was received before a restart and is
  read after it answers no beacon of the new count (`FrameToRead`). All steps
  but three leave the ACKs alone (`Quiet`); each of the three has a lemma for
  the invariant and one for the refinement.
* `KernelProofs`: comparing (s, ms) pairs is comparing milliseconds, adding adds
  them (`ComparisonIsOfMs`, `IncrementAdds`, `DeltaIsDistance`); TimeKept for
  any width and frequency; the list is sorted; NoneOverdue; and the loop
  implements `TimerService`. NoneOverdue is not inductive because the update
  routine does nothing while the clock stands still: the invariant adds that no
  timer of the list is due at the time of the last update (`UpdatedOnce`), which
  starting a timer keeps as its delay is positive. That the walk's early stop
  fires all due timers and no other follows from the sorted list.

* `DeviceMacProofs`: TypeOK, NoHang, RadioHasOneUser, NothingOverdue and
  ReportsToWhoAsked, for every delay and number of messages. None of them says
  which signals may be pending, on which all of them depend. The invariant
  `Inv` has two parts. `Users` is about all behaviours, and inductive without
  the rest: who has the radio, who will be told the result of a transmission,
  and what the controller's events and the tracker's timers say of the states.
  RadioHasOneUser and ReportsToWhoAsked follow from it, whether or not the
  tracker has overtaken the engine. `IInv`, which holds until it has, says which
  signals go with which states: the device is in one of twelve phases (`Booting`, `Starting`, ...,
  `Sends`, `Doomed`), each a state of the three processes together with their
  signals and timers. A phase with a reception (`Reception`) tells apart what a
  bound and a frame that come together leave behind: the user's bound and the
  controller's may both be pending for one reception (`BothBounds`), and after
  the first is handled the other is a signal for a state that is over. That is
  `Doomed`, which ends in the next step and which only a device that is not
  calm gets to: a calm one has one signal pending at a time (`OneAtATime`), and
  the process it is for expects it. `Buffers` adds the frames: a beacon that
  acknowledges a frame is received or counted as lost before the next one, so
  that no ACK gets further than due (`Owing`). One lemma per action; those of
  the radio controller share what a reception and a transmission look like to
  it (`GoesOn`, `SendingKeeps`). ReportsToWhoAsked needs besides that no other
  process sets a signal of the radio controller (`NobodyTold`).
* `HostUartProofs`: six invariants, for rings of any size, any number of bytes
  and any interval. The invariant follows a byte from place to place (line,
  register, ring, buffer of the main loop, dispatcher), and says for each of the
  main loop's steps how far an interrupt between it and the next may have gone:
  which of the two has the handle's lock (`HandleLocked`), which flags of the
  transmitter go with which bytes left (`Transmission`, `Pushing`), since when
  a byte has been waiting (`Watched`, `Timed`), that what `HAL_UART_Transmit_IT()`
  has read is still true when it writes it back (`Remembered`), and that the
  bytes counted for a frame come first of those that are and will be read
  (`Reading`). Two assumptions: a ring is no longer than a length can say
  (256 of 8 bits), and the interval is shorter than half the tick's range, as a
  difference of ticks is taken for a signed number (`uart.c:163`); with an
  interval of exactly half of it EndIsSeen is false.
* `GatewayFrameProofs`: TypeOK, Bookkeeping, FramesInTheirList and
  AnnouncedInOrder, for any devices, blocks, ACKs per period and length of the
  lollipop, and delays of 1 and 2. The invariant `FInv` takes `IInv` of the ACKs
  and adds what the four need of each other. FramesInTheirList speaks of the
  frames of the next beacons only, and a step makes others the next ones;
  `InTurn` says of every frame that its list is as far ahead of the current one
  as its beacon is of the last. AnnouncedInOrder is about the rest of what was
  announced; that a new beacon starts from an empty tx list does not follow from
  it, but from what the engine does while there are frames in it (`TxListInUse`:
  the beacon's timer runs, and the beacon or a frame is on its way), and that
  the frame taken off is the first of the list from `CurTxIsFirst`. What a beacon
  does to its list, all its ACKs at once, is proved for one ACK
  (`downlink_frames_check` finds a frame of its device that no other ACK finds),
  then for the frames they move; `At`, the members of a list at some positions,
  carries this with a few lemmas about increasing functions on a set of
  numbers, which is why no induction is needed.
  NoHang is proved for `~ChannelUpdates` (`NoAssertionFails`), and with channel
  updates it is false: `GatewayChannelUpdate` shows how. The phases (`Phase`) say
  for each state of the engine which signals, timers and states of the radio go
  with it.

Only model-checked: all liveness (FrameSettled, KeepsBeaconing, KeepsListening,
JoinReqSettled, TimerFires, MainLoopGoesOn), which is out of the prover's reach;
every other property of the passing runs is a theorem.

## 6. Plan

1. `BeaconCounting` with a gateway that is reset in phase with its old beacons,
   so that a tracked device gets a number that is not the expected one.
2. The memory pool's bit vectors as an implementation of a set of blocks.

## 7. Not modelled

* Most of the repository's C lines are vendored: the CMSIS and device headers
  and the STM32L0 HAL. Of these
  only the HAL's UART interrupt driver and the low-power timer's callback take
  part in what the firmware decides, and they are modelled.
* The SX1278 driver and `lpwan_radio.c`: registers and their times. What they
  report is the radio's results in `DeviceMac` and `GatewayMac`.
* Frame construction and parsing: bit fields without state.
* The external communication protocol: a parser without state of its own but the
  configuration; what it asks for are the actions `Host*` of `GatewayMac`.
* The power manager, IPC messages and the text commands: not built.
* Applications: the creation of the processes, the configuration in EEPROM
  (written and read as a whole), and a periodic test sender.
* The bits of `mem_pool.c` and the links of `linked_list.h`: sets of blocks and
  sequences stand for them; a block freed twice would break Bookkeeping.
