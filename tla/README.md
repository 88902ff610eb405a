# bldc_control: specifications and proofs

TLA+ models of the firmware that watches, and optionally commands, a GIM6010-8
actuator over CAN. They cover the code that decides whether a motor command may
be sent and what its bytes are, the two main loops around it, the CAN adapter below
it, and the two state estimators and the TV-LQR solver beside it. Paths are those of the repository, relative to its root.

## 1. The system

### Components, their state and their operations

| Component | Source | State | Operations | Called by |
|---|---|---|---|---|
| SafetySupervisor | `include/bldc/safety_supervisor.hpp` | last heartbeat tick, has/fresh flags, `armed_`, fault latch, published state | `observe_heartbeat`, `update`, `arm`, `disarm`, `permits_command` | TelemetryApplication; CommandBuilder and the adapter read it |
| TelemetryApplication, HalTickClock | `include/bldc/application.hpp` | telemetry cache, 64-bit clock built from ticks, receive stamps, a supervisor | `ingest`, `update`, `arm`, `disarm` | both mains |
| CAN frame and GIM protocol | `include/bldc/can_frame.hpp`, `include/bldc/gim_protocol.hpp` | none | pack/unpack identifiers, decode heartbeat and encoder estimates | TelemetryApplication, CommandBuilder |
| Stm32BxcanAdapter | `src/stm32_bxcan_adapter.{hpp,cpp}` | `started_`, the peripheral behind it | `initialize`, `poll`, `transmit` | both mains |
| Receive-only firmware | `src/main.cpp` | the loop's position | super loop | reset |
| Transmit tutorial firmware | `src/tx_tutorial_main.cpp` | `previous_arm_input`, `arm_request_pending`, `last_command_ms`, `now_ms` | super loop | reset |
| CommandBuilder | `include/bldc/command_builder.hpp` | limits (constant) | `sanitize`, `compile_mit`, `build_mit` | transmit tutorial |
| StateEstimator | `include/bldc/state_estimator.hpp` | fused state, last IMU timestamp | `reset`, `update_imu`, `update_wheel_odometry`, `update_vslam` | host or tutorial code |
| Kalman filter, EKF | `include/bldc/kalman_filter.hpp` | `KalmanState` (x, P, timestamp, phase) | predict/update, timed or not | host code |
| TV-LQR | `include/bldc/tv_lqr.hpp` | none | `solve_tv_lqr` | host code |
| VSLAM bridge | `host/realsense_d435i_vslam_bridge.py` | none | prints camera records | a shell |

### How they interact

There is one thread, `main`, and no receive interrupt: `main` polls one frame
per iteration, hands it to `TelemetryApplication::ingest`, and calls
`TelemetryApplication::update` whether or not something came. Time is
`HAL_GetTick()`, a 32-bit millisecond counter advanced by the SysTick
interrupt. What runs beside `main` is that interrupt, the bus filling the
three-message receive FIFO, and the transmit mailboxes emptying.

The transmit tutorial adds the operator's switch (an edge arms, a level does
not), a second run-time enable, a 20 ms period, and the chain
`build_mit` -> `AuthorizedFrame` -> `transmit`, which asks the supervisor for
permission three times.

### What is hard here

- the tick wraps after 49.7 days, and every age is an unsigned difference;
- the tick moves between any two statements, and `now_ms` is read once;
- a permission is computed by `update` and used later, and `permits_command()`
  does not look at the clock;
- an arm request outlives the iteration it was made in;
- one heartbeat is recorded in three places by three calls;
- the receive FIFO overwrites, the adapter fails once and for good, and a
  command in a mailbox cannot be taken back;
- loss of the heartbeat is the absence of an event: only time reveals it;
- a frame carries no arrival time: what it spent in the FIFO is not part of its age;
- four fields of twelve bits share bytes, and are truncated when encoded;
- the backward recursion of the LQR solver counts an unsigned index down to zero,
  fills one cost more than gains, and may fail at any index;
- sensor timestamps come from elsewhere and may jump, repeat or go back.

`PROJECT.json` lists each of these at its line, with the properties that cover
it or the reason why none does.

### What makes each component correct

- *SafetySupervisor*: `armed_` implies everything else a permission needs; the
  fault latch is permanent; a lost permission comes back through `arm()` only;
  the published state tells the truth; a permission outlives the last heartbeat
  by a bounded time; a timely heartbeat is never judged stale.
- *TelemetryApplication*: the three records of a heartbeat agree; the 64-bit
  clock is the uptime; both clocks judge a heartbeat alike.
- *Receive firmware*: silence is reported, a fault at the head of the FIFO is
  published; a frame waits for a bounded time, so a heartbeat reported fresh is
  recent.
- *Transmit firmware*: it implements `CommandPermission` (below); commands are
  paced and their heartbeat has a bounded age; silence, a fault and a failed
  adapter end the session.
- *StateEstimator*: time is integrated once; the validity flag refers to the
  newest sample; the estimate does not go back in time.
- *Kalman filter*: every epoch is predicted and corrected once, in order; an
  accepted step leaves an estimate that the next step can use.
- *GIM protocol*: the cache holds what the node reported, whole or not at all.
- *CommandBuilder*: what a node reads out of the bytes is the clamped request, no
  frame exceeds the authority, and the encoding is monotonic in the request.
- *TV-LQR*: a result that says `ok()` is complete; a failed one is filled from the
  end of its horizon and nowhere else; every call returns.

## 2. The modules

| Module | Models |
|---|---|
| `HalTick` | the wrapping tick and the unsigned difference |
| `SafetySupervisor` | the supervisor, one action per method, arbitrary callers |
| `TimedSupervisor` | the supervisor under a clock, with true time beside the tick |
| `GimProtocol` | which frame is which message, and what its bytes say; real 11-bit identifiers, real payload bytes |
| `GimNode` | external: how a node lays out its two reports, the other end of `GimProtocol` |
| `TelemetryApplication` | `ingest` (three returns), `update`, `arm`, `disarm` and the 64-bit clock; `ApplicationSpec`: a caller of them in any order |
| `BxcanAdapter` | the adapter's methods, every return; FIFO and mailboxes external |
| `HalEnvironment` | application and adapter with SysTick and the bus beside them |
| `ReceiveMain` | `src/main.cpp` |
| `ReceiveLatency` | `ReceiveMain` with the arrival times the firmware does not record |
| `TxTutorialMain` | `src/tx_tutorial_main.cpp`, statement by statement |
| `CommandGate` | the gates of `build_mit` and `compile_mit`, as the transmit loop needs them |
| `CommandBuilder` | `sanitize`, `compile_mit`, `build_mit`: clamps, encoding, packing |
| `CommandPermission` | abstract: one press buys one permission, a fault locks for good, commands only under a permission |
| `StateEstimator` | the complementary filter's inputs, timestamps, flags and yaw |
| `KalmanFilter` | predict and update of the linear filter and the EKF, with the order of their checks |
| `TvLqr` | `solve_tv_lqr`, one iteration of the recursion per step |
| `MCReceiveMain`, `MCReceiveLatency`, `MCTxTutorialMain`, `MCCommandBuilder` | the frames, limits and requests of the runs |
| `SafetySupervisorProofs`, `TimedSupervisorProofs`, `ReceiveMainProofs`, `TxTutorialMainProofs`, `CommandBuilderProofs`, `StateEstimatorProofs`, `KalmanFilterProofs`, `TvLqrProofs` | theorems about the module each extends (`SafetySupervisorProofs`: `TelemetryApplication` and what it extends; `ReceiveMainProofs`: `ReceiveLatency` and what it extends) |

`TelemetryApplication` extends `SafetySupervisor` and `GimNode`, which extends
`GimProtocol`; `HalEnvironment` adds `BxcanAdapter`; each main extends
`HalEnvironment`. `ApplicationSpec(Frames)` lets a caller of the application do
anything with any ticks and the given frames; it stands between the supervisor and the
two mains, which are proved to be such callers.
`ReceiveLatency` extends `ReceiveMain`; `CommandBuilder` extends `CommandGate`,
which the transmit loop uses by itself: the loop depends on whether there is a
frame, not on its bytes, and the theorem `GatesDecide` joins the two.

### How state and actions correspond to the code

Variables carry the members' names without the trailing underscore. A method
that returns in several places is a disjunction with one disjunct or action per
return: `SupervisorUpdate` has the four returns of `update`, in the order the
code tests them; `poll` is `PollDelivers`, `PollFindsNothing`, `PollRejects`
and `PollFails`.

A main is a program counter and one action per statement between which
something else can happen. `ReceiveMain` reads the tick for a frame and again
for `update`, each time as the argument of a call: `poll` (`PollFrame`), the read
(`StampFrame`) and `ingest` (`IngestFrame`) are three steps, the read and `update`
two (`ReadTickForUpdate`, `UpdateSafety`), and the tick and the bus move between
any of them. So a place that `poll` frees can be filled before its frame is stamped,
and a tick can be old by the time it is used. `TxTutorialMain` reads the tick once,
at the head of the iteration, and the stamp, the judgement, the period and the
transmission all use that value. The switch and its `disarm()` are one step: nothing
outside `main` can see between them. The loops after a failed `initialize` are the
pairs `ReadTickAfterFailure`, `UpdateAfterFailure` (receive) and `DisarmAfterFailure`,
`UpdateAfterFailure` (transmit). `Goto` is the program counter and stands for no
line of the code.

The two inputs of the transmit tutorial are constants in the source, with a
comment that hardware is read there. The model takes their possible values as
`ArmInputs` and `RuntimeInputs`, and lets them change at every read.

The peripheral is modelled from its configuration: the filter passes standard
data frames, `ReceiveFifoLocked = DISABLE` means a full FIFO overwrites its
newest message, and `AutoRetransmission = DISABLE` means a mailbox empties
after one attempt. `HAL_CAN_AddTxMessage` and `HAL_CAN_GetRxMessage` may report
an error at any call; with no mailbox free the former must.

Auxiliary variables never guard a step of the code: `silent_ms` is the true
time since the last heartbeat, `uptime_ms` the true time since boot, `unread_ms`
the time since main last read the tick, `since_update_ms` that since the last
`update`, `since_command_ms` that since the last command; in the estimator
`first_us`, `offered_us` and `corrected` remember the first sample, the newest
one offered, and whether VSLAM touched the yaw. SysTick is guarded by
`unread_ms < MaxLoopMs` (and, in `TimedSupervisor`, `since_update_ms <
MaxUpdateGap`): these are the bounds on how long the loop takes.

In `ReceiveLatency`, `waits` holds the time each frame of the FIFO has been there,
`taken_ms` that of the frame `poll` has delivered and `ingest` has not taken yet, and
`arrival_ms` that of the last heartbeat main ingested. All three follow the steps of
`ReceiveMain` and stop counting at `MaxWaitMs`, which also stands for nothing to tell:
no frame in hand, no heartbeat yet, or a latched fault, under which `update` judges no
heartbeat any more. Once the adapter has failed no frame is read again, and the waits
are reset and not counted.

A payload is its eight bytes. A `uint32_t` is a pair of halves, because TLC's
integers end at 2^31, and a float its sign, exponent and fraction, which is what
`decode_f32_le` and `std::isfinite` see of it. The `axis_state` and `life_counter` of
a heartbeat are decoded and cached, and nothing reads them.

The builder's quantities are integers in units of 1/1024. A float holds every such
value of the MIT ranges exactly. `encode_range` divides in `double` and truncates; for
these values the quotient truncates to the same code as the integer division of the
model (compared for every value of all five ranges in the unit of the model). `Unpack`
is the node's reading of the bytes, from the layout alone, and external.

The LQR solver is a function; the model gives each iteration a step, so that a
failure can come at any index. A gain or cost is the answer the checks give about it,
or `zero` while nothing was written over the default-constructed solution.

Left out: register values other than those named, the floating-point arithmetic of
the estimators and the solver, roll, pitch and positions of the estimator (computed
from the inputs whose acceptance is modelled).

The yaw of the estimator is an angle in whole units, `Turn` to a circle, and
the gyro of every sample turns one unit per microsecond: the yaw then shows how
much time was integrated. A VSLAM blend moves the yaw by `vslam_yaw_weight` times
the error, and nothing bounds that weight: where there is an error the yaw may end
anywhere, where there is none it stays.

A call of the Kalman filter is a record: timed or not, its timestamp, the set
of *defects* of its arguments (a non-finite matrix, an asymmetric `Q`, a callback
that fails, ...) and the quality of what the arithmetic makes of them. Each
`...Errors` operator is the sequence of the errors a call would give, one `When` per
check in the code's order; the call returns the head, or is accepted if there is
none. The order of the checks is so part of the model. `x` and `P` are kept as the answer the checks give about them
(`usable`, or the first check they fail); `predictions` and `corrections` count
the accepted timed calls of each timestamp.

Definitions named `X_Something` and introduced as a *seeded defect* are not part
of the model: each is a wrong version of `X` that a property must catch.

## 3. The runs

| Run | Question | Bounds |
|---|---|---|
| `timed_supervisor` | supervisor alone, any calls, wrapping tick | tick of 9, timeout 3, update gap 4 |
| `receive_main` | receive firmware, safety | tick of 4, uptime modulo 8, timeout 2, FIFO 2, one tick between two reads, seven frames |
| `receive_latency` | how old the news of the receive firmware is, and that it comes | tick of 4, uptime modulo 4, timeout 1, FIFO 2, one tick between two reads, histories up to 9, three frames |
| `tx_main` | transmit firmware: refinement, safety, liveness | tick of 5, timeout 2, period 2, FIFO 2, one mailbox, one tick per loop, healthy and faulty heartbeats |
| `command_builder` | the bytes of a command | eight sets of limits, requests at, beside and beyond every bound, nodes 0, 63, 64 |
| `estimator` | any inputs, any timestamps | timestamps 0..5, dt at most 2, circle of 5 |
| `kalman` | any calls of both filters on one state | timestamps 0..3, up to two defects per call |
| `tv_lqr` | any problems, failing at any index | capacity 4 (32 in the code), horizons 0..6 |
| `tx_rollover`, `tx_encoder` | violations, section 5 | tick of 6, timeout 2, period 3, FIFO 1, two mailboxes |
| `estimator_gap`, `estimator_pose` | violations, section 5 | as `estimator` |

Why the bounds are enough. What matters about the tick is that it wraps, that a
timeout plus a loop (or update gap) fits in one turn, and that there are ages
on both sides of the timeout; the smallest tick with all three already has the
interesting cases, and the theorems remove the bound where it matters most.
`MonoMod` is two turns of the tick in `receive_main`, so that the 64-bit clock
is seen to count turns. A FIFO of two is the least in which the head is safe
from being overwritten; one of one makes every arrival overwrite. At most one tick
passes between two reads of it, in both loops, and it may pass between any two
statements; with `MaxWaitMs` at the bound of `FreshMeansRecentArrival` the histories
count far enough to break it, and both bounds of `receive_latency` are exact: waits of
5 and a fresh heartbeat 8 old occur. That run has the bus it needs for its questions (a
healthy heartbeat, a faulty one, a frame that is polled and ignored), which keeps the
graph small enough for liveness.

The frames of `receive_main` are one of each kind the adapter and the decoders
distinguish: a healthy heartbeat with the trajectory-done bit, a faulty one,
estimates, estimates with an infinity in the second word, another node's fault, and
a length code above eight, which the filter passes and `poll` refuses, and an extended
identifier; two of their words are those of the unit tests. The limits of `command_builder` include one-sided ones,
the full wire range, and three invalid sets; its two golden frames are those of
`test_domain`. Timestamps up to 5 with steps of at most 2 give steps that fit, gaps,
repetitions and reversals. Two defects in one call are what it takes to see which of
two checks comes first. A capacity of 4 leaves entries beyond the horizon, on both
sides of the failing index, and horizons above the capacity by one and by two.

All runs check for deadlock, and there is none: the clock or main can always move.

### What the runs show

`timed_supervisor`: `ArmedIsHealthy`, `StateMatchesFlags`,
`FaultLatchIsPermanent` and `PermissionOnlyByArm` are the supervisor's own
contract. `PermissionAgeBound`, `RetainedOnlyWhileTimely` and `NoFalseStale`
relate the permission to true time. `PermissionAgeBound` has to exclude a
silence of a full turn of the tick; that exclusion is finding 1.

`receive_main`: `HeartbeatRecordsAgree`, `MonotonicClockIsUptime` and
`FreshnessMatchesStamps`, wherever SysTick fires. `CacheHoldsReports` puts each cached value on the wire again, with the
node's own encoders (`GimNode`), and finds it among the frames of the bus: no other
frame leaves a trace, not even half of one. Only the reserved byte of a heartbeat is
free.

`receive_latency`: a frame of a running loop waits at most `(2 * FifoDepth + 1) *
MaxLoopMs` in the FIFO (`WaitIsBounded`): two reads of the tick for each place, and one
more because the place `poll` frees can be filled before the read that follows it.
The frame in hand then waits at most as long before it is stamped. So a heartbeat that
is reported fresh arrived less than the timeout, that wait and three reads of the tick
ago (`FreshMeansRecentArrival`), although the firmware stamps it when it is read.
`SilenceIsReported` and `FaultIsPublished` are the liveness of the receive firmware,
checked under `LatencySpec`, which has its fairness.

`tx_main`: `ImplementsCommandPermission` is the refinement of
`CommandPermission` under the mapping *press* = edge memory and pending request,
*permission* = `permits_command()`, *locked* = fault latch, *outbox* = mailboxes.
It covers re-arming after stale heartbeats, requests that wait for a heartbeat,
and every way a frame can reach a mailbox. `CommandHeartbeatAge`,
`SessionEndsBeforeRollover` and `CommandsArePaced` bound what the single read
of `now_ms` costs. `SilenceRevokes`, `FailedAdapterRevokes` and `FaultIsLatched` are
its liveness.

`command_builder`: `WireCarriesRequest`, `AuthorityBoundsWire` and
`WireFollowsRequest` speak of what a node reads out of the eight bytes. Codes are
truncated, so the value read may be short of the request by less than one code; at a
lower limit that is *beyond* the limit, and `AuthorityBoundsWire` says by how much.

`estimator`: `YawIntegratesElapsedTime`, `ValidMeansNewest`, `ImuOrderIsKept`.

`kalman`: `EpochsArePaired` says of each timestamp how often it was predicted
and corrected, whatever calls were refused in between; the other side of it is
that after a timed predict only the update of the same timestamp is accepted,
so a measurement that never comes stops the filter. `UsableIsKept` says that no
accepted step leaves an estimate the next call would refuse.

`tv_lqr`: `OkMeansComplete`, `FilledIsSuffix` and `CallReturns`: which entries a caller
finds after a success and after a failure at any index, and that there is always an
answer.

### Fairness

`WF(Main)` and `WF(Interrupt)`: the processor keeps executing the only thread,
which never blocks (the loops contain no delay and no waiting call), and the
SysTick interrupt keeps firing. Nothing is assumed of the bus, of the mailboxes,
of the HAL's result codes or of the inputs; silence for ever is one of the
behaviours `SilenceRevokes` speaks about. `WF(Solve)` in `TvLqr`: a call that has begun
keeps running; whether there is another is the caller's choice. The supervisor, the
builder, the estimator and the filter are called or not, with no fairness.

## 4. What is proved

The theorems go up a chain of refinements, and each is proved at the lowest place it
holds at:

    SafetySpec  <=  ApplicationSpec(Frames)  <=  ReceiveMain, TxTutorialMain
    SafetySpec  <=  TimedSupervisor          CommandPermission  <=  TxTutorialMain
                                             ReceiveMain        <=  ReceiveLatency

### The supervisor and the application, for any caller

`SafetySupervisorProofs`, for every tick width above 1 and every timeout that
fits in a tick, with callers that call anything in any order with any ticks.

Of the supervisor: `SafetyTypeCorrect`, `ArmedIsAlwaysHealthy`,
`StateAlwaysMatchesFlags`, `LatchIsPermanent`, `PermissionIsOnlyByArm`. The inductive
invariant is the conjunction of type correctness, `ArmedIsHealthy` and
`StateMatchesFlags`. None of the last two is inductive alone: under a latch `update`
leaves `heartbeat_fresh_` untouched, and only `StateMatchesFlags` knows that it is set
there.

Of the wire: `HeartbeatReachesItsReader` and `EstimatesReachTheirReader`. A report,
encoded as a node encodes it and decoded as the firmware decodes it, is the report, in the
firmware that expects this node, and nothing in any other; neither kind of frame is read
as the other; estimates with a word that is no finite number are refused whole. The other
direction (`HeartbeatWasSent`, `EstimatesWereSent`): what is decoded at all, encoded
again, is the frame. Both rest on the arithmetic of four bytes, two halves and the
three fields of a float (`HalfOfBytes`, `HalfOfFields` and their inverses).

Of the application, about `ApplicationSpec(Frames)` for any set of frames:
`ApplicationImplementsSafety` (its supervisor sees what `SafetySpec` allows, so the
theorems above hold in it), `ApplicationRecordsAgree`, and, when the frames are CAN
frames, `ApplicationTypeCorrect` and `ApplicationCacheCameFrom`.
`UpdateAlwaysJudgesAlike` says that after every `update` the 32-bit age and the 64-bit
stamps agree. It rests on a congruence: the 64-bit clock and both receive stamps fall,
modulo the tick, on the raw tick they were made from (`ClocksAreTyped`), so the
difference of two of them falls on the wrapped age (`DifferenceShowsAge`). The
inductive invariant of the application is `ApplicationInv`, the conjunction of the
supervisor's, `ClocksAreTyped` and `RecordsInvariant`.

### The supervisor under a clock

`TimedSupervisorProofs`, under `MaxUpdateGapAssumption` (the timeout is positive
and timeout plus update gap fit in a turn of the tick):
`TimedTypeCorrect`, `TimedImplementsSafety` (so the theorems above hold under a
clock as well), `PermissionAgeIsBounded`, `TimelySessionStaysTimely` and
`TimelyHeartbeatIsNeverStale`. Two invariants carry them:

- `AgeIsTrue`: while less than a turn has passed since the last heartbeat, the
  unsigned difference is the true age. It needs the lemma that the difference
  grows by one per tick across the wrap (`TickAgeNext`).
- `FreshIsTimely`: the freshness flag, and not only the permission, is on a
  timely heartbeat. `PermissionAgeBound` is not inductive without it, because
  `arm()` turns an old freshness flag into a permission.

### The receive firmware

`ReceiveMainProofs`, for every width of the two clocks, timeout, bound on the loop,
depth of the FIFO and set of frames:

- `ReceiveImplementsApplication` and, through it, `ReceiveImplementsSafety`,
  `RecordsAlwaysAgree` and `CacheAlwaysHoldsReports` (the last for CAN frames).
- `FreshnessAlwaysMatchesStamps`: after every update, that is, whenever `main` is back
  at the poll. `update` itself restores the agreement whatever came before it
  (`UpdateJudgesAlike`), and neither the interrupt nor the bus touches it.
- `MonotonicClockIsAlwaysUptime`, under the hypothesis `3 * MaxLoopMs < TickMod`: a
  frame that `ingest` ignores reads the tick and does not advance the clock, so two
  reads may lie between two advances, the time since the last read comes on top, and
  all of it must fit in a turn. The invariant is `ClockTrails`: the clock is behind by
  the age of `now_ms` (`NowAgeIsTrue`) and by what an advance to `now_ms` would add,
  which the reads of the tick since the last `update` bound (`SinceUpdate`).
- `SilenceIsAlwaysReportedInTime`: the deadline of `SilenceIsReported`. A heartbeat that
  has been missing for the timeout and three reads of the tick is reported at every
  moment from then on, until a full turn of the tick has gone by; what brings the next
  `update` is left to fairness. `AgeInvariant` bounds the age of a set freshness flag;
  `HidingIsYoung` says that only a heartbeat of the iteration in progress can have
  written over a published latch (`LatchIsAlwaysPublished`).
- `FaultAtHeadIsNeverLost`, for a FIFO deeper than one message and CAN frames: the safety
  half of `FaultIsPublished`. A fault report at the head stays there, whatever is overrun
  behind it, until `poll` takes it, and in main's hand until the call that latches and
  publishes it; not even an adapter failure takes it away.
- `ReceiveNeverCommands`: it never arms, permits or transmits.
- `LatencyImplementsLoop`, so that the next two speak of the same loop:
  `WaitIsAlwaysBounded` and `FreshAlwaysMeansRecentArrival`, about `LatencySpec`. A frame
  has waited no longer than `Backlog` allows at its place in the FIFO, what the reads of
  the tick since the last poll have hidden (`Delay`) and the time since the last read;
  main moves every frame down one place per iteration (`WaitsAreShort`), and
  `TakenIsYoung` follows the frame in hand to its stamp. `AgeInvariant` says that a
  fresh heartbeat was stamped recently, `ArrivalMatchesSilence` that it had not waited
  long by then.
- `ReceiveTypeCorrect`, when `BusFrames` are CAN frames: little-endian words of four
  bytes are words, the FIFO stays within its depth, both clocks within their widths.

### The transmit firmware

`TxTutorialMainProofs`, for every tick, timeout, period, bound on the loop, depth of
the FIFO, number of mailboxes, set of frames and inputs:

- `FirmwareImplementsPermission`: the refinement of `CommandPermission`, and
  `PermissionIsAlwaysPaidFor`: a permission is only held on a switch that was down and a
  request that is used up.
- `TxImplementsApplication`: each step is a call of one application method with a tick
  and a frame of the bus, or none (`StepCallsApplication`); through it
  `FirmwareImplementsSafety`, `TxRecordsAlwaysAgree` and `TxCacheAlwaysHoldsReports`,
  which no run of this loop checks.
- `CommandAgeIsBounded`, `CommandsAreAlwaysPaced`, and
  `CommandsAlwaysRestOnHealthyReport`: the cached report behind a command tells of no
  fault.
- `SilenceAlwaysRevokesInTime` and `TxSilenceIsAlwaysReportedInTime`: `SilenceRevokes` and
  the report of silence with their deadline, the timeout and two iterations
  (the tick that judges is up to one iteration old). `TxLatchIsAlwaysPublished` as above.
- `FaultOrLossEndsCommands`: from the step on that latches a fault or finds the adapter
  lost, no command is handed over again, ever. `FaultAtHeadIsNeverLost` as above, the
  safety half of `FaultIsLatched`.
- `SessionAlwaysEndsBeforeRollover`, under the hypothesis that the timeout and two
  iterations fit in a turn of the tick. Without it the loop may look too seldom to
  see the age pass through the stale range.
- `TxMonotonicClockIsAlwaysUptime`, under `2 * MaxLoopMs < TickMod`: the clock is advanced
  by `now_ms`, which is already old, and the invariant `ClockTrails` says by how much
  it trails: by what this iteration has taken and, until the first advance of the
  iteration, by the last one as well.
- `TxTypeCorrect`, when `BusFrames` are CAN frames: neither the FIFO nor the mailboxes are
  overfilled, and every tick, stamp and clock stays within its width.

`LoopInvariant` carries the refinement: a permission is only held with the edge
memory set and the request spent (`RequestIsSpent`), or the mapping of *press* would
grant twice. `TimeInvariant` carries the bounds: within a turn the wrapped age of the
stamp is the true silence (`StampAgeIsTrue`), `now_ms` is as old as `unread_ms` says
(`NowAgeIsTrue`), and a set freshness flag is on a heartbeat younger than the timeout
plus this iteration, or, until `update` is reached, this one and the last
(`FreshIsYoung`). `PaceIsTrue` says the same of `last_command_ms`.

### The libraries beside the firmware

`CommandBuilderProofs`, for any limits, any integer requests and any nodes:
`BuilderTypeCorrect`, `WireAlwaysCarriesRequest`, `AuthorityAlwaysBoundsWire`,
`WireAlwaysFollowsRequest`, and `GatesDecide` (there is a frame exactly when
`CommandGate` says so). They rest on two lemmas: the encoding truncates
(`EncodeTruncates`) and packing is invertible (`PackIsInvertible`).

`StateEstimatorProofs`, for every circle, range of timestamps, step limit and set of
speeds: `EstimatorTypeCorrect`, `YawAlwaysIntegratesElapsedTime`,
`ValidAlwaysMeansNewest`, `ImuOrderIsAlwaysKept`, and `GapsAreNeverBridged`: but for a
reset the reference time moves by at most the step limit, which makes finding 3 of
section 5 a theorem about every gap and not one trace. The unsigned difference of the code
makes a step back look very long; `EstimatorAssumption` says that the 64-bit
range is wide enough for it to be refused. The strengthening is `NoSampleNoStamp`.

`KalmanFilterProofs`, for any number of timestamps and of defects:
`KalmanTypeCorrect`, `EpochsAreAlwaysPaired`, `UsableIsAlwaysKept`, and
`EpochsAlwaysAlternate`: a timed state moves only by closing the open epoch with its own
update or opening a later one, so a measurement that never comes stops it. Each filter's
sequence of errors is empty only if the checks the properties need did not fire
(`CallsAreGuarded`), wherever in the sequence they stand. `EpochsArePaired` needs
`CurrentEpochIsPredicted` beside it.

`TvLqrProofs`, for every capacity: `LqrTypeCorrect` (no index outside its array),
`OkIsAlwaysComplete`, `FilledIsAlwaysSuffix`, and `CallAlwaysShrinks`: every step of a
call lowers `StepsLeft`, a natural number, which is all `CallReturns` needs besides
fairness. The invariant `LqrInv` describes the
recursion between two indices: nothing below, sound above, and the entry at the
index sound unless the call failed there.

### Assumptions, and what stays with TLC

Assumptions: `TickModAssumption`, `MonoModAssumption` (the 64-bit clock is a multiple
of a turn of the tick), `HeartbeatTimeoutAssumption` (a 32-bit value),
`MaxUpdateGapAssumption`, `MaxLoopAssumption` (two reads of the tick are less than a turn apart),
`TxAssumption`, `NodeIdAssumption`, `AdapterAssumption`, `InputAssumption`,
`EstimatorAssumption`, `KalmanAssumption`, `MaxHorizonAssumption`. TLC evaluates each
on a run that uses it.

`BusFrames` is a parameter: the theorems hold whatever the bus carries, and only the
types of the firmware, `CacheAlwaysHoldsReports`, `TxCacheAlwaysHoldsReports` and
`FaultAtHeadIsNeverLost` ask for well-formed frames.

Every invariant and every action property that a passing run checks is stated by a
theorem. Only model-checked are the six liveness properties, which need fairness and
ENABLED, out of the prover's reach: `SilenceIsReported`, `FaultIsPublished`,
`SilenceRevokes`, `FailedAdapterRevokes`, `FaultIsLatched`, `CallReturns`. Of all but
`FailedAdapterRevokes` the part without fairness is proved, as a deadline, a report that
is never lost, or a variant; of that one, that a lost adapter ends all commands.

## 5. Where code and documents disagree

1. **Rollover** (`tx_rollover`). `update` judges the wrapped age afresh each
   time and forgets that the heartbeat was stale already. After a full turn of
   the tick without a heartbeat it is fresh again for one timeout window, and
   `arm()` succeeds. A session cannot be *carried* there
   (`SessionEndsBeforeRollover`); it can be started there.
2. **Encoder freshness** (`tx_encoder`). The overview demands no command on a
   stale encoder; nothing reads the encoder's receive stamp.
3. **One gap silences the estimator** (`estimator_gap`). A refused sample does
   not move the reference time, so every later sample is refused as well.
4. **Old VSLAM poses** (`estimator_pose`). `update_vslam` does not compare
   timestamps.

Two observations no document contradicts outright, and so without a run:

- Truncation at a lower limit puts a wire value up to one code below it, also
  when the limits are zero (`command_builder.hpp:287`): a torque of zero is read as
  slightly negative. `AuthorityBoundsWire` is stated with that code of slack.
- The edge memory of the switch starts at false (`tx_tutorial_main.cpp:115`), so a
  reset with the switch on counts as a press (`tx_tutorial_main.cpp:145`). The
  refinement starts from a released switch as the code does, and allows it.

## 6. Not modelled, and the plan

Not modelled:

- the host VSLAM bridge: a script that copies the metadata of camera frames to JSON
  lines in one loop. It keeps no state, and nothing in the firmware reads its output.
- the tutorials and tests: straight-line uses of the components above.
- clock-tree, GPIO and bit-timing register values: one success or failure of
  `initialize`.
- the floating-point arithmetic of the estimators and the solver: kept as what the
  code's own checks can tell of its results.

What the plan has left: the types and the adapter lemmas of the two loops are proved
once for each; they could be proved once about `HalEnvironment`.
