--------------------------- MODULE ReceiveMainProofs ---------------------------
(***************************************************************************)
(* Theorems about the receive-only firmware, for every width of the two    *)
(* clocks, every timeout, every depth of the FIFO and every set of frames  *)
(* on the bus.  ReceiveLatency only adds a history to the loop, so one     *)
(* module serves both.                                                     *)
(***************************************************************************)
EXTENDS ReceiveLatency, SafetySupervisorProofs

------------------------------------------------------------------------------
(* Time, and the calls of the application. *)

LoopIsTyped ==
    /\ uptime_ms \in Mono /\ unread_ms \in 0 .. MaxLoopMs /\ silent_ms \in 0 .. TickMod
    /\ pc \in {"boot", "failed", "failed_update", "poll", "stamp", "ingest", "read_tick", "update"}
    /\ now_ms \in Tick
    /\ frame # None <=> pc \in {"stamp", "ingest"}
    /\ frame # None => frame[1] \in BusFrames

(* main's copy of the tick is as old as the counter of true time says. *)
NowAgeIsTrue == TickAge(HalGetTick, now_ms) = unread_ms

(* The longest time by which that copy can be younger than the one the last update *)
(* judged with: the reads of the tick since.                                       *)
SinceUpdate ==
    IF pc = "update" THEN 2 * MaxLoopMs
    ELSE IF pc \in {"ingest", "read_tick", "failed_update"} THEN MaxLoopMs ELSE 0

(* What main reads is a tick. *)
LEMMA HalGetTickType ==
    ASSUME uptime_ms \in Mono
    PROVE  HalGetTick \in Tick
<1>1. uptime_ms \in Int
    BY MonoModAssumption DEF Mono
<1> QED
    BY <1>1, TickOfTime DEF HalGetTick

(* The tick follows the uptime, across the wrap of either. *)
LEMMA HalGetTickNext ==
    ASSUME uptime_ms \in Mono, uptime_ms' = MonoPlus(uptime_ms, 1)
    PROVE  uptime_ms' \in Mono /\ HalGetTick' = NextTick(HalGetTick)
<1> USE MonoModAssumption, TickModAssumption DEF Mono
<1>1. uptime_ms + 1 \in Int /\ uptime_ms \in Int /\ uptime_ms + 1 <= MonoMod
    OBVIOUS
<1>2. (uptime_ms + 1) % TickMod = NextTick(HalGetTick)
    BY <1>1, TickOfNext DEF HalGetTick
<1>3. CASE uptime_ms + 1 < MonoMod
    <2>1. uptime_ms' = uptime_ms + 1
        BY <1>3 DEF MonoPlus
    <2> QED
        BY <1>2, <1>3, <2>1 DEF HalGetTick
<1>4. CASE uptime_ms + 1 = MonoMod
    <2>1. uptime_ms' = 0
        BY <1>4 DEF MonoPlus
    <2>2. 0 \in Tick /\ 0 = TickMod * 0 + 0
        BY DEF Tick
    <2>3. 0 % TickMod = 0
        BY <2>2, TickIsRemainder
    <2> QED
        BY <1>2, <1>4, <2>1, <2>3 DEF HalGetTick
<1> QED
    BY <1>1, <1>3, <1>4

(* The steps of the loop, by what they do to time and to the application. *)

ReadStep == StampFrame \/ ReadTickForUpdate \/ ReadTickAfterFailure

UpdateStep == UpdateSafety \/ UpdateAfterFailure

QuietStep == BootSucceeds \/ BootFails \/ PollFrame \/ PollInVain \/ Bus \/ UNCHANGED vars

LEMMA StepKinds ==
    ASSUME [Next]_vars
    PROVE  ReadStep \/ UpdateStep \/ IngestFrame \/ Interrupt \/ QuietStep
BY DEF Next, Main, ReadStep, UpdateStep, QuietStep

LEMMA ReadEffect ==
    ASSUME ReadStep
    PROVE  /\ UNCHANGED << application_vars, adapter_vars, uptime_ms, silent_ms, frame >>
           /\ now_ms' = HalGetTick /\ HalGetTick' = HalGetTick /\ unread_ms' = 0
           /\ \/ pc = "stamp" /\ pc' = "ingest"
              \/ pc = "read_tick" /\ pc' = "update"
              \/ pc = "failed" /\ pc' = "failed_update"
BY DEF ReadStep, StampFrame, ReadTickForUpdate, ReadTickAfterFailure, ReadNow, ReadTick, Goto,
       HalGetTick

LEMMA UpdateEffect ==
    ASSUME UpdateStep
    PROVE  /\ Update(now_ms) /\ HalGetTick' = HalGetTick
           /\ UNCHANGED << adapter_vars, uptime_ms, unread_ms, silent_ms, frame, now_ms >>
           /\ \/ pc = "update" /\ pc' = "poll"
              \/ pc = "failed_update" /\ pc' = "failed"
BY DEF UpdateStep, UpdateSafety, UpdateAfterFailure, UpdateApplication, Goto, HalGetTick,
       time_vars, loop_vars

LEMMA IngestEffect ==
    ASSUME IngestFrame
    PROVE  /\ Ingest(frame[1], now_ms) /\ HalGetTick' = HalGetTick
           /\ silent_ms' = IF HasValue(DecodeHeartbeat(frame[1], NodeId)) THEN unread_ms
                           ELSE silent_ms
           /\ UNCHANGED << adapter_vars, uptime_ms, unread_ms, now_ms >>
           /\ frame' = None /\ pc = "ingest" /\ pc' = "read_tick"
BY DEF IngestFrame, Receive, Goto, HalGetTick

LEMMA QuietEffect ==
    ASSUME QuietStep
    PROVE  /\ UNCHANGED << application_vars, uptime_ms, unread_ms, silent_ms, now_ms >>
           /\ HalGetTick' = HalGetTick
           /\ \/ UNCHANGED << pc, frame >>
              \/ pc = "boot" /\ pc' \in {"poll", "failed"} /\ frame' = frame
              \/ pc = "poll" /\ pc' = "read_tick" /\ frame' = frame
              \/ /\ pc = "poll" /\ pc' = "stamp"
                 /\ \E polled \in BusFrames : frame' = Some(polled)
BY DEF QuietStep, BootSucceeds, BootFails, PollFrame, PollInVain, Bus, Peripheral, Goto,
       HalGetTick, vars, time_vars, loop_vars

LEMMA InterruptEffect ==
    ASSUME Interrupt
    PROVE  /\ UNCHANGED << application_vars, adapter_vars, pc, frame, now_ms >>
           /\ unread_ms < MaxLoopMs /\ unread_ms' = unread_ms + 1
           /\ uptime_ms' = MonoPlus(uptime_ms, 1)
           /\ silent_ms' = IF silent_ms < TickMod THEN silent_ms + 1 ELSE TickMod
BY DEF Interrupt, SysTick, loop_vars

LEMMA LoopStartsTyped == Init => LoopIsTyped /\ NowAgeIsTrue
<1> SUFFICES ASSUME Init PROVE LoopIsTyped /\ NowAgeIsTrue
    OBVIOUS
<1>1. /\ 0 \in Mono /\ 0 \in 0 .. MaxLoopMs /\ TickMod \in 0 .. TickMod /\ 0 \in Tick
      /\ 0 = TickMod * 0 + 0
    BY TickModAssumption, MonoModAssumption, MaxLoopAssumption DEF Mono, Tick
<1>2. 0 % TickMod = 0
    BY <1>1, TickIsRemainder
<1> QED
    BY <1>1, <1>2, TickAgeSelf DEF Init, TimeInit, LoopIsTyped, NowAgeIsTrue, HalGetTick

LEMMA LoopStaysTyped ==
    ASSUME LoopIsTyped, NowAgeIsTrue, [Next]_vars
    PROVE  LoopIsTyped' /\ NowAgeIsTrue'
<1> USE DEF LoopIsTyped, NowAgeIsTrue
<1>1. /\ 0 \in 0 .. MaxLoopMs /\ HalGetTick \in Tick
      /\ MaxLoopMs \in Nat /\ MaxLoopMs < TickMod /\ TickMod \in Nat
    BY MaxLoopAssumption, TickModAssumption, HalGetTickType
<1>2. CASE ReadStep
    <2>1. TickAge(HalGetTick, HalGetTick) = 0
        BY <1>1, TickAgeSelf
    <2> QED
        BY <1>1, <1>2, <2>1, ReadEffect
<1>3. CASE UpdateStep
    BY <1>3, UpdateEffect
<1>4. CASE IngestFrame
    <2>1. silent_ms' \in 0 .. TickMod
        BY <1>1, <1>4, IngestEffect
    <2> QED
        BY <1>4, <2>1, IngestEffect
<1>5. CASE Interrupt
    <2>1. uptime_ms' \in Mono /\ HalGetTick' = NextTick(HalGetTick)
        BY <1>5, HalGetTickNext, InterruptEffect
    <2>2. unread_ms' \in 0 .. MaxLoopMs /\ silent_ms' \in 0 .. TickMod
        BY <1>1, <1>5, InterruptEffect
    <2>3. TickAge(HalGetTick', now_ms) = unread_ms + 1
        BY <1>1, <1>5, <2>1, TickAgeNext, InterruptEffect
    <2> QED
        BY <1>5, <2>1, <2>2, <2>3, InterruptEffect
<1>6. CASE QuietStep
    BY <1>6, QuietEffect DEF Some, None
<1> QED
    BY <1>2, <1>3, <1>4, <1>5, <1>6, StepKinds

(* main never arms, so its calls are a frame, an update, or none. *)
LEMMA StepIsACall ==
    ASSUME [Next]_vars
    PROVE  \/ IngestFrame /\ Ingest(frame[1], now_ms)
           \/ UpdateStep /\ Update(now_ms)
           \/ UNCHANGED application_vars
BY StepKinds, ReadEffect, UpdateEffect, IngestEffect, InterruptEffect, QuietEffect

(* The loop is a caller of the application: every step is one of its methods, with *)
(* a tick and a frame of the bus, or none.                                         *)
LEMMA LoopCallsApplication ==
    ASSUME LoopIsTyped, [Next]_vars
    PROVE  [ApplicationNext(BusFrames)]_application_vars
<1>1. CASE IngestFrame /\ Ingest(frame[1], now_ms)
    <2>1. frame[1] \in BusFrames /\ now_ms \in Tick
        BY <1>1, IngestEffect DEF LoopIsTyped
    <2> QED
        BY <1>1, <2>1 DEF ApplicationNext
<1>2. CASE Update(now_ms)
    BY <1>2 DEF ApplicationNext, LoopIsTyped
<1> QED
    BY <1>1, <1>2, StepIsACall

LoopInvariant == LoopIsTyped /\ NowAgeIsTrue /\ ApplicationInv

LEMMA LoopStartsSound == Init => LoopInvariant
BY LoopStartsTyped, ApplicationStartsSound DEF Init, LoopInvariant

LEMMA StepKeepsLoopInvariant ==
    ASSUME LoopInvariant, [Next]_vars
    PROVE  LoopInvariant'
BY LoopStaysTyped, LoopCallsApplication, CallsKeepApplication DEF LoopInvariant

(* The numbers of the invariant. *)
LEMMA LoopTypes ==
    ASSUME LoopInvariant
    PROVE  /\ HalGetTick \in Tick /\ now_ms \in Tick /\ uptime_ms \in Mono
           /\ unread_ms \in Nat /\ unread_ms <= MaxLoopMs
           /\ silent_ms \in Nat /\ silent_ms <= TickMod
           /\ HeartbeatTimeout \in Nat /\ MaxLoopMs \in Nat /\ MaxLoopMs > 0
           /\ MaxLoopMs < TickMod /\ TickMod \in Nat
           /\ SinceUpdate \in {0, MaxLoopMs, 2 * MaxLoopMs}
BY HalGetTickType, MaxLoopAssumption, TickModAssumption, HeartbeatTimeoutAssumption
DEF LoopInvariant, LoopIsTyped, Tick, SinceUpdate

LEMMA LoopInvariantHolds == Spec => []LoopInvariant
BY LoopStartsSound, StepKeepsLoopInvariant, PTL DEF Spec

(* main drives the application by its own methods only: each of its steps, SysTick *)
(* and the bus between them included, is one call of it or none.                   *)
THEOREM ReceiveImplementsApplication == Spec => ApplicationSpec(BusFrames)
<1>1. Init => ApplicationInit
    BY DEF Init
<1>2. LoopInvariant /\ [Next]_vars => [ApplicationNext(BusFrames)]_application_vars
    BY LoopCallsApplication DEF LoopInvariant
<1> QED
    BY <1>1, <1>2, LoopInvariantHolds, PTL DEF Spec, ApplicationSpec

(* So the supervisor inside it is used as SafetySpec allows. *)
THEOREM ReceiveImplementsSafety == Spec => SafetySpec
BY ReceiveImplementsApplication, ApplicationImplementsSafety

(* Cache, stamp and supervisor never part, whatever arrives in which order and *)
(* wherever SysTick fires.                                                     *)
THEOREM RecordsAlwaysAgree == Spec => []HeartbeatRecordsAgree
BY ReceiveImplementsApplication, ApplicationRecordsAgree

(* When the bus carries CAN frames, nothing is in the cache that one of them does *)
(* not carry: the value is that frame's, to the bit, and the frame this node's.   *)
THEOREM CacheAlwaysHoldsReports ==
    ASSUME BusFrames \subseteq CanFrame
    PROVE  Spec => []CacheHoldsReports
<1>1. Init => CacheInv(BusFrames)
    BY CacheStartsEmpty DEF Init
<1>2. LoopInvariant /\ CacheInv(BusFrames) /\ [Next]_vars => CacheInv(BusFrames)'
    BY LoopCallsApplication, CallsKeepCache DEF LoopInvariant, ApplicationInv, RecordsInvariant
<1>3. CacheInv(BusFrames) => CacheHoldsReports
    BY DEF CacheInv, CacheHoldsReports
<1> QED
    BY <1>1, <1>2, <1>3, LoopInvariantHolds, PTL DEF Spec

------------------------------------------------------------------------------
(* The 64-bit clock counts the uptime. *)

(* How old the clock's last tick was when main read its copy: what an advance to *)
(* that copy adds.                                                               *)
Behind == TickAge(now_ms, clock.last_raw_ms)

(* Every iteration advances the clock, though not at every read of the tick. *)
ClockTrails ==
    /\ clock.initialized =>
          /\ TickAge(HalGetTick, clock.last_raw_ms) = unread_ms + Behind
          /\ Behind <= SinceUpdate
    /\ ~clock.initialized => now_ms + unread_ms = uptime_ms /\ now_ms <= SinceUpdate

UptimeInvariant == LoopInvariant /\ ClockTrails /\ MonotonicClockIsUptime

LEMMA ClockTypes ==
    ASSUME LoopInvariant
    PROVE  /\ ClockIsTyped(clock) /\ clock.last_raw_ms \in Tick /\ clock.monotonic_ms \in Mono
           /\ Behind \in Nat /\ now_ms \in Nat /\ MonoMod \in Nat /\ MonoMod >= TickMod
<1>1. ClockIsTyped(clock) /\ now_ms \in Tick
    BY DEF LoopInvariant, LoopIsTyped, ApplicationInv, ClocksAreTyped
<1>2. clock.last_raw_ms \in Tick /\ clock.monotonic_ms \in Mono
    BY <1>1 DEF ClockIsTyped
<1>3. TickAge(now_ms, clock.last_raw_ms) \in Tick
    BY <1>1, <1>2, TickAgeType
<1> QED
    BY <1>1, <1>2, <1>3, MonoModAssumption DEF Behind, Tick

LEMMA SmallUptimeIsTheTick ==
    ASSUME uptime_ms \in Nat, uptime_ms < TickMod
    PROVE  HalGetTick = uptime_ms
<1>1. uptime_ms \in Tick /\ uptime_ms \in Int /\ uptime_ms = TickMod * 0 + uptime_ms
    BY TickModAssumption DEF Tick
<1> QED
    BY <1>1, TickIsRemainder DEF HalGetTick

(* An advance, by a frame or by update, catches up with main's copy of the tick, the *)
(* first one included.                                                               *)
LEMMA AdvanceToNow ==
    ASSUME UptimeInvariant, 3 * MaxLoopMs < TickMod, clock' = Advanced(now_ms),
           HalGetTick' = HalGetTick, UNCHANGED << uptime_ms, unread_ms, now_ms >>,
           SinceUpdate' >= 0
    PROVE  ClockTrails' /\ MonotonicClockIsUptime'
<1> USE LoopTypes, ClockTypes DEF UptimeInvariant
<1>1. clock'.initialized /\ clock'.last_raw_ms = now_ms
    BY AdvanceIsTyped
<1>2. TickAge(HalGetTick, now_ms) = unread_ms /\ TickAge(now_ms, now_ms) = 0
    BY TickAgeSelf DEF LoopInvariant, NowAgeIsTrue
<1>3. Behind' = 0
    BY <1>1, <1>2 DEF Behind
<1>4. ClockTrails'
    BY <1>1, <1>2, <1>3 DEF ClockTrails
<1>5. MonoPlus(clock'.monotonic_ms, unread_ms) = uptime_ms
    <2>1. CASE clock.initialized
        <3>1. clock'.monotonic_ms = MonoPlus(clock.monotonic_ms, Behind)
            BY <2>1 DEF Advanced, ClockIsTyped, Behind
        <3>2. MonoPlus(clock.monotonic_ms, Behind + unread_ms) = uptime_ms
            BY <2>1 DEF MonotonicClockIsUptime, ClockTrails
        <3>3. Behind + unread_ms < MonoMod
            BY <2>1 DEF ClockTrails
        <3>4. MonoPlus(MonoPlus(clock.monotonic_ms, Behind), unread_ms)
                = MonoPlus(clock.monotonic_ms, Behind + unread_ms)
            BY <3>3, MonoPlusSum
        <3> QED
            BY <3>1, <3>2, <3>4
    <2>2. CASE ~clock.initialized
        <3>1. clock'.monotonic_ms = now_ms
            BY <2>2 DEF Advanced
        <3>2. now_ms + unread_ms = uptime_ms /\ now_ms + unread_ms < MonoMod
            BY <2>2 DEF ClockTrails
        <3> QED
            BY <3>1, <3>2 DEF MonoPlus
    <2> QED
        BY <2>1, <2>2
<1>6. MonotonicClockIsUptime'
    BY <1>1, <1>2, <1>5 DEF MonotonicClockIsUptime
<1> QED
    BY <1>4, <1>6

LEMMA ReadKeepsUptime ==
    ASSUME UptimeInvariant, 3 * MaxLoopMs < TickMod, ReadStep
    PROVE  ClockTrails' /\ MonotonicClockIsUptime'
<1> USE LoopTypes, ClockTypes DEF UptimeInvariant
<1>1. /\ clock' = clock /\ now_ms' = HalGetTick /\ uptime_ms' = uptime_ms /\ unread_ms' = 0
      /\ HalGetTick' = HalGetTick /\ SinceUpdate' = SinceUpdate + MaxLoopMs
    BY ReadEffect DEF SinceUpdate, application_vars
<1>2. MonotonicClockIsUptime'
    BY <1>1 DEF MonotonicClockIsUptime
<1>3. Behind' = TickAge(HalGetTick, clock.last_raw_ms)
    BY <1>1 DEF Behind
<1>4. CASE clock.initialized
    BY <1>1, <1>2, <1>3, <1>4 DEF ClockTrails
<1>5. CASE ~clock.initialized
    <2>1. uptime_ms = now_ms + unread_ms /\ now_ms <= SinceUpdate
        BY <1>5 DEF ClockTrails
    <2>2. uptime_ms \in Nat /\ uptime_ms < TickMod
        BY <2>1
    <2>3. now_ms' = uptime_ms
        BY <1>1, <2>2, SmallUptimeIsTheTick
    <2> QED
        BY <1>1, <1>2, <1>5, <2>1, <2>3 DEF ClockTrails
<1> QED
    BY <1>4, <1>5

LEMMA SysTickKeepsUptime ==
    ASSUME UptimeInvariant, 3 * MaxLoopMs < TickMod, Interrupt
    PROVE  ClockTrails' /\ MonotonicClockIsUptime'
<1> USE LoopTypes, ClockTypes DEF UptimeInvariant
<1>1. /\ unread_ms < MaxLoopMs /\ unread_ms' = unread_ms + 1
      /\ uptime_ms' = MonoPlus(uptime_ms, 1) /\ UNCHANGED << clock, pc, now_ms >>
    BY InterruptEffect DEF application_vars
<1>2. HalGetTick' = NextTick(HalGetTick)
    BY <1>1, HalGetTickNext
<1>3. Behind' = Behind /\ SinceUpdate' = SinceUpdate
    BY <1>1 DEF Behind, SinceUpdate
<1>4. CASE clock.initialized
    <2> DEFINE age == TickAge(HalGetTick, clock.last_raw_ms)
    <2>1. age = unread_ms + Behind /\ Behind <= SinceUpdate /\ age \in Nat
        BY <1>4 DEF ClockTrails
    <2>2. age + 1 < TickMod /\ age < TickMod - 1
        BY <1>1, <2>1
    <2>3. TickAge(HalGetTick', clock.last_raw_ms) = age + 1
        BY <1>2, <2>2, TickAgeNext
    <2>4. MonoPlus(clock.monotonic_ms, age) = uptime_ms
        BY <1>4 DEF MonotonicClockIsUptime
    <2> HIDE DEF age
    <2>5. MonoPlus(clock.monotonic_ms, age + 1) = MonoPlus(uptime_ms, 1)
        BY <2>1, <2>2, <2>4, MonoPlusNext
    <2>6. MonotonicClockIsUptime'
        BY <1>1, <2>3, <2>5 DEF MonotonicClockIsUptime
    <2>7. ClockTrails'
        BY <1>1, <1>3, <1>4, <2>1, <2>3 DEF ClockTrails
    <2> QED
        BY <2>6, <2>7
<1>5. CASE ~clock.initialized
    <2>1. now_ms + unread_ms = uptime_ms /\ now_ms <= SinceUpdate
        BY <1>5 DEF ClockTrails
    <2>2. uptime_ms' = uptime_ms + 1
        <3>1. uptime_ms + 1 < MonoMod
            BY <1>1, <2>1
        <3> QED
            BY <1>1, <2>1, <3>1 DEF MonoPlus
    <2> QED
        BY <1>1, <1>3, <1>5, <2>1, <2>2 DEF ClockTrails, MonotonicClockIsUptime
<1> QED
    BY <1>4, <1>5

LEMMA StepKeepsUptime ==
    ASSUME UptimeInvariant, 3 * MaxLoopMs < TickMod, [Next]_vars
    PROVE  UptimeInvariant'
<1>1. LoopInvariant' /\ SinceUpdate' >= 0
    BY StepKeepsLoopInvariant, MaxLoopAssumption DEF UptimeInvariant, SinceUpdate
<1>2. CASE ReadStep
    BY <1>1, <1>2, ReadKeepsUptime DEF UptimeInvariant
<1>3. CASE UpdateStep
    BY <1>1, <1>3, AdvanceToNow, UpdateEffect DEF Update, UptimeInvariant
<1>4. CASE IngestFrame
    <2>1. clock' = Advanced(now_ms) \/ clock' = clock
        BY <1>4, IngestEffect
        DEF Ingest, IngestHeartbeat, IngestEncoder, IngestIgnored, application_vars
    <2>2. CASE clock' = Advanced(now_ms)
        BY <1>1, <1>4, <2>2, AdvanceToNow, IngestEffect DEF UptimeInvariant
    <2>3. CASE clock' = clock
        <3>1. SinceUpdate' = SinceUpdate /\ Behind' = Behind
            BY <1>4, <2>3, IngestEffect DEF SinceUpdate, Behind
        <3> QED
            BY <1>1, <1>4, <2>3, <3>1, IngestEffect
            DEF UptimeInvariant, ClockTrails, MonotonicClockIsUptime
    <2> QED
        BY <2>1, <2>2, <2>3
<1>5. CASE Interrupt
    BY <1>1, <1>5, SysTickKeepsUptime DEF UptimeInvariant
<1>6. CASE QuietStep
    <2>1. /\ UNCHANGED << clock, uptime_ms, unread_ms, now_ms >> /\ HalGetTick' = HalGetTick
          /\ SinceUpdate <= SinceUpdate'
        BY <1>6, QuietEffect, MaxLoopAssumption DEF SinceUpdate, application_vars
    <2>2. Behind' = Behind /\ Behind \in Nat /\ SinceUpdate \in Nat /\ SinceUpdate' \in Nat
        BY <1>1, <2>1, LoopTypes, ClockTypes, MaxLoopAssumption
        DEF Behind, SinceUpdate, UptimeInvariant
    <2> QED
        BY <1>1, <2>1, <2>2, ClockTypes DEF UptimeInvariant, ClockTrails, MonotonicClockIsUptime
<1> QED
    BY <1>2, <1>3, <1>4, <1>5, <1>6, StepKinds

LEMMA UptimeStartsCounted == Init => UptimeInvariant
<1> SUFFICES ASSUME Init PROVE UptimeInvariant
    OBVIOUS
<1>1. /\ clock.initialized = FALSE /\ uptime_ms = 0 /\ unread_ms = 0 /\ now_ms = 0
      /\ pc = "boot"
    BY DEF Init, ApplicationInit, TimeInit
<1> QED
    BY <1>1, LoopStartsSound
    DEF UptimeInvariant, ClockTrails, SinceUpdate, MonotonicClockIsUptime

(* When three reads of the tick fit into a turn of it, the 64-bit clock built from *)
(* wrapped differences loses no millisecond and counts none twice, although each   *)
(* call advances it to a tick that was read before.                                *)
THEOREM MonotonicClockIsAlwaysUptime ==
    ASSUME 3 * MaxLoopMs < TickMod
    PROVE  Spec => []MonotonicClockIsUptime
<1>1. UptimeInvariant => MonotonicClockIsUptime
    BY DEF UptimeInvariant
<1>2. UptimeInvariant /\ [Next]_vars => UptimeInvariant'
    BY StepKeepsUptime
<1> QED
    BY <1>1, <1>2, UptimeStartsCounted, PTL DEF Spec
------------------------------------------------------------------------------
(* The two clocks judge a heartbeat alike. *)

FreshnessInvariant ==
    /\ LoopInvariant
    /\ pc = "boot" => ~has_heartbeat
    /\ FreshnessMatchesStamps

LEMMA StepKeepsFreshness ==
    ASSUME FreshnessInvariant, [Next]_vars
    PROVE  FreshnessInvariant'
<1>1. LoopInvariant'
    BY StepKeepsLoopInvariant DEF FreshnessInvariant
<1>2. CASE UpdateStep
    <2>1. pc' # "boot" /\ Update(now_ms)
        BY <1>2, UpdateEffect
    <2>2. now_ms \in Tick /\ ApplicationInv
        BY LoopTypes DEF FreshnessInvariant, LoopInvariant
    <2>3. ClocksJudgeAlike'
        BY <2>1, <2>2, UpdateJudgesAlike
    <2> QED
        BY <1>1, <2>1, <2>3 DEF FreshnessInvariant, FreshnessMatchesStamps
<1>3. CASE IngestFrame
    BY <1>1, <1>3, IngestEffect DEF FreshnessInvariant, FreshnessMatchesStamps
<1>4. CASE ReadStep \/ Interrupt \/ QuietStep
    <2>1. UNCHANGED << has_heartbeat, fault_latched, heartbeat_fresh, clock,
                       heartbeat_received_at >>
        BY <1>4, ReadEffect, InterruptEffect, QuietEffect DEF application_vars, safety_vars
    <2>2. /\ pc' = "boot" => pc = "boot"
          /\ pc' = "poll" => pc \in {"poll", "boot"}
        BY <1>4, ReadEffect, InterruptEffect, QuietEffect
    <2> QED
        BY <1>1, <2>1, <2>2 DEF FreshnessInvariant, FreshnessMatchesStamps, ClocksJudgeAlike,
            StampedAge
<1> QED
    BY <1>2, <1>3, <1>4, StepKinds

(* Whatever the tick does between the read that stamps a heartbeat and the one  *)
(* that judges it, the two clocks agree on the verdict.                         *)
THEOREM FreshnessAlwaysMatchesStamps == Spec => []FreshnessMatchesStamps
<1>1. Init => FreshnessInvariant
    BY LoopStartsSound
    DEF Init, ApplicationInit, SafetyInit, FreshnessInvariant, FreshnessMatchesStamps
<1>2. FreshnessInvariant /\ [Next]_vars => FreshnessInvariant'
    BY StepKeepsFreshness
<1>3. FreshnessInvariant => FreshnessMatchesStamps
    BY DEF FreshnessInvariant
<1> QED
    BY <1>1, <1>2, <1>3, PTL DEF Spec
------------------------------------------------------------------------------
(* How old the judged heartbeat is in true time. *)

StampAgeIsTrue == silent_ms < TickMod => TickAge(HalGetTick, last_heartbeat_ms) = silent_ms

(* Since update last judged, no more than the reads of the tick since have passed, *)
(* and what the copy it judged with was old.                                       *)
FreshIsYoung ==
    heartbeat_fresh /\ ~fault_latched /\ silent_ms < TickMod =>
        silent_ms < HeartbeatTimeout + unread_ms + SinceUpdate

AgeInvariant == LoopInvariant /\ last_heartbeat_ms \in Tick /\ StampAgeIsTrue /\ FreshIsYoung

(* A heartbeat is as old as the tick it is stamped with. *)
LEMMA IngestKeepsAge ==
    ASSUME AgeInvariant, IngestFrame
    PROVE  (last_heartbeat_ms \in Tick /\ StampAgeIsTrue /\ FreshIsYoung)'
<1> USE LoopTypes DEF AgeInvariant
<1>1. /\ Ingest(frame[1], now_ms) /\ HalGetTick' = HalGetTick /\ unread_ms' = unread_ms
      /\ SinceUpdate' = MaxLoopMs /\ SinceUpdate = MaxLoopMs
    BY IngestEffect DEF SinceUpdate
<1>2. CASE HasValue(DecodeHeartbeat(frame[1], NodeId))
    <2>1. last_heartbeat_ms' = now_ms /\ silent_ms' = unread_ms
        BY <1>1, <1>2, IngestCalls, IngestEffect DEF IngestHeartbeat, ObserveHeartbeat
    <2>2. TickAge(HalGetTick', last_heartbeat_ms') = silent_ms'
        BY <1>1, <2>1 DEF LoopInvariant, NowAgeIsTrue
    <2> QED
        BY <1>1, <2>1, <2>2 DEF StampAgeIsTrue, FreshIsYoung
<1>3. CASE ~HasValue(DecodeHeartbeat(frame[1], NodeId))
    <2>1. UNCHANGED << last_heartbeat_ms, heartbeat_fresh, fault_latched, silent_ms >>
        BY <1>1, <1>3, IngestCalls, IngestEffect DEF safety_vars
    <2> QED
        BY <1>1, <2>1 DEF StampAgeIsTrue, FreshIsYoung
<1> QED
    BY <1>2, <1>3

(* What update finds fresh is younger than the timeout, and the age of its tick. *)
LEMMA UpdateKeepsAge ==
    ASSUME AgeInvariant, UpdateStep
    PROVE  (last_heartbeat_ms \in Tick /\ StampAgeIsTrue /\ FreshIsYoung)'
<1> USE LoopTypes DEF AgeInvariant
<1>1. /\ SupervisorUpdate(now_ms) /\ HalGetTick' = HalGetTick /\ unread_ms' = unread_ms
      /\ silent_ms' = silent_ms /\ SinceUpdate' = 0
    BY UpdateEffect DEF Update, SinceUpdate
<1>2. last_heartbeat_ms' = last_heartbeat_ms
    BY <1>1 DEF SupervisorUpdate
<1>3. StampAgeIsTrue'
    BY <1>1, <1>2 DEF StampAgeIsTrue
<1>4. heartbeat_fresh' /\ ~fault_latched' => TickAge(now_ms, last_heartbeat_ms) < HeartbeatTimeout
    BY <1>1 DEF SupervisorUpdate, LatchHolds, NoHeartbeatYet, HeartbeatTimedOut, HeartbeatStillFresh
<1>5. FreshIsYoung'
    <2> SUFFICES ASSUME heartbeat_fresh', ~fault_latched', silent_ms < TickMod
                 PROVE  silent_ms < HeartbeatTimeout + unread_ms
        BY <1>1 DEF FreshIsYoung
    <2>1. silent_ms = TickAge(HalGetTick, last_heartbeat_ms)
        BY DEF StampAgeIsTrue
    <2>2. TickAge(HalGetTick, last_heartbeat_ms)
            <= TickAge(HalGetTick, now_ms) + TickAge(now_ms, last_heartbeat_ms)
        BY TickAgeTriangle
    <2>3. TickAge(HalGetTick, now_ms) = unread_ms
        BY DEF LoopInvariant, NowAgeIsTrue
    <2>4. TickAge(now_ms, last_heartbeat_ms) \in Nat
        BY TickAgeType DEF Tick
    <2> QED
        BY <1>4, <2>1, <2>2, <2>3, <2>4
<1> QED
    BY <1>2, <1>3, <1>5

LEMMA SysTickKeepsAge ==
    ASSUME AgeInvariant, Interrupt
    PROVE  (last_heartbeat_ms \in Tick /\ StampAgeIsTrue /\ FreshIsYoung)'
<1> USE LoopTypes DEF AgeInvariant
<1>1. /\ uptime_ms' = MonoPlus(uptime_ms, 1) /\ unread_ms' = unread_ms + 1
      /\ SinceUpdate' = SinceUpdate
      /\ silent_ms' = (IF silent_ms < TickMod THEN silent_ms + 1 ELSE TickMod)
      /\ UNCHANGED << last_heartbeat_ms, heartbeat_fresh, fault_latched >>
    BY InterruptEffect DEF SinceUpdate, application_vars, safety_vars
<1>2. HalGetTick' = NextTick(HalGetTick)
    BY <1>1, HalGetTickNext
<1>3. StampAgeIsTrue'
    <2> SUFFICES ASSUME silent_ms' < TickMod
                 PROVE  TickAge(HalGetTick', last_heartbeat_ms) = silent_ms'
        BY <1>1 DEF StampAgeIsTrue
    <2>1. silent_ms' = silent_ms + 1 /\ silent_ms < TickMod /\ silent_ms < TickMod - 1
        BY <1>1
    <2>2. TickAge(HalGetTick, last_heartbeat_ms) = silent_ms
        BY <2>1 DEF StampAgeIsTrue
    <2> QED
        BY <1>2, <2>1, <2>2, TickAgeNext
<1>4. FreshIsYoung'
    <2> SUFFICES ASSUME heartbeat_fresh, ~fault_latched, silent_ms' < TickMod
                 PROVE  silent_ms' < HeartbeatTimeout + unread_ms' + SinceUpdate
        BY <1>1 DEF FreshIsYoung
    <2>1. silent_ms' = silent_ms + 1 /\ silent_ms < TickMod
        BY <1>1
    <2> QED
        BY <1>1, <2>1 DEF FreshIsYoung
<1> QED
    BY <1>1, <1>3, <1>4

LEMMA ReadKeepsAge ==
    ASSUME AgeInvariant, ReadStep
    PROVE  (last_heartbeat_ms \in Tick /\ StampAgeIsTrue /\ FreshIsYoung)'
<1> USE LoopTypes DEF AgeInvariant
<1>1. /\ UNCHANGED << last_heartbeat_ms, heartbeat_fresh, fault_latched, silent_ms >>
      /\ unread_ms' = 0 /\ SinceUpdate' = SinceUpdate + MaxLoopMs /\ HalGetTick' = HalGetTick
    BY ReadEffect DEF SinceUpdate, application_vars, safety_vars
<1> QED
    BY <1>1 DEF StampAgeIsTrue, FreshIsYoung

LEMMA StepKeepsAge ==
    ASSUME AgeInvariant, [Next]_vars
    PROVE  AgeInvariant'
<1>1. LoopInvariant'
    BY StepKeepsLoopInvariant DEF AgeInvariant
<1>2. CASE ReadStep
    BY <1>1, <1>2, ReadKeepsAge DEF AgeInvariant
<1>3. CASE UpdateStep
    BY <1>1, <1>3, UpdateKeepsAge DEF AgeInvariant
<1>4. CASE IngestFrame
    BY <1>1, <1>4, IngestKeepsAge DEF AgeInvariant
<1>5. CASE Interrupt
    BY <1>1, <1>5, SysTickKeepsAge DEF AgeInvariant
<1>6. CASE QuietStep
    <2>1. /\ UNCHANGED << last_heartbeat_ms, heartbeat_fresh, fault_latched, unread_ms,
                          silent_ms >>
          /\ HalGetTick' = HalGetTick /\ SinceUpdate <= SinceUpdate'
        BY <1>6, QuietEffect, MaxLoopAssumption DEF SinceUpdate, application_vars, safety_vars
    <2>2. SinceUpdate \in Nat /\ SinceUpdate' \in Nat
        BY MaxLoopAssumption DEF SinceUpdate
    <2> QED
        BY <1>1, <2>1, <2>2, LoopTypes DEF AgeInvariant, StampAgeIsTrue, FreshIsYoung
<1> QED
    BY <1>2, <1>3, <1>4, <1>5, <1>6, StepKinds

LEMMA AgeStartsTrue == Init => AgeInvariant
<1> SUFFICES ASSUME Init PROVE AgeInvariant
    OBVIOUS
<1>1. last_heartbeat_ms = 0 /\ ~heartbeat_fresh /\ silent_ms = TickMod /\ 0 \in Tick
    BY TickModAssumption DEF Init, ApplicationInit, SafetyInit, TimeInit, Tick
<1>2. ~(silent_ms < TickMod)
    BY <1>1, TickModAssumption
<1> QED
    BY <1>1, <1>2, LoopStartsSound
    DEF AgeInvariant, StampAgeIsTrue, FreshIsYoung
------------------------------------------------------------------------------
(* What the host reads from state(). *)

(* A latch is published whenever main is not between a frame and its judgement: *)
(* there a healthy heartbeat may have written "disarmed" over it.               *)
LatchIsPublished ==
    pc \notin {"read_tick", "update"} => (fault_latched <=> state = "fault_latched")

(* A heartbeat that has been missing for the timeout and three reads of the tick is *)
(* reported, short of a full turn of the tick: SilenceIsReported with a deadline.   *)
SilenceIsReportedInTime ==
    has_heartbeat /\ HeartbeatTimeout + 3 * MaxLoopMs <= silent_ms /\ silent_ms < TickMod =>
        state \in {"heartbeat_stale", "fault_latched"}

(* Only a heartbeat of this very iteration hides the latch. *)
HidingIsYoung ==
    pc \in {"read_tick", "update"} /\ fault_latched /\ state # "fault_latched" =>
        silent_ms <= unread_ms + (IF pc = "update" THEN MaxLoopMs ELSE 0)

ReportInvariant == AgeInvariant /\ LatchIsPublished /\ HidingIsYoung

LEMMA IngestKeepsReports ==
    ASSUME ReportInvariant, IngestFrame
    PROVE  (LatchIsPublished /\ HidingIsYoung)'
<1>1. /\ Ingest(frame[1], now_ms) /\ pc = "ingest" /\ pc' = "read_tick" /\ unread_ms' = unread_ms
    BY IngestEffect
<1>2. CASE HasValue(DecodeHeartbeat(frame[1], NodeId))
    <2>1. silent_ms' = unread_ms
        BY <1>2, IngestEffect
    <2> QED
        BY <1>1, <2>1, LoopTypes
        DEF LatchIsPublished, HidingIsYoung, ReportInvariant, AgeInvariant
<1>3. CASE ~HasValue(DecodeHeartbeat(frame[1], NodeId))
    <2>1. UNCHANGED << fault_latched, state >>
        BY <1>1, <1>3, IngestCalls DEF safety_vars
    <2> QED
        BY <1>1, <2>1 DEF ReportInvariant, LatchIsPublished, HidingIsYoung
<1> QED
    BY <1>2, <1>3

LEMMA StepKeepsReports ==
    ASSUME ReportInvariant, [Next]_vars
    PROVE  ReportInvariant'
<1>1. AgeInvariant'
    BY StepKeepsAge DEF ReportInvariant
<1> USE LoopTypes DEF ReportInvariant, AgeInvariant
<1>2. CASE ReadStep
    <2>1. /\ UNCHANGED << fault_latched, state, silent_ms >> /\ unread_ms' = 0
          /\ \/ pc = "read_tick" /\ pc' = "update"
             \/ pc \in {"stamp", "failed"} /\ pc' \in {"ingest", "failed_update"}
        BY <1>2, ReadEffect DEF application_vars, safety_vars
    <2> QED
        BY <1>1, <2>1 DEF LatchIsPublished, HidingIsYoung
<1>3. CASE UpdateStep
    <2>1. pc' \notin {"read_tick", "update"} /\ SupervisorUpdate(now_ms)
        BY <1>3, UpdateEffect DEF Update
    <2>2. fault_latched' <=> state' = "fault_latched"
        BY <2>1 DEF SupervisorUpdate, LatchHolds, NoHeartbeatYet, HeartbeatTimedOut,
                    HeartbeatStillFresh
    <2> QED
        BY <1>1, <2>1, <2>2 DEF LatchIsPublished, HidingIsYoung
<1>4. CASE IngestFrame
    BY <1>1, <1>4, IngestKeepsReports
<1>5. CASE Interrupt
    <2>1. /\ UNCHANGED << pc, fault_latched, state >>
          /\ unread_ms' = unread_ms + 1
          /\ silent_ms' = (IF silent_ms < TickMod THEN silent_ms + 1 ELSE TickMod)
        BY <1>5, InterruptEffect DEF application_vars, safety_vars
    <2>2. silent_ms' <= silent_ms + 1 /\ silent_ms' \in Nat
        BY <2>1
    <2> QED
        BY <1>1, <2>1, <2>2 DEF LatchIsPublished, HidingIsYoung
<1>6. CASE QuietStep
    <2>1. /\ UNCHANGED << fault_latched, state, silent_ms, unread_ms >>
          /\ \/ pc' = pc
             \/ pc \in {"boot", "poll"} /\ pc' # "update"
        BY <1>6, QuietEffect DEF application_vars, safety_vars
    <2> QED
        BY <1>1, <2>1 DEF LatchIsPublished, HidingIsYoung
<1> QED
    BY <1>2, <1>3, <1>4, <1>5, <1>6, StepKinds

LEMMA ReportInvariantHolds == Spec => []ReportInvariant
<1>1. Init => ReportInvariant
    BY AgeStartsTrue
    DEF Init, ApplicationInit, SafetyInit, ReportInvariant, LatchIsPublished, HidingIsYoung
<1> QED
    BY <1>1, StepKeepsReports, PTL DEF Spec

(* A fault is never told from state() wrongly but between a frame and its judgement. *)
THEOREM LatchIsAlwaysPublished == Spec => []LatchIsPublished
<1>1. ReportInvariant => LatchIsPublished
    BY DEF ReportInvariant
<1> QED
    BY <1>1, ReportInvariantHolds, PTL

(* From time alone, in time: however the bus falls silent, and although update looks *)
(* only once in an iteration, at a tick read before, the host reads it no later than *)
(* three reads of the tick after the timeout.                                        *)
THEOREM SilenceIsAlwaysReportedInTime == Spec => []SilenceIsReportedInTime
<1>1. ReportInvariant => SilenceIsReportedInTime
    <2> SUFFICES ASSUME ReportInvariant, has_heartbeat, silent_ms < TickMod,
                        HeartbeatTimeout + 3 * MaxLoopMs <= silent_ms
                 PROVE  state \in {"heartbeat_stale", "fault_latched"}
        BY DEF SilenceIsReportedInTime
    <2> USE LoopTypes DEF ReportInvariant, AgeInvariant
    <2>1. CASE fault_latched
        <3>1. ~(silent_ms <= unread_ms + MaxLoopMs)
            OBVIOUS
        <3> QED
            BY <2>1, <3>1 DEF LatchIsPublished, HidingIsYoung
    <2>2. CASE ~fault_latched
        <3>1. ~heartbeat_fresh
            BY <2>2 DEF FreshIsYoung
        <3> QED
            BY <3>1 DEF LoopInvariant, ApplicationInv, SafetyInv, StateMatchesFlags
    <2> QED
        BY <2>1, <2>2
<1> QED
    BY <1>1, ReportInvariantHolds, PTL

------------------------------------------------------------------------------
(* The receive-only firmware commands nothing. *)

NothingIsCommanded == ~armed /\ ~PermitsCommand /\ tx_pending = 0

(* Whatever arrives, the supervisor of the default firmware never permits a command *)
(* and no transmit mailbox is ever filled: observe_heartbeat and update, the only   *)
(* calls main makes, give no permission of their own.                               *)
THEOREM ReceiveNeverCommands == Spec => []NothingIsCommanded
<1>1. Init => NothingIsCommanded
    BY DEF Init, ApplicationInit, SafetyInit, AdapterInit, NothingIsCommanded, PermitsCommand
<1>2. ASSUME NothingIsCommanded, [Next]_vars
      PROVE  NothingIsCommanded'
    <2>1. tx_pending' = 0
        <3>1. CASE UNCHANGED adapter_vars
            BY <1>2, <3>1 DEF NothingIsCommanded, adapter_vars
        <3>2. CASE QuietStep
            BY <1>2, <3>2
            DEF NothingIsCommanded, QuietStep, BootSucceeds, BootFails, PollFrame, PollInVain,
                InitializeSucceeds, InitializeFails, PollDelivers, PollFindsNothing,
                PollRejects, PollFails, Bus, Peripheral, FrameArrives, MailboxDone, vars,
                adapter_vars
        <3> QED
            BY <1>2, <3>1, <3>2, StepKinds, ReadEffect, UpdateEffect, IngestEffect,
               InterruptEffect
    <2>2. ~armed'
        <3>1. CASE Ingest(frame[1], now_ms)
            BY <1>2, <3>1, IngestObserves DEF NothingIsCommanded, ObserveHeartbeat, safety_vars
        <3>2. CASE Update(now_ms)
            BY <1>2, <3>2
            DEF NothingIsCommanded, Update, SupervisorUpdate, LatchHolds, NoHeartbeatYet,
                HeartbeatTimedOut, HeartbeatStillFresh
        <3>3. CASE UNCHANGED application_vars
            BY <1>2, <3>3 DEF NothingIsCommanded, application_vars, safety_vars
        <3> QED
            BY <1>2, <3>1, <3>2, <3>3, StepIsACall
    <2> QED
        BY <2>1, <2>2 DEF NothingIsCommanded, PermitsCommand
<1> QED
    BY <1>1, <1>2, PTL DEF Spec

------------------------------------------------------------------------------
(* How long a frame waits in the FIFO. *)

(* The history only watches: what it adds to a step of the loop never forbids one of *)
(* its variables a value, so what is proved of the loop's steps holds under it.      *)
THEOREM LatencyImplementsLoop == LatencySpec => Spec
<1>1. LatencyInit => Init
    BY DEF LatencyInit
<1>2. [LatencyNext]_<< vars, history_vars >> => [Next]_vars
    BY DEF LatencyNext, Next, vars
<1> QED
    BY <1>1, <1>2, PTL DEF LatencySpec, Spec

(* What a frame may have waited before it moved up to this place: two reads of the *)
(* tick for every place below it.                                                  *)
Backlog(i) == 2 * MaxLoopMs * (FifoDepth - i)

(* What the reads of the tick since poll last took the head have hidden from the *)
(* counter: each of them set it back from MaxLoopMs at most.                     *)
Delay ==
    IF pc = "stamp" THEN 0
    ELSE IF pc \in {"ingest", "read_tick"} THEN MaxLoopMs ELSE 2 * MaxLoopMs

WaitsAreShort ==
    started => \A i \in 1 .. Len(waits) : waits[i] <= unread_ms + Delay + Backlog(i)

WaitTypeOK ==
    /\ rx_fifo \in Seq(BusFrames) /\ Len(rx_fifo) <= FifoDepth
    /\ waits \in Seq(Nat) /\ Len(waits) = Len(rx_fifo)
    /\ taken_ms \in Nat /\ arrival_ms \in Nat /\ tx_pending = 0

BootIsQuiet ==
    /\ pc = "boot" => rx_fifo = << >> /\ ~can_running
    /\ pc \in {"failed", "failed_update"} => ~started

(* The frame in hand has waited for the head's place, and then for its stamp. *)
TakenIsYoung ==
    /\ pc = "stamp" => taken_ms <= unread_ms + LongestWaitMs - MaxLoopMs
    /\ pc = "ingest" => taken_ms <= unread_ms + LongestWaitMs

ArrivalMatchesSilence ==
    ~fault_latched /\ silent_ms < TickMod => arrival_ms <= silent_ms + LongestWaitMs

WaitInvariant ==
    /\ AgeInvariant /\ WaitTypeOK /\ BootIsQuiet
    /\ WaitsAreShort /\ TakenIsYoung /\ ArrivalMatchesSilence

LEMMA BacklogValues ==
    ASSUME NEW i \in 1 .. FifoDepth
    PROVE  /\ Backlog(i) \in Nat
           /\ Backlog(i) + 3 * MaxLoopMs <= LongestWaitMs
           /\ i < FifoDepth => Backlog(i) = Backlog(i + 1) + 2 * MaxLoopMs
<1> DEFINE m == 2 * MaxLoopMs
<1>1. m \in Nat /\ i \in Nat /\ FifoDepth \in Nat /\ i >= 1 /\ i <= FifoDepth
    BY MaxLoopAssumption, AdapterAssumption
<1>2. Backlog(i) = m * (FifoDepth - i) /\ Backlog(i + 1) = m * (FifoDepth - (i + 1))
    BY DEF Backlog
<1>3. LongestWaitMs = m * FifoDepth + MaxLoopMs
    BY <1>1, MaxLoopAssumption DEF LongestWaitMs
<1>4. m + MaxLoopMs = 3 * MaxLoopMs /\ MaxLoopMs \in Nat
    BY MaxLoopAssumption
<1> HIDE DEF m
<1>5. m * (FifoDepth - (i + 1)) = m * (FifoDepth - i) - m
    BY <1>1
<1>6. m * (FifoDepth - i) = m * FifoDepth - m * i
    BY <1>1
<1>7. m * i >= m
    BY <1>1
<1>8. m * (FifoDepth - i) >= 0 /\ m * (FifoDepth - i) \in Int
    BY <1>1
<1>9. m * FifoDepth \in Int /\ m * i \in Int
    BY <1>1
<1>10. Backlog(i) + 3 * MaxLoopMs <= LongestWaitMs
    BY <1>1, <1>2, <1>3, <1>4, <1>6, <1>7, <1>9
<1> QED
    BY <1>1, <1>2, <1>5, <1>8, <1>10 DEF m

(* A bounded age grows by at most the tick that passes. *)
LEMMA OlderByATick ==
    ASSUME NEW ms \in Nat
    PROVE  Older(ms) \in Nat /\ Older(ms) <= ms + 1
BY MaxWaitAssumption DEF Older

LEMMA WaitTypes ==
    ASSUME WaitInvariant
    PROVE  /\ unread_ms \in Nat /\ unread_ms <= MaxLoopMs /\ MaxLoopMs \in Nat /\ MaxLoopMs > 0
           /\ silent_ms \in Nat /\ taken_ms \in Nat /\ arrival_ms \in Nat
           /\ Delay \in Nat /\ Delay <= 2 * MaxLoopMs
           /\ FifoDepth \in Nat /\ FifoDepth > 0
           /\ LongestWaitMs \in Nat /\ LongestWaitMs >= 3 * MaxLoopMs
           /\ \A i \in 1 .. Len(waits) : i \in 1 .. FifoDepth /\ waits[i] \in Nat
<1>1. LongestWaitMs \in Nat /\ LongestWaitMs >= 3 * MaxLoopMs
    <2>1. Backlog(1) \in Nat /\ Backlog(1) + 3 * MaxLoopMs <= LongestWaitMs
        BY BacklogValues, AdapterAssumption
    <2>2. LongestWaitMs \in Int
        BY MaxLoopAssumption, AdapterAssumption DEF LongestWaitMs
    <2> QED
        BY <2>1, <2>2, MaxLoopAssumption
<1>2. \A i \in 1 .. Len(waits) : i \in 1 .. FifoDepth /\ waits[i] \in Nat
    BY AdapterAssumption DEF WaitInvariant, WaitTypeOK
<1>3. Delay \in Nat /\ Delay <= 2 * MaxLoopMs
    BY MaxLoopAssumption DEF Delay
<1> QED
    BY <1>1, <1>2, <1>3, LoopTypes, AdapterAssumption
    DEF WaitInvariant, AgeInvariant, WaitTypeOK

(* What has not been taken yet has waited no longer than its place allows. *)
LEMMA WaitsAreBounded == WaitInvariant => WaitIsBounded
<1> SUFFICES ASSUME WaitInvariant, started, NEW i \in DOMAIN waits
             PROVE  waits[i] <= LongestWaitMs
    BY DEF WaitIsBounded
<1>1. i \in 1 .. Len(waits)
    BY DEF WaitInvariant, WaitTypeOK
<1>2. waits[i] <= unread_ms + Delay + Backlog(i)
    BY <1>1 DEF WaitInvariant, WaitsAreShort
<1>3. i \in 1 .. FifoDepth /\ waits[i] \in Nat
    BY <1>1, WaitTypes
<1>4. Backlog(i) \in Nat /\ Backlog(i) + 3 * MaxLoopMs <= LongestWaitMs
    BY <1>3, BacklogValues
<1>5. /\ unread_ms \in Nat /\ unread_ms <= MaxLoopMs /\ MaxLoopMs \in Nat
      /\ Delay \in Nat /\ Delay <= 2 * MaxLoopMs /\ LongestWaitMs \in Nat
    BY WaitTypes
<1> QED
    BY <1>2, <1>3, <1>4, <1>5

(* The latch does not open. *)
LEMMA LatchStays ==
    ASSUME [Next]_vars, ~fault_latched'
    PROVE  ~fault_latched
<1>1. CASE IngestFrame /\ Ingest(frame[1], now_ms)
    BY <1>1, IngestObserves DEF ObserveHeartbeat, safety_vars
<1>2. CASE Update(now_ms)
    BY <1>2 DEF Update, SupervisorUpdate
<1> QED
    BY <1>1, <1>2, StepIsACall DEF application_vars, safety_vars

(* A poll that takes the oldest frame moves the others up. *)
LEMMA TakingKeepsWaits ==
    ASSUME WaitInvariant, pc = "poll", pc' \in {"stamp", "read_tick"},
           started, started', rx_fifo # << >>, rx_fifo' = Tail(rx_fifo), HistoryOfMain,
           UNCHANGED unread_ms
    PROVE  /\ rx_fifo' \in Seq(BusFrames) /\ Len(rx_fifo') <= FifoDepth
           /\ waits' \in Seq(Nat) /\ Len(waits') = Len(rx_fifo')
           /\ WaitsAreShort'
           /\ Head(waits) \in Nat /\ Head(waits) <= unread_ms + LongestWaitMs - MaxLoopMs
<1>1. /\ rx_fifo \in Seq(BusFrames) /\ waits \in Seq(Nat) /\ Len(waits) = Len(rx_fifo)
      /\ Len(rx_fifo) <= FifoDepth /\ Len(rx_fifo) > 0
    BY DEF WaitInvariant, WaitTypeOK
<1>2. /\ rx_fifo' \in Seq(BusFrames) /\ Len(rx_fifo') = Len(rx_fifo) - 1
      /\ rx_fifo' # rx_fifo
    <2>1. Tail(rx_fifo) \in Seq(BusFrames) /\ Len(Tail(rx_fifo)) = Len(rx_fifo) - 1
        BY <1>1
    <2>2. Len(Tail(rx_fifo)) # Len(rx_fifo)
        BY <1>1, <2>1
    <2> QED
        BY <2>1, <2>2
<1>3. waits' = Tail(waits)
    BY <1>2 DEF HistoryOfMain
<1>4. /\ waits' \in Seq(Nat) /\ Len(waits') = Len(waits) - 1
      /\ \A i \in 1 .. Len(waits') : waits'[i] = waits[i + 1]
    BY <1>1, <1>3
<1>5. Len(rx_fifo') <= FifoDepth
    BY <1>1, <1>2, AdapterAssumption
<1>6. \A i \in 1 .. Len(waits) : waits[i] <= unread_ms + 2 * MaxLoopMs + Backlog(i)
    BY DEF WaitInvariant, WaitsAreShort, Delay
<1>7. WaitsAreShort'
    <2> SUFFICES ASSUME NEW i \in 1 .. Len(waits')
                 PROVE  waits'[i] <= unread_ms + Delay' + Backlog(i)
        BY DEF WaitsAreShort, Backlog
    <2>0. i + 1 \in 1 .. Len(waits) /\ i \in 1 .. Len(waits)
        BY <1>1, <1>4
    <2>1. /\ waits'[i] = waits[i + 1] /\ i < FifoDepth
          /\ i \in 1 .. FifoDepth /\ i + 1 \in 1 .. FifoDepth
        BY <1>1, <1>4, <2>0, AdapterAssumption
    <2>2. waits[i + 1] <= unread_ms + 2 * MaxLoopMs + Backlog(i + 1)
        BY <1>6, <2>0
    <2>3. Backlog(i) = Backlog(i + 1) + 2 * MaxLoopMs /\ Backlog(i + 1) \in Nat
        BY <2>1, BacklogValues
    <2>4. waits[i + 1] \in Nat /\ unread_ms \in Nat /\ MaxLoopMs \in Nat
        BY <2>0, WaitTypes
    <2>5. Delay' \in Nat
        BY MaxLoopAssumption DEF Delay
    <2> QED
        BY <2>1, <2>2, <2>3, <2>4, <2>5
<1>8. Head(waits) = waits[1] /\ 1 \in 1 .. Len(waits)
    BY <1>1
<1>9. waits[1] <= unread_ms + 2 * MaxLoopMs + Backlog(1)
    BY <1>6, <1>8
<1>10. /\ waits[1] \in Nat /\ Backlog(1) \in Nat
       /\ Backlog(1) + 3 * MaxLoopMs <= LongestWaitMs
    BY <1>8, WaitTypes, BacklogValues
<1>11. Head(waits) \in Nat /\ Head(waits) <= unread_ms + LongestWaitMs - MaxLoopMs
    <2>1. unread_ms \in Nat /\ MaxLoopMs \in Nat /\ LongestWaitMs \in Nat
        BY WaitTypes
    <2> QED
        BY <1>8, <1>9, <1>10, <2>1
<1> QED
    BY <1>1, <1>2, <1>4, <1>5, <1>7, <1>11

(* A step of main that leaves the FIFO leaves the waits: a read of the tick moves what *)
(* has passed from the counter to the delay.                                           *)
LEMMA LeavingKeepsWaits ==
    ASSUME WaitInvariant, UNCHANGED rx_fifo, HistoryOfMain,
           started' => \/ rx_fifo = << >>
                       \/ started /\ unread_ms' = unread_ms /\ Delay' = Delay
                       \/ started /\ unread_ms' = 0 /\ Delay' = Delay + MaxLoopMs
    PROVE  /\ waits' \in Seq(Nat) /\ Len(waits') = Len(rx_fifo')
           /\ WaitsAreShort'
<1>1. waits \in Seq(Nat) /\ Len(waits) = Len(rx_fifo) /\ Len(rx_fifo) \in Nat
    BY DEF WaitInvariant, WaitTypeOK
<1>2. CASE ~started'
    <2>1. waits' = [i \in DOMAIN waits |-> 0]
        BY <1>2 DEF HistoryOfMain
    <2>2. waits' \in Seq(Nat) /\ Len(waits') = Len(waits)
        BY <1>1, <2>1
    <2> QED
        BY <1>1, <1>2, <2>2 DEF WaitsAreShort
<1>3. CASE started'
    <2>1. waits' = waits
        BY <1>3 DEF HistoryOfMain
    <2>2. ASSUME NEW i \in 1 .. Len(waits)
          PROVE  waits[i] <= unread_ms' + Delay' + Backlog(i)
        <3>1. /\ started
              /\ \/ unread_ms' = unread_ms /\ Delay' = Delay
                 \/ unread_ms' = 0 /\ Delay' = Delay + MaxLoopMs
            BY <1>1, <1>3
        <3>2. waits[i] <= unread_ms + Delay + Backlog(i)
            BY <3>1 DEF WaitInvariant, WaitsAreShort
        <3>3. /\ waits[i] \in Nat /\ Backlog(i) \in Nat /\ Delay \in Nat
              /\ unread_ms \in Nat /\ MaxLoopMs \in Nat /\ unread_ms <= MaxLoopMs
            BY WaitTypes, BacklogValues
        <3> QED
            BY <3>1, <3>2, <3>3
    <2> QED
        BY <1>1, <2>1, <2>2 DEF WaitsAreShort, Backlog
<1> QED
    BY <1>2, <1>3

(* Poll takes the head, and its wait goes with it. *)
LEMMA PollFrameKeepsWaits ==
    ASSUME WaitInvariant, AgeInvariant', PollFrame, HistoryOfMain
    PROVE  WaitInvariant'
<1>1. /\ pc = "poll" /\ pc' = "stamp" /\ started /\ started' /\ rx_fifo # << >>
      /\ rx_fifo' = Tail(rx_fifo)
      /\ UNCHANGED << can_running, tx_pending, unread_ms, silent_ms, fault_latched >>
    BY DEF PollFrame, PollDelivers, Goto, time_vars, application_vars, safety_vars
<1>2. frame' # None
    BY <1>1 DEF AgeInvariant, LoopInvariant, LoopIsTyped
<1>3. taken_ms' = Head(waits)
    BY <1>2 DEF HistoryOfMain
<1>4. ~IngestFrame
    BY <1>1 DEF IngestFrame, Goto
<1>5. arrival_ms' = (IF fault_latched' THEN MaxWaitMs ELSE arrival_ms)
    BY <1>4 DEF HistoryOfMain
<1>6. /\ rx_fifo' \in Seq(BusFrames) /\ Len(rx_fifo') <= FifoDepth
      /\ waits' \in Seq(Nat) /\ Len(waits') = Len(rx_fifo') /\ WaitsAreShort'
      /\ taken_ms' \in Nat /\ taken_ms' <= unread_ms + LongestWaitMs - MaxLoopMs
    BY <1>1, <1>3, TakingKeepsWaits
<1>7. WaitTypeOK'
    BY <1>1, <1>5, <1>6, MaxWaitAssumption DEF WaitInvariant, WaitTypeOK
<1>8. TakenIsYoung' /\ BootIsQuiet'
    BY <1>1, <1>6 DEF TakenIsYoung, BootIsQuiet, LongestWaitMs
<1>9. ArrivalMatchesSilence'
    BY <1>1, <1>5 DEF WaitInvariant, ArrivalMatchesSilence, LongestWaitMs
<1> QED
    BY <1>6, <1>7, <1>8, <1>9 DEF WaitInvariant

(* Ingest stamps what poll took with a tick that is by then unread_ms old. *)
LEMMA IngestKeepsWaits ==
    ASSUME WaitInvariant, AgeInvariant', IngestFrame, HistoryOfMain
    PROVE  WaitInvariant'
<1>1. /\ pc = "ingest" /\ pc' = "read_tick" /\ frame' = None
      /\ UNCHANGED << started, can_running, rx_fifo, tx_pending, unread_ms >>
      /\ silent_ms' = IF HasValue(DecodeHeartbeat(frame[1], NodeId)) THEN unread_ms
                      ELSE silent_ms
    BY IngestEffect DEF adapter_vars
<1>2. taken_ms' = MaxWaitMs
    BY <1>1 DEF HistoryOfMain
<1>3. arrival_ms' = IF fault_latched' THEN MaxWaitMs
                    ELSE IF HasValue(DecodeHeartbeat(frame[1], NodeId)) THEN taken_ms
                    ELSE arrival_ms
    BY DEF HistoryOfMain
<1>4. waits' \in Seq(Nat) /\ Len(waits') = Len(rx_fifo') /\ WaitsAreShort'
    <2>1. Delay' = Delay
        BY <1>1 DEF Delay
    <2> QED
        BY <1>1, <2>1, LeavingKeepsWaits, WaitTypes
<1>5. WaitTypeOK'
    BY <1>1, <1>2, <1>3, <1>4, MaxWaitAssumption, WaitTypes DEF WaitInvariant, WaitTypeOK
<1>6. TakenIsYoung' /\ BootIsQuiet'
    BY <1>1 DEF TakenIsYoung, BootIsQuiet
<1>7. ArrivalMatchesSilence'
    <2> SUFFICES ASSUME ~fault_latched', silent_ms' < TickMod
                 PROVE  arrival_ms' <= silent_ms' + LongestWaitMs
        BY DEF ArrivalMatchesSilence, LongestWaitMs
    <2>1. ~fault_latched
        BY LatchStays DEF Next, Main
    <2>2. CASE HasValue(DecodeHeartbeat(frame[1], NodeId))
        BY <1>1, <1>3, <2>2 DEF WaitInvariant, TakenIsYoung
    <2>3. CASE ~HasValue(DecodeHeartbeat(frame[1], NodeId))
        BY <1>1, <1>3, <2>1, <2>3 DEF WaitInvariant, ArrivalMatchesSilence
    <2> QED
        BY <2>2, <2>3
<1> QED
    BY <1>4, <1>5, <1>6, <1>7 DEF WaitInvariant

(* The other steps of main: they take no frame into hand and ingest none. *)
LEMMA OtherKeepsWaits ==
    ASSUME WaitInvariant, AgeInvariant', Main, ~PollFrame, ~IngestFrame, HistoryOfMain
    PROVE  WaitInvariant'
<1> USE WaitTypes DEF WaitInvariant
<1>1. /\ tx_pending' = tx_pending /\ silent_ms' = silent_ms
      /\ pc' # "stamp" /\ frame' = frame
      /\ pc' = "ingest" => pc = "stamp" /\ ReadStep
    BY DEF Main, BootSucceeds, BootFails, PollInVain, InitializeSucceeds, InitializeFails,
           PollFindsNothing, PollRejects, PollFails, adapter_vars, time_vars, loop_vars,
           ReadTickAfterFailure, UpdateAfterFailure, StampFrame, ReadTickForUpdate,
           UpdateSafety, UpdateApplication, ReadNow, ReadTick, Goto, ReadStep
<1>2. /\ taken_ms' = IF frame' = None THEN MaxWaitMs ELSE taken_ms
      /\ arrival_ms' = IF fault_latched' THEN MaxWaitMs ELSE arrival_ms
    BY DEF HistoryOfMain
<1>3. taken_ms' \in Nat /\ arrival_ms' \in Nat
    BY <1>2, MaxWaitAssumption
<1>4. TakenIsYoung'
    <2> SUFFICES ASSUME pc' = "ingest"
                 PROVE  taken_ms' <= unread_ms' + LongestWaitMs
        BY <1>1 DEF TakenIsYoung, LongestWaitMs
    <2>1. pc = "stamp" /\ unread_ms' = 0 /\ frame' # None
        BY <1>1, ReadEffect DEF AgeInvariant, LoopInvariant, LoopIsTyped
    <2>2. taken_ms <= unread_ms + LongestWaitMs - MaxLoopMs /\ taken_ms' = taken_ms
        BY <1>2, <2>1 DEF TakenIsYoung
    <2> QED
        BY <2>1, <2>2
<1>5. ArrivalMatchesSilence'
    <2>1. ~fault_latched' => ~fault_latched
        BY LatchStays DEF Next
    <2> QED
        BY <1>1, <1>2, <2>1 DEF ArrivalMatchesSilence, LongestWaitMs
<1>6. BootIsQuiet'
    BY DEF Main, BootSucceeds, BootFails, PollInVain, InitializeFails, ReadTickAfterFailure,
           UpdateAfterFailure, StampFrame, ReadTickForUpdate, UpdateSafety, UpdateApplication,
           ReadNow, Goto, BootIsQuiet, adapter_vars
<1>7. /\ rx_fifo' \in Seq(BusFrames) /\ Len(rx_fifo') <= FifoDepth
      /\ waits' \in Seq(Nat) /\ Len(waits') = Len(rx_fifo') /\ WaitsAreShort'
    <2>0. rx_fifo \in Seq(BusFrames) /\ Len(rx_fifo) <= FifoDepth
        BY DEF WaitTypeOK
    <2>1. CASE ReadStep
        <3>1. /\ UNCHANGED << started, rx_fifo >> /\ unread_ms' = 0
              /\ Delay' = Delay + MaxLoopMs \/ ~started
            BY <2>1, ReadEffect DEF BootIsQuiet, adapter_vars, Delay
        <3>2. started' => /\ started /\ unread_ms' = 0
                          /\ Delay' = Delay + MaxLoopMs
            BY <3>1
        <3> QED
            BY <2>0, <3>1, <3>2, LeavingKeepsWaits
    <2>2. CASE UpdateStep
        <3>1. UNCHANGED << started, rx_fifo, unread_ms >> /\ Delay' = Delay
            BY <2>2, UpdateEffect DEF adapter_vars, Delay
        <3> QED
            BY <2>0, <3>1, LeavingKeepsWaits
    <2>3. CASE PollInVain /\ PollRejects
        <3>1. /\ pc = "poll" /\ pc' = "read_tick" /\ started /\ started' /\ rx_fifo # << >>
              /\ rx_fifo' = Tail(rx_fifo) /\ UNCHANGED unread_ms
            BY <2>3 DEF PollInVain, PollRejects, Goto, time_vars
        <3> QED
            BY <3>1, TakingKeepsWaits
    <2>4. CASE BootSucceeds \/ BootFails \/ (PollInVain /\ ~PollRejects)
        <3>1. /\ UNCHANGED << rx_fifo, unread_ms >>
              /\ started' => rx_fifo = << >>
            BY <2>4 DEF BootSucceeds, BootFails, PollInVain, PollFindsNothing, PollFails,
                        InitializeSucceeds, InitializeFails, Goto, BootIsQuiet, adapter_vars,
                        time_vars
        <3> QED
            BY <2>0, <3>1, LeavingKeepsWaits
    <2> QED
        BY <2>1, <2>2, <2>3, <2>4 DEF Main, ReadStep, UpdateStep
<1>8. WaitTypeOK'
    BY <1>1, <1>3, <1>7 DEF WaitTypeOK
<1> QED
    BY <1>4, <1>5, <1>6, <1>7, <1>8

LEMMA TickKeepsWaits ==
    ASSUME WaitInvariant, AgeInvariant', Interrupt, HistoryOfTick
    PROVE  WaitInvariant'
<1>1. /\ UNCHANGED << rx_fifo, tx_pending, started, can_running, pc, fault_latched >>
      /\ unread_ms' = unread_ms + 1
      /\ silent_ms' = (IF silent_ms < TickMod THEN silent_ms + 1 ELSE TickMod)
    BY InterruptEffect DEF adapter_vars, application_vars, safety_vars
<1>2. /\ taken_ms' = Older(taken_ms) /\ taken_ms \in Nat
      /\ arrival_ms' = Older(arrival_ms) /\ arrival_ms \in Nat
    BY DEF WaitInvariant, WaitTypeOK, HistoryOfTick
<1>3. /\ taken_ms' \in Nat /\ taken_ms' <= taken_ms + 1
      /\ arrival_ms' \in Nat /\ arrival_ms' <= arrival_ms + 1
    BY <1>2, OlderByATick
<1>4. /\ waits' \in Seq(Nat) /\ Len(waits') = Len(waits)
      /\ started => \A i \in 1 .. Len(waits) : waits'[i] = Older(waits[i])
    <2>1. waits \in Seq(Nat) /\ DOMAIN waits = 1 .. Len(waits) /\ Len(waits) \in Nat
        BY DEF WaitInvariant, WaitTypeOK
    <2>2. \A i \in 1 .. Len(waits) : Older(waits[i]) \in Nat
        BY <2>1, OlderByATick
    <2>3. CASE started
        BY <2>1, <2>2, <2>3 DEF HistoryOfTick
    <2>4. CASE ~started
        BY <2>1, <2>4 DEF HistoryOfTick
    <2> QED
        BY <2>3, <2>4
<1>5. WaitTypeOK'
    BY <1>1, <1>3, <1>4 DEF WaitInvariant, WaitTypeOK
<1>6. WaitsAreShort'
    <2> SUFFICES ASSUME started, NEW i \in 1 .. Len(waits)
                 PROVE  waits'[i] <= unread_ms + 1 + Delay + Backlog(i)
        BY <1>1, <1>4 DEF WaitsAreShort, Backlog, Delay
    <2>1. waits[i] <= unread_ms + Delay + Backlog(i)
        BY DEF WaitInvariant, WaitsAreShort
    <2>2. waits[i] \in Nat /\ Backlog(i) \in Nat /\ unread_ms \in Nat /\ Delay \in Nat
        BY WaitTypes, BacklogValues
    <2>3. waits'[i] \in Nat /\ waits'[i] <= waits[i] + 1
        BY <1>4, <2>2, OlderByATick
    <2> QED
        BY <2>1, <2>2, <2>3
<1>7. TakenIsYoung'
    <2>1. /\ pc = "stamp" => taken_ms <= unread_ms + LongestWaitMs - MaxLoopMs
          /\ pc = "ingest" => taken_ms <= unread_ms + LongestWaitMs
        BY DEF WaitInvariant, TakenIsYoung
    <2>2. /\ unread_ms \in Nat /\ MaxLoopMs \in Nat /\ LongestWaitMs \in Nat
          /\ taken_ms \in Nat
        BY WaitTypes
    <2>3. /\ pc = "stamp" => taken_ms' <= unread_ms' + LongestWaitMs - MaxLoopMs
          /\ pc = "ingest" => taken_ms' <= unread_ms' + LongestWaitMs
        BY <1>1, <1>3, <2>1, <2>2
    <2> QED
        BY <1>1, <2>3 DEF TakenIsYoung, LongestWaitMs
<1>8. ArrivalMatchesSilence'
    <2>1. ~fault_latched /\ silent_ms < TickMod => arrival_ms <= silent_ms + LongestWaitMs
        BY DEF WaitInvariant, ArrivalMatchesSilence
    <2>2. /\ silent_ms \in Nat /\ TickMod \in Nat /\ LongestWaitMs \in Nat
          /\ arrival_ms \in Nat
        BY WaitTypes, TickModAssumption
    <2>3. ~fault_latched /\ silent_ms' < TickMod => arrival_ms' <= silent_ms' + LongestWaitMs
        BY <1>1, <1>3, <2>1, <2>2
    <2> QED
        BY <1>1, <2>3 DEF ArrivalMatchesSilence, LongestWaitMs
<1> QED
    BY <1>1, <1>5, <1>6, <1>7, <1>8 DEF WaitInvariant, BootIsQuiet

(* A frame that arrives has not waited; what it is written over is gone. *)
LEMMA ArrivalKeepsWaits ==
    ASSUME WaitInvariant, AgeInvariant', Bus, HistoryOfArrival
    PROVE  WaitInvariant'
<1>1. PICK arrival \in BusFrames : FrameArrives(arrival)
    BY DEF Bus, Peripheral, MailboxDone, WaitInvariant, WaitTypeOK
<1>2. /\ UNCHANGED << tx_pending, started, can_running, pc, unread_ms, silent_ms, taken_ms,
                      arrival_ms, fault_latched >>
      /\ pc # "boot"
    BY <1>1 DEF Bus, Peripheral, FrameArrives, HistoryOfArrival, time_vars, application_vars,
                safety_vars, WaitInvariant, BootIsQuiet
<1>3. /\ waits \in Seq(Nat) /\ rx_fifo \in Seq(BusFrames) /\ Len(waits) = Len(rx_fifo)
      /\ Len(rx_fifo) <= FifoDepth /\ Len(waits) \in Nat /\ FifoDepth \in Nat /\ FifoDepth > 0
    BY WaitTypes DEF WaitInvariant, WaitTypeOK
<1>4. /\ rx_fifo' \in Seq(BusFrames) /\ Len(rx_fifo') <= FifoDepth
      /\ waits' \in Seq(Nat) /\ Len(waits') = Len(rx_fifo')
      /\ \A i \in 1 .. Len(waits') :
            waits'[i] = 0 \/ (i \in 1 .. Len(waits) /\ waits'[i] = waits[i])
    <2>1. CASE Len(rx_fifo) < FifoDepth
        <3>1. rx_fifo' = Append(rx_fifo, arrival) /\ waits' = Append(waits, 0)
            BY <1>1, <1>3, <2>1 DEF FrameArrives, HistoryOfArrival
        <3>2. /\ Len(rx_fifo') = Len(rx_fifo) + 1 /\ Len(waits') = Len(waits) + 1
              /\ rx_fifo' \in Seq(BusFrames) /\ waits' \in Seq(Nat)
            BY <1>1, <1>3, <3>1
        <3>3. /\ waits'[Len(waits) + 1] = 0
              /\ \A i \in 1 .. Len(waits) : waits'[i] = waits[i]
            BY <1>3, <3>1
        <3> QED
            BY <1>3, <2>1, <3>2, <3>3
    <2>2. CASE ~(Len(rx_fifo) < FifoDepth)
        <3>1. /\ rx_fifo' = [rx_fifo EXCEPT ![FifoDepth] = arrival]
              /\ waits' = [waits EXCEPT ![FifoDepth] = 0]
              /\ Len(rx_fifo) = FifoDepth
            BY <1>1, <1>3, <2>2 DEF FrameArrives, HistoryOfArrival
        <3>2. DOMAIN waits = 1 .. FifoDepth /\ DOMAIN rx_fifo = 1 .. FifoDepth
            BY <1>3, <3>1
        <3>3. /\ rx_fifo' \in Seq(BusFrames) /\ Len(rx_fifo') = FifoDepth
            BY <1>1, <1>3, <3>1, <3>2
        <3>4. waits' \in Seq(Nat) /\ Len(waits') = FifoDepth
            BY <1>3, <3>1, <3>2
        <3>5. \A i \in 1 .. FifoDepth : waits'[i] = 0 \/ waits'[i] = waits[i]
            BY <1>3, <3>1, <3>2
        <3> QED
            BY <1>3, <3>1, <3>3, <3>4, <3>5
    <2> QED
        BY <2>1, <2>2
<1>5. WaitTypeOK'
    BY <1>2, <1>4 DEF WaitInvariant, WaitTypeOK
<1>6. WaitsAreShort'
    <2> SUFFICES ASSUME started, NEW i \in 1 .. Len(waits')
                 PROVE  waits'[i] <= unread_ms + Delay + Backlog(i)
        BY <1>2 DEF WaitsAreShort, Backlog, Delay
    <2>1. CASE waits'[i] = 0
        <3>1. i \in 1 .. FifoDepth
            BY <1>3, <1>4
        <3>2. Backlog(i) \in Nat
            BY <3>1, BacklogValues
        <3> QED
            BY <2>1, <3>2, WaitTypes
    <2>2. CASE i \in 1 .. Len(waits) /\ waits'[i] = waits[i]
        BY <2>2 DEF WaitInvariant, WaitsAreShort
    <2> QED
        BY <1>4, <2>1, <2>2
<1> QED
    BY <1>2, <1>5, <1>6
    DEF WaitInvariant, BootIsQuiet, TakenIsYoung, ArrivalMatchesSilence, LongestWaitMs

LEMMA StepKeepsWaits ==
    ASSUME WaitInvariant, [LatencyNext]_<< vars, history_vars >>
    PROVE  WaitInvariant'
<1>1. [Next]_vars
    BY DEF LatencyNext, Next, vars
<1>2. AgeInvariant'
    BY <1>1, StepKeepsAge DEF WaitInvariant
<1>3. CASE Main /\ HistoryOfMain
    BY <1>2, <1>3, PollFrameKeepsWaits, IngestKeepsWaits, OtherKeepsWaits
<1>4. CASE Interrupt /\ HistoryOfTick
    BY <1>2, <1>4, TickKeepsWaits
<1>5. CASE Bus /\ HistoryOfArrival
    BY <1>2, <1>5, ArrivalKeepsWaits
<1>6. CASE UNCHANGED << vars, history_vars >>
    BY <1>2, <1>6
    DEF vars, history_vars, adapter_vars, time_vars, application_vars, safety_vars,
        WaitInvariant, WaitTypeOK, BootIsQuiet, WaitsAreShort, TakenIsYoung,
        ArrivalMatchesSilence, Backlog, Delay, LongestWaitMs
<1> QED
    BY <1>3, <1>4, <1>5, <1>6 DEF LatencyNext

LEMMA WaitInvariantHolds == LatencySpec => []WaitInvariant
<1>1. LatencyInit => WaitInvariant
    <2> SUFFICES ASSUME LatencyInit PROVE WaitInvariant
        OBVIOUS
    <2>1. /\ rx_fifo = << >> /\ waits = << >> /\ tx_pending = 0
          /\ taken_ms = MaxWaitMs /\ arrival_ms = MaxWaitMs
          /\ ~can_running /\ ~started /\ pc = "boot" /\ silent_ms = TickMod
        BY DEF LatencyInit, Init, AdapterInit, TimeInit
    <2>2. ~(silent_ms < TickMod)
        BY <2>1, TickModAssumption
    <2> QED
        BY <2>1, <2>2, AgeStartsTrue, MaxWaitAssumption, AdapterAssumption
        DEF LatencyInit, WaitInvariant, WaitTypeOK, BootIsQuiet, WaitsAreShort,
            TakenIsYoung, ArrivalMatchesSilence
<1>2. WaitInvariant /\ [LatencyNext]_<< vars, history_vars >> => WaitInvariant'
    BY StepKeepsWaits
<1> QED
    BY <1>1, <1>2, PTL DEF LatencySpec

(* While the loop runs, no frame waits longer than two reads of the tick for every *)
(* message the FIFO holds and one more, whatever comes and however fast it comes.  *)
THEOREM WaitIsAlwaysBounded == LatencySpec => []WaitIsBounded
BY WaitInvariantHolds, WaitsAreBounded, PTL

(* What is reported fresh arrived recently, although a frame carries no time and is *)
(* stamped when it is read.                                                         *)
THEOREM FreshAlwaysMeansRecentArrival == LatencySpec => []FreshMeansRecentArrival
<1>1. WaitInvariant => FreshMeansRecentArrival
    <2> SUFFICES ASSUME WaitInvariant, heartbeat_fresh, ~fault_latched, silent_ms < TickMod
                 PROVE  arrival_ms < HeartbeatTimeout + LongestWaitMs + 3 * MaxLoopMs
        BY DEF FreshMeansRecentArrival
    <2>1. arrival_ms \in Nat /\ arrival_ms <= silent_ms + LongestWaitMs
        BY DEF WaitInvariant, WaitTypeOK, ArrivalMatchesSilence
    <2>2. silent_ms < HeartbeatTimeout + unread_ms + SinceUpdate
        BY DEF WaitInvariant, AgeInvariant, FreshIsYoung
    <2>3. /\ silent_ms \in Nat /\ HeartbeatTimeout \in Nat
          /\ SinceUpdate \in {0, MaxLoopMs, 2 * MaxLoopMs}
        BY LoopTypes DEF WaitInvariant, AgeInvariant
    <2>4. /\ unread_ms \in Nat /\ unread_ms <= MaxLoopMs /\ MaxLoopMs \in Nat
          /\ LongestWaitMs \in Nat
        BY WaitTypes
    <2> QED
        BY <2>1, <2>2, <2>3, <2>4
<1> QED
    BY <1>1, WaitInvariantHolds, PTL
------------------------------------------------------------------------------
(* Types. *)

LEMMA AdapterStartsTyped == AdapterInit => AdapterTypeOK
<1> SUFFICES ASSUME AdapterInit PROVE AdapterTypeOK
    OBVIOUS
<1>1. started = FALSE /\ can_running = FALSE /\ rx_fifo = << >> /\ tx_pending = 0
    BY DEF AdapterInit
<1>2. Len(rx_fifo) = 0 /\ rx_fifo \in Seq(BusFrames)
    BY <1>1
<1>3. started \in BOOLEAN /\ can_running \in BOOLEAN
    BY <1>1
<1>4. tx_pending \in 0 .. TxMailboxes /\ Len(rx_fifo) <= FifoDepth
    BY <1>1, <1>2, AdapterAssumption
<1> QED
    BY <1>2, <1>3, <1>4 DEF AdapterTypeOK

LEMMA AdapterStaysTyped ==
    ASSUME AdapterTypeOK, [Next]_vars
    PROVE  AdapterTypeOK'
<1>1. CASE UNCHANGED adapter_vars
    BY <1>1 DEF adapter_vars, AdapterTypeOK
<1>2. CASE InitializeSucceeds \/ InitializeFails \/ PollFails
    BY <1>2 DEF InitializeSucceeds, InitializeFails, PollFails, AdapterTypeOK
<1>3. CASE PollRejects \/ \E polled \in BusFrames : PollDelivers(polled)
    <2>1. /\ rx_fifo # << >> /\ rx_fifo' = Tail(rx_fifo)
          /\ UNCHANGED << started, can_running, tx_pending >>
        BY <1>3 DEF PollRejects, PollDelivers
    <2>2. Tail(rx_fifo) \in Seq(BusFrames) /\ Len(Tail(rx_fifo)) <= FifoDepth
        BY <2>1, AdapterAssumption DEF AdapterTypeOK
    <2> QED
        BY <2>1, <2>2 DEF AdapterTypeOK
<1>4. CASE \E arrival \in BusFrames : FrameArrives(arrival)
    <2>1. PICK arrival \in BusFrames : FrameArrives(arrival)
        BY <1>4
    <2>2. UNCHANGED << started, can_running, tx_pending >>
        BY <2>1 DEF FrameArrives
    <2>3. rx_fifo' \in Seq(BusFrames) /\ Len(rx_fifo') <= FifoDepth
        <3>1. rx_fifo \in Seq(BusFrames) /\ Len(rx_fifo) <= FifoDepth /\ FifoDepth \in Nat
            BY AdapterAssumption DEF AdapterTypeOK
        <3>2. CASE Len(rx_fifo) < FifoDepth
            BY <2>1, <3>1, <3>2 DEF FrameArrives
        <3>3. CASE ~(Len(rx_fifo) < FifoDepth)
            <4>1. rx_fifo' = [rx_fifo EXCEPT ![FifoDepth] = arrival]
                BY <2>1, <3>3 DEF FrameArrives
            <4>2. Len(rx_fifo) = FifoDepth /\ DOMAIN rx_fifo = 1 .. FifoDepth
                BY <3>1, <3>3
            <4>3. rx_fifo' \in Seq(BusFrames) /\ Len(rx_fifo') = FifoDepth
                BY <3>1, <4>1, <4>2, ExceptSeq, AdapterAssumption
            <4> QED
                BY <3>1, <4>3
        <3> QED
            BY <3>2, <3>3
    <2> QED
        BY <2>2, <2>3 DEF AdapterTypeOK
<1>5. CASE MailboxDone
    BY <1>5, AdapterAssumption DEF MailboxDone, AdapterTypeOK
<1>6. CASE QuietStep
    BY <1>1, <1>2, <1>3, <1>4, <1>5, <1>6
    DEF QuietStep, BootSucceeds, BootFails, PollFrame, PollInVain, PollFindsNothing, Bus,
        Peripheral, vars
<1> QED
    BY <1>1, <1>6, StepKinds, ReadEffect, UpdateEffect, IngestEffect, InterruptEffect

(* Types of the whole firmware, when what the bus carries are CAN frames: the clocks *)
(* stay within their widths and the FIFO within its depth.                           *)
THEOREM ReceiveTypeCorrect ==
    ASSUME BusFrames \subseteq CanFrame
    PROVE  Spec => []TypeOK
<1>1. Spec => []ApplicationTypeOK
    BY ReceiveImplementsApplication, ApplicationTypeCorrect
<1>2. Init => AdapterTypeOK
    BY AdapterStartsTyped DEF Init
<1>3. AdapterTypeOK /\ [Next]_vars => AdapterTypeOK'
    BY AdapterStaysTyped
<1>4. LoopInvariant /\ ApplicationTypeOK /\ AdapterTypeOK => TypeOK
    BY DEF LoopInvariant, LoopIsTyped, TimeTypeOK, TypeOK
<1> QED
    BY <1>1, <1>2, <1>3, <1>4, LoopInvariantHolds, PTL DEF Spec
------------------------------------------------------------------------------
(* A fault report at the head of the FIFO, or in hand. *)

FaultInHand ==
    /\ frame # None
    /\ LET heartbeat == DecodeHeartbeat(frame[1], NodeId)
       IN  HasValue(heartbeat) /\ ReportsFault(heartbeat[1])

FaultOnItsWay == FaultAtHead \/ FaultInHand

(* The report is at the head or in hand until the step that latches the fault: the *)
(* safety half of FaultIsPublished.                                                *)
HeadFaultIsKept ==
    [][FaultOnItsWay => FaultOnItsWay' \/ (fault_latched' /\ state' = "fault_latched")]_vars

\* An arrival never touches the head of a FIFO that holds more than one message.
LEMMA ArrivalKeepsHead ==
    ASSUME FifoDepth > 1, AdapterTypeOK, rx_fifo # << >>,
           NEW arrival \in BusFrames, FrameArrives(arrival)
    PROVE  rx_fifo' # << >> /\ Head(rx_fifo') = Head(rx_fifo)
<1>1. /\ rx_fifo \in Seq(BusFrames) /\ Len(rx_fifo) <= FifoDepth /\ FifoDepth \in Nat
      /\ Len(rx_fifo) \in Nat /\ Len(rx_fifo) > 0
    BY AdapterAssumption DEF AdapterTypeOK
<1>2. CASE Len(rx_fifo) < FifoDepth
    BY <1>1, <1>2 DEF FrameArrives
<1>3. CASE ~(Len(rx_fifo) < FifoDepth)
    <2>1. rx_fifo' = [rx_fifo EXCEPT ![FifoDepth] = arrival] /\ Len(rx_fifo) = FifoDepth
        BY <1>1, <1>3 DEF FrameArrives
    <2>2. rx_fifo' \in Seq(BusFrames) /\ Len(rx_fifo') = FifoDepth /\ rx_fifo'[1] = rx_fifo[1]
        BY <1>1, <2>1, ExceptSeq
    <2> QED
        BY <1>1, <2>1, <2>2
<1> QED
    BY <1>2, <1>3

(* Poll takes the report into hand: no check of its header stands in the way. *)
LEMMA StepKeepsHead ==
    ASSUME FifoDepth > 1, BusFrames \subseteq CanFrame, AdapterTypeOK, FaultAtHead, [Next]_vars
    PROVE  FaultOnItsWay'
<1> DEFINE report == Head(rx_fifo)
<1>1. /\ rx_fifo # << >> /\ HasValue(DecodeHeartbeat(report, NodeId))
      /\ ReportsFault(DecodeHeartbeat(report, NodeId)[1])
    BY DEF FaultAtHead
<1>2. report \in CanFrame
    BY <1>1 DEF AdapterTypeOK
<1>3. CASE PollFrame
    <2>1. frame' = Some(report)
        BY <1>3 DEF PollFrame, PollDelivers
    <2>2. frame' # None /\ frame'[1] = report
        BY <2>1 DEF Some, None
    <2> QED
        BY <1>1, <2>2 DEF FaultInHand, FaultOnItsWay
<1>4. CASE PollRejects
    <2>1. report.identifier <= 2047 /\ report.dlc <= 8 /\ ~report.extended /\ ~report.remote
        BY <1>1, <1>2, HeartbeatPassesPoll
    <2> QED
        BY <1>4, <2>1 DEF PollRejects, HeaderIsAcceptable
<1>5. CASE \E arrival \in BusFrames : FrameArrives(arrival)
    <2>1. rx_fifo' # << >> /\ Head(rx_fifo') = report
        BY <1>1, <1>5, ArrivalKeepsHead
    <2> QED
        BY <1>1, <2>1 DEF FaultAtHead, FaultOnItsWay
<1>6. CASE rx_fifo' = rx_fifo
    BY <1>1, <1>6 DEF FaultAtHead, FaultOnItsWay
<1>7. CASE QuietStep
    BY <1>3, <1>4, <1>5, <1>6, <1>7
    DEF QuietStep, BootSucceeds, BootFails, PollInVain, Bus, Peripheral, MailboxDone,
        InitializeSucceeds, InitializeFails, PollFindsNothing, PollFails, adapter_vars, vars
<1> QED
    BY <1>6, <1>7, StepKinds, ReadEffect, UpdateEffect, IngestEffect, InterruptEffect
    DEF adapter_vars

(* What main has in hand stays there until ingest takes it. *)
LEMMA StepKeepsHand ==
    ASSUME LoopIsTyped, FaultInHand, [Next]_vars
    PROVE  FaultInHand' \/ (fault_latched' /\ state' = "fault_latched")
<1>1. /\ frame # None /\ HasValue(DecodeHeartbeat(frame[1], NodeId))
      /\ ReportsFault(DecodeHeartbeat(frame[1], NodeId)[1])
      /\ pc \in {"stamp", "ingest"}
    BY DEF FaultInHand, LoopIsTyped
<1>2. CASE IngestFrame
    BY <1>1, <1>2, IngestEffect, IngestLatchesFault
<1>3. CASE frame' = frame
    BY <1>3 DEF FaultInHand
<1> QED
    BY <1>1, <1>2, <1>3, StepKinds, ReadEffect, UpdateEffect, InterruptEffect, QuietEffect

(* However many frames overrun the FIFO behind it, a fault report at its head is not *)
(* lost: it stays there until main takes it, and in hand until the call that latches *)
(* and publishes it; not even an adapter failure removes it.                         *)
THEOREM FaultAtHeadIsNeverLost ==
    ASSUME FifoDepth > 1, BusFrames \subseteq CanFrame
    PROVE  Spec => HeadFaultIsKept
<1>1. Init => AdapterTypeOK
    BY AdapterStartsTyped DEF Init
<1>2. AdapterTypeOK /\ [Next]_vars => AdapterTypeOK'
    BY AdapterStaysTyped
<1>3. /\ AdapterTypeOK /\ LoopInvariant /\ [Next]_vars
      => [FaultOnItsWay => FaultOnItsWay' \/ (fault_latched' /\ state' = "fault_latched")]_vars
    BY StepKeepsHead, StepKeepsHand DEF FaultOnItsWay, LoopInvariant
<1> QED
    BY <1>1, <1>2, <1>3, LoopInvariantHolds, PTL DEF Spec, HeadFaultIsKept
==============================================================================
