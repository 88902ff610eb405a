------------------------------- MODULE HalTick -------------------------------
(***************************************************************************)
(* The millisecond tick of the STM32 HAL.  HAL_GetTick() is a counter that *)
(* wraps at 2^32; TickMod is that width, scaled down for TLC.  Every age   *)
(* in the firmware is the unsigned difference of two ticks.                *)
(***************************************************************************)
EXTENDS Integers

CONSTANT TickMod    \* the width of the tick counter, 2^32 in the firmware

ASSUME TickModAssumption == TickMod \in Nat /\ TickMod > 1

Tick == 0 .. TickMod - 1

\* Seeded defect: a difference that goes below zero is clamped, not wrapped.
TickAge_Clamped(now_ms, then_ms) ==
    IF now_ms >= then_ms THEN now_ms - then_ms ELSE 0

\* Seeded defect: the difference is taken in a type wider than the counter.
TickAge_Widened(now_ms, then_ms) ==
    IF now_ms >= then_ms THEN now_ms - then_ms ELSE TickMod - 1

\* static_cast<std::uint32_t>(now_ms - then_ms)
TickAge(now_ms, then_ms) ==
    IF now_ms >= then_ms THEN now_ms - then_ms ELSE now_ms - then_ms + TickMod

NextTick(t) == IF t = TickMod - 1 THEN 0 ELSE t + 1
==============================================================================
