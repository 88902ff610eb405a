--------------------------- MODULE MCCommandBuilder ---------------------------
(* Limits, requests and nodes of the builder's runs, and the frames of its tests. *)
EXTENDS CommandBuilder, FiniteSets

Limits(low, high, velocity, torque, kp, kd) ==
    [min_position |-> low, max_position |-> high, max_velocity |-> velocity,
     max_torque |-> torque, max_kp |-> kp, max_kd |-> kd]

Request(p, v, kp, kd, t) ==
    [position |-> p, velocity |-> v, kp |-> kp, kd |-> kd, torque |-> t]

TutorialLimits == Limits(-256, 256, 512, 102, 1024, 51)
TestLimits == Limits(-512, 512, 1024, 256, 2048, 102)
WireLimits == Limits(-12800, 12800, 66560, 51200, 512000, 5120)
OneSided == Limits(700, 12799, 0, 51199, 511999, 0)
EmptyPosition == Limits(256, 256, 512, 102, 1024, 51)
GainTooWide == Limits(-256, 256, 512, 102, 512001, 51)
VelocityTooWide == Limits(-256, 256, 66561, 102, 1024, 51)
InfiniteTorque == Limits(-256, 256, 512, Infinity, 1024, 51)

MCLimitSets ==
    {TutorialLimits, TestLimits, WireLimits, OneSided, EmptyPosition, GainTooWide,
     VelocityTooWide, InfiniteTorque}

Zero == Request(0, 0, 0, 0, 0)

\* A value of each field at, beside and beyond every bound of the limits and the wire.
Probes(f) ==
    {-Infinity, WireMin[f] - 1, WireMin[f], WireMin[f] + 1, -512, -1, 1, 51, 701, 30000,
     WireMax[f] - 1, WireMax[f], WireMax[f] + 1, Infinity}

Corners == [Fields -> {-13000, 52000}]

MCRequests ==
    {Zero} \cup Corners \cup
    UNION {{[Zero EXCEPT ![f] = v] : v \in Probes(f)} : f \in Fields}

MCNodeIds == {0, 63, 64}

\* The two frames of test_domain: a request of zeros, and one at the limits.
ASSUME GoldenFrames ==
    /\ CompileMit(TestLimits, 18, Zero)[1].identifier = 584
    /\ CompileMit(TestLimits, 18, Zero)[1].data = << 127, 255, 127, 240, 0, 0, 7, 255 >>
    /\ CompileMit(TestLimits, 18, Request(512, 1024, 2048, 102, 256))[1].data
        = << 133, 30, 129, 240, 16, 5, 24, 9 >>
=============================================================================
