------------------------ MODULE MCThrustAllocation ------------------------
(***************************************************************************)
(* Small vessels for TLC: their thrusters with rotations of a few rpm.     *)
(***************************************************************************)
EXTENDS ThrustAllocation

\* A tunnel thruster, an azimuth and two twin fixed propellers, whose band
\* (p = 2) is narrower than their ordinary increment (d = 3), so that all eight
\* cases of their box are distinct.
FleetLimits  == <<2, 2, 6, 6>>
FleetDelta   == <<1, 1, 3, 3>>
FleetBand    == <<1, 1, 2, 2>>
FleetMin     == <<1, 1, 1, 1>>
FleetTurn    == <<0, 1, 0, 0>>
FleetLeft    == <<0, 0, 0, 0>>
FleetRight   == <<0, 1, 0, 0>>
TwinPosition == [l \in 0 .. 1 |-> IF l = 0 THEN -1 ELSE 1]
AllSigns     == -1 .. 1

\* A tunnel, an azimuth and a propeller with rudder.
MixedLimits == <<5, 4, 5>>
MixedDelta  == <<2, 2, 2>>
MixedMin    == <<1, 1, 1>>
MixedTurn   == <<0, 1, 1>>
MixedLeft   == <<0, 0, -1>>
MixedRight  == <<0, 1, 1>>
NoTwins     == [l \in 0 .. 1 |-> l]
Gain        == [a \in -1 .. 1 |-> IF a = 0 THEN 2 ELSE 3]
=============================================================================
