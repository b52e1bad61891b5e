-------------------------- MODULE MCTargetTracking --------------------------
(***************************************************************************)
(* What the callers of AutoTracking say of the vessel.                     *)
(***************************************************************************)
EXTENDS TargetTracking

\* The tests give neither position nor speed: a vessel at rest in the origin.
AtRest == {[x |-> 0, v |-> 0]}

\* A vessel under way at 2 m/s, which has come some way from the origin.
UnderWay == {[x |-> 24, v |-> 5]}
=============================================================================
