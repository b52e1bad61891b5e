----------------------------- MODULE LosTracker -----------------------------
(***************************************************************************)
(* The trajectory tracker (modules/controller/include/                     *)
(* trajectorytracking.h): Grid_LOS follows a list of waypoints leg by leg, *)
(* which set_grid_points may replace at any time.                          *)
(*                                                                         *)
(* Of the position of the vessel only its distances to the waypoints       *)
(* matter.  A desired speed is the corner whose turning angle reduces it,  *)
(* or Cruise; a desired heading is the leg it was computed for.            *)
(***************************************************************************)
EXTENDS Naturals

CONSTANTS
  MaxPoints,  \* bound: waypoints of a route
  Distances,  \* of the vessel to a waypoint
  Radii       \* capture radii

\* set_grid_points asserts that a route has two waypoints.
ASSUME TrackerAssumption ==
  /\ MaxPoints \in Nat /\ MaxPoints >= 2
  /\ Distances \subseteq Nat /\ Radii \subseteq Nat

Waypoints == 0 .. MaxPoints - 1
Cruise == 0

VARIABLES
  size,               \* grid_points_x.size()
  grid_points_index,
  trackermode,
  capture_radius,
  v_setpoint,         \* corner that the desired speed is reduced for, or Cruise
  leg,                \* leg that the desired heading follows
  distance,           \* history: where the vessel was in the last step
  reached             \* history: waypoints whose capture radius it has entered

vars == <<size, grid_points_index, trackermode, capture_radius, v_setpoint,
          leg, distance, reached>>

-----------------------------------------------------------------------------

Init ==
  /\ size = 2 /\ grid_points_index = 0
  /\ trackermode = "STARTED"
  /\ capture_radius \in Radii
  /\ v_setpoint = Cruise /\ leg = 0
  /\ distance \in [Waypoints -> Distances] /\ reached = {}

\* Seeded fault: the index is kept, as the speed and the heading are.
set_grid_pointsKeepsIndex(n, r) ==
  /\ size' = n
  /\ capture_radius' = IF n > 2 THEN r ELSE capture_radius
  /\ trackermode' = "STARTED"
  /\ reached' = {}
  /\ UNCHANGED <<grid_points_index, v_setpoint, leg, distance>>

\* Seeded fault: with two waypoints the radius is the default of lineofsight.
set_grid_pointsDefaultRadius(n, r) ==
  /\ size' = n
  /\ capture_radius' = IF n > 2 THEN r ELSE 0
  /\ grid_points_index' = 0
  /\ trackermode' = "STARTED"
  /\ reached' = {}
  /\ UNCHANGED <<v_setpoint, leg, distance>>

\* The capture radius is only taken over with more than two waypoints.
set_grid_points(n, r) ==
  /\ size' = n
  /\ capture_radius' = IF n > 2 THEN r ELSE capture_radius
  /\ grid_points_index' = 0
  /\ trackermode' = "STARTED"
  /\ reached' = {}
  /\ UNCHANGED <<v_setpoint, leg, distance>>

IsEnterCaptureRadius(w) == distance'[w] <= capture_radius

\* Seeded fault: a waypoint is passed when the vessel is close to the last one.
CapturesAny == \E w \in 1 .. size - 1 : IsEnterCaptureRadius(w)

\* The vessel has come to the end of the leg current_wp0, current_wp1.
Captures == IsEnterCaptureRadius(grid_points_index + 1)

\* The vessel is at d.
Moves(d) ==
  /\ distance' = d
  /\ reached' = reached \cup {w \in 0 .. size - 1 : d[w] <= capture_radius}

\* Seeded fault: the angle of the corner ahead.
ReducedSpeedAhead ==
  IF IsEnterCaptureRadius(grid_points_index) /\ grid_points_index' > 0
  THEN grid_points_index' + 1 ELSE Cruise

\* turning_angles(grid_points_index - 1), with the index of after the switch but
\* the waypoint of before it.
ReducedSpeed ==
  IF IsEnterCaptureRadius(grid_points_index) /\ grid_points_index' > 0
  THEN grid_points_index' ELSE Cruise

\* Seeded fault: the heading is computed once for a route.
LegOfStart == leg

\* current_wp0 and current_wp1 are read before the index moves on.
LegFollowed == grid_points_index

\* On a leg: on the way, or with the index moved on to the next one.
Follow(d) ==
  /\ Moves(d)
  /\ \/ ~Captures /\ UNCHANGED grid_points_index
     \/ /\ Captures /\ size > 2 /\ grid_points_index # size - 2
        /\ grid_points_index' = grid_points_index + 1
  /\ v_setpoint' = IF size > 2 THEN ReducedSpeed ELSE Cruise
  /\ leg' = LegFollowed
  /\ trackermode' = "TRACKING"
  /\ UNCHANGED <<size, capture_radius>>

\* At the last waypoint: speed and heading stay what they were.
Finish(d) ==
  /\ Moves(d)
  /\ Captures
  /\ size > 2 => grid_points_index = size - 2
  /\ trackermode' = "FINISHED"
  /\ UNCHANGED <<size, grid_points_index, capture_radius, v_setpoint, leg>>

Grid_LOS(d) == Follow(d) \/ Finish(d)

Next ==
  \/ \E n \in 2 .. MaxPoints, r \in Radii : set_grid_points(n, r)
  \/ \E d \in [Waypoints -> Distances] : Grid_LOS(d)

Spec == Init /\ [][Next]_vars

-----------------------------------------------------------------------------
(* Properties.                                                             *)

TypeOK ==
  /\ size \in 2 .. MaxPoints
  /\ grid_points_index \in Nat /\ leg \in Nat /\ v_setpoint \in Nat
  /\ trackermode \in {"STARTED", "TRACKING", "FINISHED"}
  /\ capture_radius \in Radii
  /\ distance \in [Waypoints -> Distances] /\ reached \subseteq Waypoints

\* grid_points_index + 1 is a waypoint, whatever routes replace each other while
\* the vessel is under way: the arrays are never read past their end.
LegExists == grid_points_index + 1 < size

\* No waypoint is skipped: those before the leg have all been entered since the
\* route was set, and the route is finished only when every one has.
WaypointsInOrder ==
  /\ 1 .. grid_points_index \subseteq reached
  /\ trackermode = "FINISHED" => 1 .. size - 1 \subseteq reached

\* The speed is reduced by the turning angle of the corner the vessel is at, and
\* of no other: although the angle is indexed after the switch to the next leg
\* and the waypoint before it.
SpeedFitsCorner ==
  trackermode = "TRACKING" /\ v_setpoint # Cruise =>
    /\ v_setpoint = grid_points_index
    /\ v_setpoint + 1 < size
    /\ distance[v_setpoint] <= capture_radius

\* The heading follows the leg of the index; it lags behind by one leg only in
\* the step that enters the capture radius between the two.
HeadingFollowsLeg ==
  trackermode = "TRACKING" /\ leg # grid_points_index =>
    /\ leg + 1 = grid_points_index
    /\ distance[grid_points_index] <= capture_radius
=============================================================================
