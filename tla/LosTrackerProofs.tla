-------------------------- MODULE LosTrackerProofs --------------------------
(***************************************************************************)
(* The safety of the trajectory tracker, for routes of any length, any     *)
(* distances and any capture radii.                                        *)
(*                                                                         *)
(* The four invariants of LosTracker are inductive together: the index is  *)
(* only moved on inside of the route (LegExists), by a step that puts the  *)
(* waypoint it moves to into reached, and speed and heading are computed   *)
(* anew in every step that leaves the tracker TRACKING.                    *)
(***************************************************************************)
EXTENDS LosTracker, TLAPS

IInv ==
  /\ TypeOK
  /\ LegExists
  /\ WaypointsInOrder
  /\ SpeedFitsCorner
  /\ HeadingFollowsLeg

\* A new route starts at its first leg, with nothing reached.
LEMMA SetPreserves ==
  ASSUME IInv, NEW n \in 2 .. MaxPoints, NEW r \in Radii, set_grid_points(n, r)
  PROVE  IInv'
<1>1. TypeOK'
  BY DEF IInv, TypeOK, set_grid_points
<1>2. LegExists'
  BY DEF LegExists, set_grid_points
<1>3. WaypointsInOrder'
  BY DEF WaypointsInOrder, set_grid_points
<1>4. SpeedFitsCorner' /\ HeadingFollowsLeg'
  BY DEF SpeedFitsCorner, HeadingFollowsLeg, set_grid_points
<1> QED
  BY <1>1, <1>2, <1>3, <1>4 DEF IInv

\* What a move adds to reached is what the vessel is close to; nothing is lost.
LEMMA MoveReaches ==
  ASSUME TypeOK, LegExists, TrackerAssumption,
         NEW d \in [Waypoints -> Distances], Moves(d)
  PROVE  /\ distance' \in [Waypoints -> Distances]
         /\ reached \subseteq reached' /\ reached' \subseteq Waypoints
         /\ Captures => grid_points_index + 1 \in reached'
<1>1. 0 .. size - 1 \subseteq Waypoints
  BY DEF TypeOK, Waypoints, TrackerAssumption
<1>2. grid_points_index + 1 \in 0 .. size - 1
  BY DEF TypeOK, LegExists, TrackerAssumption
<1> QED
  BY <1>1, <1>2 DEF Moves, TypeOK, Captures, IsEnterCaptureRadius

\* On a leg.
LEMMA FollowPreserves ==
  ASSUME IInv, NEW d \in [Waypoints -> Distances], Follow(d)
  PROVE  IInv'
<1> USE TrackerAssumption
<1>1. TypeOK /\ LegExists /\ WaypointsInOrder
  BY DEF IInv
<1>2. Moves(d)
  BY DEF Follow
<1>3. /\ distance' \in [Waypoints -> Distances]
      /\ reached \subseteq reached' /\ reached' \subseteq Waypoints
      /\ Captures => grid_points_index + 1 \in reached'
  BY <1>1, <1>2, MoveReaches
<1>4. /\ size' = size /\ capture_radius' = capture_radius
      /\ trackermode' = "TRACKING" /\ leg' = grid_points_index
      /\ \/ grid_points_index' = grid_points_index
         \/ /\ Captures /\ grid_points_index # size - 2
            /\ grid_points_index' = grid_points_index + 1
  BY DEF Follow, LegFollowed
<1>5. v_setpoint' = Cruise
        \/ /\ v_setpoint' = grid_points_index'
           /\ IsEnterCaptureRadius(grid_points_index)
           /\ grid_points_index' > 0
  BY DEF Follow, ReducedSpeed
<1>6. /\ grid_points_index' \in Nat
      /\ grid_points_index' + 1 < size
  BY <1>1, <1>4 DEF TypeOK, LegExists
<1>7. TypeOK'
  BY <1>1, <1>3, <1>4, <1>5, <1>6 DEF TypeOK, Cruise
<1>8. LegExists'
  BY <1>4, <1>6 DEF LegExists
<1>9. WaypointsInOrder'
  <2>1. \A w \in 1 .. grid_points_index' :
          w \in 1 .. grid_points_index
            \/ (w = grid_points_index + 1 /\ Captures)
    BY <1>1, <1>4 DEF TypeOK
  <2> QED
    BY <2>1, <1>1, <1>3, <1>4 DEF WaypointsInOrder
<1>10. SpeedFitsCorner'
  BY <1>1, <1>4, <1>5, <1>6
     DEF SpeedFitsCorner, Captures, IsEnterCaptureRadius, TypeOK, Cruise
<1>11. HeadingFollowsLeg'
  BY <1>1, <1>4 DEF HeadingFollowsLeg, Captures, IsEnterCaptureRadius, TypeOK
<1> QED
  BY <1>7, <1>8, <1>9, <1>10, <1>11 DEF IInv

\* At the last waypoint.
LEMMA FinishPreserves ==
  ASSUME IInv, NEW d \in [Waypoints -> Distances], Finish(d)
  PROVE  IInv'
<1> USE TrackerAssumption
<1>1. TypeOK /\ LegExists /\ WaypointsInOrder
  BY DEF IInv
<1>2. Moves(d) /\ Captures
  BY DEF Finish
<1>3. /\ distance' \in [Waypoints -> Distances]
      /\ reached \subseteq reached' /\ reached' \subseteq Waypoints
      /\ grid_points_index + 1 \in reached'
  BY <1>1, <1>2, MoveReaches
<1>4. /\ trackermode' = "FINISHED"
      /\ UNCHANGED <<size, grid_points_index, capture_radius, v_setpoint, leg>>
  BY DEF Finish
<1>5. grid_points_index = size - 2
  BY <1>1 DEF Finish, TypeOK, LegExists
<1>6. TypeOK' /\ LegExists'
  BY <1>1, <1>3, <1>4 DEF TypeOK, LegExists
<1>7. WaypointsInOrder'
  <2>1. \A w \in 1 .. size - 1 :
          w \in 1 .. grid_points_index \/ w = grid_points_index + 1
    BY <1>1, <1>5 DEF TypeOK
  <2> QED
    BY <2>1, <1>1, <1>3, <1>4 DEF WaypointsInOrder
<1>8. SpeedFitsCorner' /\ HeadingFollowsLeg'
  BY <1>4 DEF SpeedFitsCorner, HeadingFollowsLeg
<1> QED
  BY <1>6, <1>7, <1>8 DEF IInv

\* IInv is an inductive invariant of the tracker.
THEOREM Inductive == Spec => []IInv
<1>1. Init => IInv
  BY TrackerAssumption
     DEF Init, IInv, TypeOK, LegExists, WaypointsInOrder, SpeedFitsCorner,
         HeadingFollowsLeg, Cruise
<1>2. IInv /\ [Next]_vars => IInv'
  <2> SUFFICES ASSUME IInv, [Next]_vars PROVE IInv'
    OBVIOUS
  <2>1. ASSUME NEW n \in 2 .. MaxPoints, NEW r \in Radii, set_grid_points(n, r)
        PROVE  IInv'
    BY <2>1, SetPreserves
  <2>2. ASSUME NEW d \in [Waypoints -> Distances], Grid_LOS(d)
        PROVE  IInv'
    <3>1. CASE Follow(d)
      BY <3>1, FollowPreserves
    <3>2. CASE Finish(d)
      BY <3>2, FinishPreserves
    <3> QED
      BY <2>2, <3>1, <3>2 DEF Grid_LOS
  <2>3. CASE UNCHANGED vars
    BY <2>3 DEF vars, IInv, TypeOK, LegExists, WaypointsInOrder,
                SpeedFitsCorner, HeadingFollowsLeg
  <2> QED
    BY <2>1, <2>2, <2>3 DEF Next
<1> QED
  BY <1>1, <1>2, PTL DEF Spec

\* Type correctness of the tracker, with the index and the radii it may have.
THEOREM TypeCorrect == Spec => []TypeOK
<1>1. IInv => TypeOK
  BY DEF IInv
<1> QED
  BY <1>1, Inductive, PTL

\* The index stays inside of the route: grid_points_x and grid_points_y are
\* never read past their end.
THEOREM LegCorrect == Spec => []LegExists
<1>1. IInv => LegExists
  BY DEF IInv
<1> QED
  BY <1>1, Inductive, PTL

\* Grid_LOS skips no waypoint, and finishes only when all have been entered.
THEOREM OrderCorrect == Spec => []WaypointsInOrder
<1>1. IInv => WaypointsInOrder
  BY DEF IInv
<1> QED
  BY <1>1, Inductive, PTL

\* The turning angle that reduces the speed is that of the corner the vessel
\* is at.
THEOREM SpeedCorrect == Spec => []SpeedFitsCorner
<1>1. IInv => SpeedFitsCorner
  BY DEF IInv
<1> QED
  BY <1>1, Inductive, PTL

\* The leg that gives the heading lags the index only where the two meet.
THEOREM HeadingCorrect == Spec => []HeadingFollowsLeg
<1>1. IInv => HeadingFollowsLeg
  BY DEF IInv
<1> QED
  BY <1>1, Inductive, PTL
=============================================================================
