--------------------------- MODULE TargetTracking ---------------------------
(***************************************************************************)
(* Target tracking of the marine radar (modules/perception/marine_radar/   *)
(* include/TargetTracking.h, with the filter of RadarFiltering.h): spokes  *)
(* turn round, what they see in the alarm zone is collected, and when they *)
(* leave the zone it is clustered and matched with the targets tracked.    *)
(*                                                                         *)
(* Azimuths are counted in steps of 0.008 rad.  Positions lie on a line,   *)
(* in any unit of length; speeds are in that unit per sample_time (2.5 s), *)
(* so that a target moves by its speed in one sample_time.  What the       *)
(* filter computes is rounded to the nearest.  What a pass collects is     *)
(* only told apart by the revolution it is from; the clusters found in it  *)
(* are left open.  Radii are abstracted, and with them which of several    *)
(* candidates wins.                                                        *)
(***************************************************************************)
EXTENDS Integers, Sequences, FiniteSets

CONSTANTS
  Ring,              \* steps of a revolution
  Alarm,             \* azimuths in the alarm zone
  MaxStep,           \* bound: greatest step from one spoke to the next
  Positions,         \* where something may be detected
  MaxDetections,     \* bound: clusters of one pass
  max_num_target, max_speed, max_acceleration, speed_threhold,
  p_radius, safe_distance,
  Vessels            \* position and speed of the vessel, as the callers give them

Slots == 1 .. max_num_target

\* The radar sees the outside of the zone at least twice in a revolution, and the
\* zone at least once.  A speed in m/s is also read as a position in m, which is two
\* fifths of it in the units of the model.
ASSUME TrackingAssumption ==
  /\ Ring \in Nat \ {0} /\ MaxStep \in Nat
  /\ Alarm \subseteq 0 .. Ring - 1
  /\ \E a, b \in 0 .. Ring - 1 :
       /\ Alarm = a .. b
       /\ MaxStep >= 2 /\ b - a + 1 >= MaxStep
       /\ Ring - (b - a + 1) >= 2 * MaxStep
  /\ Positions \subseteq Nat
  /\ {max_num_target, max_speed, max_acceleration, speed_threhold, p_radius,
      safe_distance, MaxDetections} \subseteq Nat
  /\ Vessels \subseteq [x : Int, v : Nat] /\ \A s \in Vessels : s.v % 5 = 0

VARIABLES
  azimuth,             \* previous_spoke_azimuth_rad
  previous_IsInAlarmAzimuth,
  spoke_state,
  surroundings,        \* revolutions whose spokes have been collected
  target_x,            \* TargetDetection_RTdata: where the last pass saw something
  targets,             \* TargetTracking_RTdata: state, x, v, intention
  vessel,              \* history: the vessel in the last evaluation
  crept                \* history: a spoke was ignored since points were discarded

vars == <<azimuth, previous_IsInAlarmAzimuth, spoke_state, surroundings, target_x,
          targets, vessel, crept>>

Abs(k) == IF k < 0 THEN -k ELSE k

-----------------------------------------------------------------------------
(* TargetIdentification: detections are matched with targets.              *)

Live(ts) == {i \in Slots : ts[i].state # "IDLE"}

\* The detections a target may have moved to.  A moving one has not turned back:
\* delta_yaw would be Pi.
Candidates(t, seen) ==
  {k \in DOMAIN seen :
     LET moved == seen[k] - t.x
     IN  /\ Abs(moved) <= max_speed
         /\ Abs(moved - t.v) <= max_acceleration
         /\ Abs(t.v) > speed_threhold => moved * t.v >= 0}

\* One candidate for every target that has any; two targets may take the same.
LiveMatches(seen) ==
  {c \in [Live(targets) -> 0 .. Len(seen)] :
     \A i \in Live(targets) :
       LET may == Candidates(targets[i], seen)
       IN  c[i] \in IF may = {} THEN {0} ELSE may}

Unmatched(seen, c) == {k \in 1 .. Len(seen) : \A i \in DOMAIN c : c[i] # k}

\* How many of S come up to k.
CountTo(S, k) == Cardinality({l \in S : l <= k})

\* Seeded fault: it_unmatched is not increased.
RankAlwaysFirst(i) == 1

\* it_unmatched, when the loop comes to the idle slot i.
Rank(i) == CountTo(Slots \ Live(targets), i)

\* match_targets_index; 0 stands for -1.  Idle slots take what is unmatched, in
\* order.
TargetIdentification(seen, c) ==
  LET rest == Unmatched(seen, c)
  IN  [i \in Slots |->
         CASE i \in Live(targets) -> c[i]
           [] i \notin Live(targets) /\ Rank(i) <= Cardinality(rest)
                                  -> CHOOSE k \in rest : CountTo(rest, k) = Rank(i)
           [] OTHER               -> 0]

-----------------------------------------------------------------------------
(* PredictMotion.                                                          *)

SpeedFloor(v) == IF Abs(v) <= speed_threhold THEN 0 ELSE v

\* k ten-thousandths, to the nearest.
Nearest(k) == (k + 5000) \div 10000

\* The gains alpha and beta of NormalFilter for sigma_w = sigma_v = 1, of the residual
\* k: what the target has been seen away from where it was expected.
Alpha(k) == Nearest(9587 * k)
Beta(k)  == Nearest(12698 * k)

Predicted(t) ==
  IF t.state = "ACQUIRED"
  THEN [t EXCEPT !.state = "ACQUIRING", !.x = t.x + t.v, !.v = SpeedFloor(t.v)]
  ELSE [t EXCEPT !.state = "IDLE", !.x = 0, !.v = 0]

Filtered(t, seen) ==
  LET expected == t.x + t.v
  IN  IF t.state = "IDLE"
      THEN [t EXCEPT !.state = "ACQUIRING", !.x = seen, !.v = 0]
      ELSE [t EXCEPT !.state = "ACQUIRED",
                     !.x = expected + Alpha(seen - expected),
                     !.v = SpeedFloor(t.v + Beta(seen - expected))]

PredictMotion(seen, match) ==
  [i \in Slots |-> IF match[i] = 0 THEN Predicted(targets[i])
                                   ELSE Filtered(targets[i], seen[match[i]])]

-----------------------------------------------------------------------------
(* SituationAwareness and RemoveDuplicateTargets.                          *)

Judged(t, danger) ==
  [t EXCEPT !.intention = IF danger THEN "DANGEROUS" ELSE "SAFE"]

\* computeCPA finds a TCPA > 0 exactly when the two come nearer, at the time of
\* the least distance; what is compared with safe_distance is how far the vessel,
\* which is at a with speed v, travels until then.  A target that does not come
\* nearer keeps the intention it had.
AwareOf(t, a, v) ==
  LET approaches == (a - t.x) * (v - t.v) < 0
  IN  CASE t.state = "IDLE"           -> t
        [] t.state # "IDLE" /\ Abs(t.v) <= speed_threhold
                                      -> Judged(t, Abs(a - t.x) <= safe_distance)
        [] t.state # "IDLE" /\ Abs(t.v) > speed_threhold /\ approaches
                                      -> Judged(t, v * Abs(a - t.x)
                                                     <= safe_distance * Abs(v - t.v))
        [] OTHER                      -> t

\* Seeded fault: only targets that are acquired are judged.
SituationAwarenessOfAcquired(ts, s) ==
  [i \in Slots |-> IF ts[i].state = "ACQUIRED"
                   THEN AwareOf(ts[i], (2 * s.v) \div 5, s.v) ELSE ts[i]]

\* AutoTracking passes the speed of the vessel for its position as well.
SituationAwareness(ts, s) ==
  [i \in Slots |-> AwareOf(ts[i], (2 * s.v) \div 5, s.v)]

\* Seeded fault: the target is only compared with the next one.
NextTo(ts, i) ==
  {j \in {i + 1} \cap Slots :
     /\ {i, j} \subseteq Live(ts)
     /\ Abs(ts[i].x - ts[j].x) <= p_radius}

\* The targets after i within p_radius of it.
CloseTo(ts, i) ==
  {j \in i + 1 .. max_num_target :
     /\ {i, j} \subseteq Live(ts)
     /\ Abs(ts[i].x - ts[j].x) <= p_radius}

\* One turn of the outer loop: i outdoes the targets close to it, until one of
\* them outdoes it.
DuplicatesOf(ts, i) ==
  LET faster == {j \in CloseTo(ts, i) : Abs(ts[i].v) <= Abs(ts[j].v)}
  IN  {j \in CloseTo(ts, i) \ faster : \A k \in faster : j < k}
        \cup (IF faster = {} THEN {} ELSE {i})

RemoveDuplicateTargets(ts) ==
  LET turn[i \in 0 .. max_num_target] ==
        IF i = 0 THEN ts
        ELSE LET before  == turn[i - 1]
                 dropped == DuplicatesOf(before, i)
             IN  [j \in Slots |-> IF j \in dropped
                                  THEN [before[j] EXCEPT !.state = "IDLE"]
                                  ELSE before[j]]
  IN  turn[max_num_target]

-----------------------------------------------------------------------------
(* AutoTracking, one spoke after another.                                  *)

IsInAlarmAzimuth(a) == a \in Alarm

Init ==
  /\ azimuth = 0 /\ previous_IsInAlarmAzimuth = FALSE
  /\ spoke_state = "OUTSIDE_ALARM_ZONE"
  /\ surroundings = {} /\ target_x = << >>
  /\ targets = [i \in Slots |-> [state |-> "IDLE", x |-> 0, v |-> 0,
                                 intention |-> "SAFE"]]
  /\ vessel \in Vessels /\ crept = FALSE

\* Seeded fault: the azimuth is not normalised.
TurnOn(s) ==
  /\ azimuth' = azimuth + s
  /\ previous_IsInAlarmAzimuth' = IsInAlarmAzimuth(azimuth' % Ring)

\* The next spoke is s steps further.
Turn(s) ==
  /\ azimuth' = (azimuth + s) % Ring
  /\ previous_IsInAlarmAzimuth' = IsInAlarmAzimuth(azimuth')

\* The points there are when the spoke is in: when it has come into the zone they
\* are all from revolutions before this one.
Collected ==
  IF ~IsInAlarmAzimuth(azimuth) /\ IsInAlarmAzimuth(azimuth') /\ surroundings # {}
  THEN {"before"} ELSE surroundings

\* The azimuth is the same, or nearly: nothing is done.
Ignore(s) ==
  /\ s <= 1
  /\ Turn(s)
  /\ surroundings' = Collected
  /\ crept' = TRUE
  /\ UNCHANGED <<spoke_state, target_x, targets, vessel>>

\* In the alarm zone: what the spoke sees, if anything, is appended.
Collect(s) ==
  /\ s > 1
  /\ Turn(s)
  /\ IsInAlarmAzimuth(azimuth')
  /\ surroundings' = Collected \cup {"now"}
  /\ spoke_state' = IF previous_IsInAlarmAzimuth THEN "IN_ALARM_ZONE"
                                                 ELSE "ENTER_ALARM_ZONE"
  /\ UNCHANGED <<target_x, targets, vessel, crept>>

\* The clusters a pass may have that are neither too small nor too large, in any
\* order: their centres may lie together, when one of them is round the other.
Clusters == UNION {[1 .. k -> Positions] : k \in 0 .. MaxDetections}

\* The zone is left: targets follow what the pass has seen.
Evaluate(s) ==
  /\ s > 1
  /\ Turn(s)
  /\ ~IsInAlarmAzimuth(azimuth') /\ previous_IsInAlarmAzimuth
  /\ target_x' \in IF surroundings = {} THEN {<< >>} ELSE Clusters
  /\ vessel' \in Vessels
  /\ \E c \in LiveMatches(target_x') :
       LET match == TargetIdentification(target_x', c)
           moved == PredictMotion(target_x', match)
           aware == SituationAwareness(moved, vessel')
       IN  targets' = RemoveDuplicateTargets(aware)
  /\ spoke_state' = "LEAVE_ALARM_ZONE"
  /\ UNCHANGED <<surroundings, crept>>

\* Seeded fault: the points are kept.
DiscardNot(s) ==
  /\ s > 1
  /\ Turn(s)
  /\ ~IsInAlarmAzimuth(azimuth') /\ ~previous_IsInAlarmAzimuth
  /\ crept' = FALSE
  /\ spoke_state' = "OUTSIDE_ALARM_ZONE"
  /\ UNCHANGED <<surroundings, target_x, targets, vessel>>

\* Outside: the points are discarded.
Discard(s) ==
  /\ s > 1
  /\ Turn(s)
  /\ ~IsInAlarmAzimuth(azimuth') /\ ~previous_IsInAlarmAzimuth
  /\ surroundings' = {} /\ crept' = FALSE
  /\ spoke_state' = "OUTSIDE_ALARM_ZONE"
  /\ UNCHANGED <<target_x, targets, vessel>>

AutoTracking(s) == Ignore(s) \/ Collect(s) \/ Evaluate(s) \/ Discard(s)

Next == \E s \in 0 .. MaxStep : AutoTracking(s)

Spec == Init /\ [][Next]_vars

-----------------------------------------------------------------------------
(* Properties.                                                             *)

TypeOK ==
  /\ azimuth \in 0 .. Ring - 1 /\ previous_IsInAlarmAzimuth \in BOOLEAN
  /\ spoke_state \in {"OUTSIDE_ALARM_ZONE", "ENTER_ALARM_ZONE", "IN_ALARM_ZONE",
                      "LEAVE_ALARM_ZONE"}
  /\ surroundings \subseteq {"before", "now"} /\ target_x \in Seq(Positions)
  /\ targets \in [Slots -> [state : {"IDLE", "ACQUIRING", "ACQUIRED"}, x : Int,
                            v : Int, intention : {"SAFE", "DANGEROUS"}]]
  /\ vessel \in Vessels /\ crept \in BOOLEAN

\* The spoke leaves the alarm zone, and does not creep out of it.
Evaluates ==
  /\ previous_IsInAlarmAzimuth /\ ~previous_IsInAlarmAzimuth'
  /\ (azimuth' - azimuth) % Ring > 1

\* Every pass of the zone is evaluated by itself and once, although the points are
\* kept when the zone is left, and the state of the spokes is told from the spoke
\* before: points of two revolutions are never clustered together, none are
\* clustered twice, and none are discarded unseen.  Spokes that creep or repeat
\* are ignored and may spoil all of this.
PassEvaluatedOnce ==
  [][~crept =>
       /\ Evaluates => "before" \notin surroundings /\ spoke_state # "LEAVE_ALARM_ZONE"
       /\ surroundings # {} /\ surroundings' = {}
            => spoke_state = "LEAVE_ALARM_ZONE"]_vars

Idle == {i \in Slots : targets[i].state = "IDLE"}

\* How far the filter leaves a target from where it was seen: the rest of the
\* greatest residual a candidate may have.
Lag == Nearest(413 * max_acceleration)

\* While there are slots for them, everything that is seen is tracked: a duplicate
\* is dropped for a target near it, which may itself be dropped for the next, but
\* the last of them is still there.  Nothing else is tracked: a target is where
\* something was seen, but for what the filter keeps of where it was expected, or
\* has been lost for one pass, and is not acquired before it was seen twice.
TargetsFollowDetections ==
  [][Evaluates =>
       /\ Cardinality(Idle) >= Len(target_x') =>
            \A k \in DOMAIN target_x' : \E i \in Live(targets') :
              Abs(targets'[i].x - target_x'[k]) <= (max_num_target - 1) * p_radius + Lag
       /\ \A i \in Live(targets') :
            \/ \E k \in DOMAIN target_x' : Abs(targets'[i].x - target_x'[k]) <= Lag
            \/ targets[i].state = "ACQUIRED" /\ targets'[i].state = "ACQUIRING"
       /\ \A i \in Idle : targets'[i].state # "ACQUIRED"]_vars

\* No two targets lie within p_radius of each other: one pass over the pairs, which
\* drops targets while it goes on comparing, leaves none.  Two that have taken one
\* detection may lie farther apart than that, and both stay.
TracksApart ==
  \A i, j \in Live(targets) :
    i # j => Abs(targets[i].x - targets[j].x) > p_radius

\* A target at rest is dangerous exactly when it is within safe_distance of the
\* vessel, whatever the slot held before: "check the safe distance, true:
\* dangerous; false: safe".
DangerIsNearVessel ==
  \A i \in Live(targets) :
    Abs(targets[i].v) <= speed_threhold =>
      (targets[i].intention = "DANGEROUS"
         <=> Abs(targets[i].x - vessel.x) <= safe_distance)
=============================================================================
