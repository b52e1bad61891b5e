------------------------ MODULE TargetTrackingProofs ------------------------
(***************************************************************************)
(* Proofs for any division of the revolution, any zone and distance of the *)
(* spokes that the assumption admits, any number of targets and clusters,  *)
(* and any positions, speeds and limits.                                   *)
(*                                                                         *)
(* The passes.  The points of a pass are still there on the first spoke    *)
(* behind the zone.  What makes that safe is distance: the spoke that      *)
(* evaluates them is at most MaxStep behind the zone, so the next one is   *)
(* outside, too, and discards them, unless a spoke is ignored.             *)
(*                                                                         *)
(* The targets.  RemoveDuplicateTargets is recursive over the targets; a   *)
(* history of its turns is shown to exist, and what holds of each turn is  *)
(* shown by induction: no target up to the turn is close to one that is    *)
(* left, and near each target that was dropped there is one left, as many  *)
(* times p_radius away as targets were dropped.  Idle slots take what is   *)
(* unmatched by counting, and so take all of it when there are enough.     *)
(* The filter keeps a target near what it takes, because a candidate is    *)
(* never farther from where it was expected than max_acceleration allows.  *)
(***************************************************************************)
EXTENDS TargetTracking, FiniteSetTheorems, SequenceTheorems, FunctionTheorems,
        WellFoundedInduction, TLAPS

\* How far x is behind the end b of the zone.
Behind(x, b) == IF x > b THEN x - b ELSE x - b + Ring

PassesApart ==
  /\ azimuth \in 0 .. Ring - 1
  /\ previous_IsInAlarmAzimuth => azimuth \in Alarm
  /\ ~crept /\ previous_IsInAlarmAzimuth =>
       "before" \notin surroundings /\ spoke_state # "LEAVE_ALARM_ZONE"
  /\ ~crept /\ ~previous_IsInAlarmAzimuth /\ surroundings # {} =>
       /\ spoke_state = "LEAVE_ALARM_ZONE"
       /\ azimuth \notin Alarm
       /\ \A a, b \in 0 .. Ring - 1 : Alarm = a .. b => Behind(azimuth, b) <= MaxStep

-----------------------------------------------------------------------------

\* What the assumption says of the distances, wherever the zone lies.
LEMMA Geometry ==
  ASSUME TrackingAssumption
  PROVE  /\ Ring \in Nat /\ MaxStep \in Nat /\ 2 * MaxStep <= Ring
         /\ \A a, b \in 0 .. Ring - 1 :
              Alarm = a .. b => Ring - (b - a + 1) >= 2 * MaxStep
<1>1. PICK a, b \in 0 .. Ring - 1 :
        /\ Alarm = a .. b
        /\ b - a + 1 >= MaxStep /\ MaxStep >= 2
        /\ Ring - (b - a + 1) >= 2 * MaxStep
  BY DEF TrackingAssumption
<1>2. Ring \in Nat /\ MaxStep \in Nat /\ a \in Int /\ b \in Int /\ a <= b
  <2>1. Ring \in Nat /\ MaxStep \in Nat /\ a \in Int /\ b \in Int
    BY <1>1 DEF TrackingAssumption
  <2> QED
    BY <1>1, <2>1
<1>3. b - a + 1 >= MaxStep /\ Ring - (b - a + 1) >= 2 * MaxStep
  BY <1>1
<1>4. ASSUME NEW c \in 0 .. Ring - 1, NEW d \in 0 .. Ring - 1, Alarm = c .. d
      PROVE  Ring - (d - c + 1) >= 2 * MaxStep
  <2>1. c = a /\ d = b
    BY <1>1, <1>2, <1>4
  <2> QED
    BY <1>3, <2>1
<1> QED
  BY <1>2, <1>3, <1>4

\* A spoke goes once round at the most.
LEMMA TurnedOnce ==
  ASSUME NEW r \in Nat, NEW x \in 0 .. r - 1, NEW s \in 0 .. r
  PROVE  /\ (x + s) % r = IF x + s < r THEN x + s ELSE x + s - r
         /\ (x + s) % r \in 0 .. r - 1
<1>1. (x + s) % r = IF x + s < r THEN x + s ELSE x + s - r
  <2>1. CASE x + s < r
    BY <2>1, SMTT(30)
  <2>2. CASE ~(x + s < r)
    BY <2>2, SMTT(30)
  <2> QED
    BY <2>1, <2>2
<1> QED
  BY <1>1

\* The same for the step from one spoke to the next.
LEMMA Turned ==
  ASSUME TrackingAssumption, azimuth \in 0 .. Ring - 1,
         NEW s \in 0 .. MaxStep, Turn(s)
  PROVE  /\ azimuth' = IF azimuth + s < Ring THEN azimuth + s ELSE azimuth + s - Ring
         /\ azimuth' \in 0 .. Ring - 1
         /\ previous_IsInAlarmAzimuth' = (azimuth' \in Alarm)
<1>1. Ring \in Nat /\ MaxStep \in Nat /\ 2 * MaxStep <= Ring
  BY Geometry
<1>2. s \in 0 .. Ring
  BY <1>1
<1>3. azimuth' = (azimuth + s) % Ring /\ previous_IsInAlarmAzimuth' = (azimuth' \in Alarm)
  BY DEF Turn, IsInAlarmAzimuth
<1>4. /\ (azimuth + s) % Ring = IF azimuth + s < Ring THEN azimuth + s
                                                    ELSE azimuth + s - Ring
      /\ (azimuth + s) % Ring \in 0 .. Ring - 1
  <2>1. Ring \in Nat /\ azimuth \in 0 .. Ring - 1
    BY <1>1
  <2> QED
    BY <1>2, <2>1, TurnedOnce
<1> QED
  BY <1>3, <1>4

\* From the zone a spoke that leaves it comes no further than MaxStep behind it.
LEMMA LeavesNearby ==
  ASSUME Ring \in Nat, MaxStep \in Nat, 2 * MaxStep <= Ring,
         NEW a \in 0 .. Ring - 1, NEW b \in 0 .. Ring - 1,
         Ring - (b - a + 1) >= 2 * MaxStep,
         NEW s \in 0 .. MaxStep, NEW x \in a .. b, NEW y \in 0 .. Ring - 1,
         y = IF x + s < Ring THEN x + s ELSE x + s - Ring, y \notin a .. b
  PROVE  Behind(y, b) <= MaxStep
BY DEF Behind

\* From there the next spoke does not reach the zone.
LEMMA StaysOutside ==
  ASSUME Ring \in Nat, MaxStep \in Nat, 2 * MaxStep <= Ring,
         NEW a \in 0 .. Ring - 1, NEW b \in 0 .. Ring - 1,
         Ring - (b - a + 1) >= 2 * MaxStep,
         NEW s \in 0 .. MaxStep, NEW x \in 0 .. Ring - 1, NEW y \in 0 .. Ring - 1,
         x \notin a .. b, Behind(x, b) <= MaxStep,
         y = IF x + s < Ring THEN x + s ELSE x + s - Ring
  PROVE  y \notin a .. b
BY DEF Behind

-----------------------------------------------------------------------------
(* The steps of AutoTracking.                                              *)

\* What every spoke does to the first conjuncts.
LEMMA Placed ==
  ASSUME TrackingAssumption, PassesApart, NEW s \in 0 .. MaxStep, Turn(s)
  PROVE  /\ azimuth' \in 0 .. Ring - 1
         /\ previous_IsInAlarmAzimuth' <=> azimuth' \in Alarm
<1>1. azimuth \in 0 .. Ring - 1
  BY DEF PassesApart
<1>2. /\ azimuth' \in 0 .. Ring - 1
      /\ previous_IsInAlarmAzimuth' = (azimuth' \in Alarm)
  BY <1>1, Turned
<1>3. previous_IsInAlarmAzimuth' <=> azimuth' \in Alarm
  BY <1>2, Zenon
<1> QED
  BY <1>2, <1>3

\* A spoke that is not ignored and goes from the zone ends near it.
LEMMA EvaluatedNearby ==
  ASSUME TrackingAssumption, PassesApart, previous_IsInAlarmAzimuth,
         NEW s \in 0 .. MaxStep, Turn(s), azimuth' \notin Alarm,
         NEW a \in 0 .. Ring - 1, NEW b \in 0 .. Ring - 1, Alarm = a .. b
  PROVE  Behind(azimuth', b) <= MaxStep
<1>1. azimuth \in 0 .. Ring - 1 /\ azimuth \in a .. b
  BY DEF PassesApart
<1>2. /\ azimuth' = IF azimuth + s < Ring THEN azimuth + s ELSE azimuth + s - Ring
      /\ azimuth' \in 0 .. Ring - 1 /\ azimuth' \notin a .. b
  BY <1>1, Turned
<1>3. /\ Ring \in Nat /\ MaxStep \in Nat /\ 2 * MaxStep <= Ring
      /\ Ring - (b - a + 1) >= 2 * MaxStep
  BY Geometry
<1> QED
  BY <1>1, <1>2, <1>3, LeavesNearby

\* With points left of a pass no spoke comes into the zone.
LEMMA StaysOut ==
  ASSUME TrackingAssumption, PassesApart, ~crept, ~previous_IsInAlarmAzimuth,
         surroundings # {}, NEW s \in 0 .. MaxStep, Turn(s)
  PROVE  azimuth' \notin Alarm
<1>1. PICK a, b \in 0 .. Ring - 1 : Alarm = a .. b
  BY DEF TrackingAssumption
<1>2. azimuth \in 0 .. Ring - 1 /\ azimuth \notin a .. b /\ Behind(azimuth, b) <= MaxStep
  BY <1>1 DEF PassesApart
<1>3. /\ azimuth' = IF azimuth + s < Ring THEN azimuth + s ELSE azimuth + s - Ring
      /\ azimuth' \in 0 .. Ring - 1
  BY <1>2, Turned
<1>4. /\ Ring \in Nat /\ MaxStep \in Nat /\ 2 * MaxStep <= Ring
      /\ Ring - (b - a + 1) >= 2 * MaxStep
  BY <1>1, Geometry
<1>5. azimuth' \notin a .. b
  BY <1>2, <1>3, <1>4, StaysOutside
<1> QED
  BY <1>1, <1>5

\* An ignored spoke may spoil the passes, and says so in crept.
LEMMA Ignored ==
  ASSUME TrackingAssumption, PassesApart, NEW s \in 0 .. MaxStep, Ignore(s)
  PROVE  PassesApart'
<1>1. Turn(s) /\ crept' = TRUE
  BY DEF Ignore
<1>2. /\ azimuth' \in 0 .. Ring - 1
      /\ previous_IsInAlarmAzimuth' <=> azimuth' \in Alarm
  BY <1>1, Placed
<1> QED
  BY <1>1, <1>2 DEF PassesApart

\* The spoke that enters the zone finds no points of the pass before.
LEMMA CollectedApart ==
  ASSUME TrackingAssumption, PassesApart, NEW s \in 0 .. MaxStep, Collect(s)
  PROVE  PassesApart'
<1>1. /\ Turn(s) /\ azimuth' \in Alarm /\ crept' = crept
      /\ surroundings' = Collected \cup {"now"}
      /\ spoke_state' # "LEAVE_ALARM_ZONE"
  BY DEF Collect, IsInAlarmAzimuth
<1>2. /\ azimuth' \in 0 .. Ring - 1
      /\ previous_IsInAlarmAzimuth'
  BY <1>1, Placed
<1>3. ASSUME ~crept
      PROVE  "before" \notin surroundings'
  <2>1. CASE previous_IsInAlarmAzimuth
    <3>1. azimuth \in Alarm /\ "before" \notin surroundings
      BY <1>3, <2>1 DEF PassesApart
    <3>2. Collected = surroundings
      BY <3>1 DEF Collected, IsInAlarmAzimuth
    <3> QED
      BY <1>1, <3>1, <3>2
  <2>2. CASE ~previous_IsInAlarmAzimuth
    <3>1. surroundings = {}
      BY <1>1, <1>3, <2>2, StaysOut
    <3>2. Collected = {}
      BY <3>1 DEF Collected
    <3> QED
      BY <1>1, <3>2
  <2> QED
    BY <2>1, <2>2
<1> QED
  BY <1>1, <1>2, <1>3 DEF PassesApart

\* The spoke that leaves the zone is just behind it.
LEMMA EvaluatedApart ==
  ASSUME TrackingAssumption, PassesApart, NEW s \in 0 .. MaxStep, Evaluate(s)
  PROVE  PassesApart'
<1>1. /\ Turn(s) /\ azimuth' \notin Alarm /\ previous_IsInAlarmAzimuth
      /\ spoke_state' = "LEAVE_ALARM_ZONE"
  BY DEF Evaluate, IsInAlarmAzimuth
<1>2. /\ azimuth' \in 0 .. Ring - 1
      /\ ~previous_IsInAlarmAzimuth'
  BY <1>1, Placed
<1>3. \A a, b \in 0 .. Ring - 1 : Alarm = a .. b => Behind(azimuth', b) <= MaxStep
  BY <1>1, EvaluatedNearby
<1> QED
  BY <1>1, <1>2, <1>3 DEF PassesApart, Behind

\* A spoke outside the zone leaves no points.
LEMMA DiscardedApart ==
  ASSUME TrackingAssumption, PassesApart, NEW s \in 0 .. MaxStep, Discard(s)
  PROVE  PassesApart'
<1>1. Turn(s) /\ azimuth' \notin Alarm /\ surroundings' = {}
  BY DEF Discard, IsInAlarmAzimuth
<1>2. /\ azimuth' \in 0 .. Ring - 1
      /\ ~previous_IsInAlarmAzimuth'
  BY <1>1, Placed
<1> QED
  BY <1>1, <1>2 DEF PassesApart

\* PassesApart is an invariant: wherever the spokes of a pass fall, its points are
\* gone before the zone is entered again, unless a spoke was ignored.
THEOREM Inductive == Spec => []PassesApart
<1> USE TrackingAssumption
<1>1. Init => PassesApart
  <2> SUFFICES ASSUME Init
               PROVE  PassesApart
    OBVIOUS
  <2>1. 0 \in 0 .. Ring - 1
    BY DEF TrackingAssumption
  <2>2. azimuth = 0 /\ surroundings = {} /\ ~previous_IsInAlarmAzimuth
    BY Zenon DEF Init
  <2> QED
    BY <2>1, <2>2 DEF PassesApart
<1>2. PassesApart /\ [Next]_vars => PassesApart'
  <2> SUFFICES ASSUME PassesApart, [Next]_vars
               PROVE  PassesApart'
    OBVIOUS
  <2>1. ASSUME NEW s \in 0 .. MaxStep, AutoTracking(s)
        PROVE  PassesApart'
    BY <2>1, Ignored, CollectedApart, EvaluatedApart, DiscardedApart DEF AutoTracking
  <2>2. CASE UNCHANGED vars
    BY <2>2 DEF vars, PassesApart
  <2> QED
    BY <2>1, <2>2 DEF Next
<1> QED
  BY <1>1, <1>2, PTL DEF Spec

\* Unless a spoke was ignored, no evaluation clusters points of two revolutions or
\* clusters a pass twice, and no points are discarded that were not evaluated.
THEOREM PassCorrect == Spec => PassEvaluatedOnce
<1> USE TrackingAssumption
<1> DEFINE Apart ==
      ~crept =>
        /\ Evaluates => "before" \notin surroundings /\ spoke_state # "LEAVE_ALARM_ZONE"
        /\ surroundings # {} /\ surroundings' = {} => spoke_state = "LEAVE_ALARM_ZONE"
<1>1. PassesApart /\ [Next]_vars => [Apart]_vars
  <2> SUFFICES ASSUME PassesApart, Next, ~crept
               PROVE  Apart
    OBVIOUS
  <2>1. PICK s \in 0 .. MaxStep : AutoTracking(s)
    BY DEF Next
  <2>2. Evaluates => "before" \notin surroundings /\ spoke_state # "LEAVE_ALARM_ZONE"
    BY DEF Evaluates, PassesApart
  <2>3. ASSUME surroundings # {}, surroundings' = {}
        PROVE  spoke_state = "LEAVE_ALARM_ZONE"
    <3>1. ~Ignore(s) /\ ~Collect(s) /\ ~Evaluate(s)
      BY <2>3 DEF Ignore, Collect, Evaluate, Collected
    <3>2. ~previous_IsInAlarmAzimuth
      BY <2>1, <3>1 DEF AutoTracking, Discard
    <3> QED
      BY <2>3, <3>2 DEF PassesApart
  <2> QED
    BY <2>2, <2>3
<1>2. Spec => []PassesApart
  BY Inductive
<1> QED
  BY <1>1, <1>2, PTL DEF Spec, PassEvaluatedOnce

-----------------------------------------------------------------------------
(* Induction, and what a loop that goes through all targets makes of them.  *)

\* A set of numbers has a least one.
LEMMA Least ==
  ASSUME NEW S \in SUBSET Nat, S # {}
  PROVE  \E m \in S : \A k \in S : m <= k
<1> DEFINE R == {ss \in Nat \X Nat : ss[1] < ss[2]}
<1>1. IsWellFoundedOn(R, Nat)
  BY NatLessThanWellFounded DEF OpToRel
<1>2. \E x \in S : \A y \in S : ~ (<<y, x>> \in R)
  BY <1>1, WFMin
<1>3. PICK x \in S : \A y \in S : ~ (<<y, x>> \in R)
  BY <1>2
<1>4. \A y \in S : x <= y
  <2> TAKE y \in S
  <2>1. x \in Nat /\ y \in Nat
    OBVIOUS
  <2>2. ~ (<<y, x>> \in R)
    BY <1>3
  <2>3. ~ (y < x)
    BY <2>1, <2>2
  <2> QED
    BY <2>1, <2>3
<1> QED
  BY <1>4

\* Induction over the natural numbers, for a set.
LEMMA Induction ==
  ASSUME NEW S, 0 \in S, \A k \in Nat : k \in S => k + 1 \in S
  PROVE  \A k \in Nat : k \in S
<1> DEFINE T == {k \in Nat : k \notin S}
<1>1. CASE T = {}
  BY <1>1
<1>2. CASE T # {}
  <2>1. PICK m \in T : \A k \in T : m <= k
    BY <1>2, Least
  <2>2. m \in Nat /\ m # 0
    BY <2>1
  <2>3. m - 1 \in Nat /\ m - 1 \notin T
     BY <2>1, <2>2
  <2> QED
    BY <2>1, <2>2, <2>3
<1> QED
  BY <1>1, <1>2

\* What the steps 1 to N make of a, one after another.
Repeats(N, V, a, step) ==
  {h \in [0 .. N -> V] : h[0] = a /\ \A k \in 1 .. N : h[k] = step[<<k, h[k - 1]>>]}

\* Any number of steps can be made.
LEMMA Repeated ==
  ASSUME NEW N \in Nat, NEW V, NEW a \in V, NEW step \in [Nat \X V -> V]
  PROVE  Repeats(N, V, a, step) # {}
<1> DEFINE Good(t, h) == h[0] = a /\ \A k \in 1 .. t : h[k] = step[<<k, h[k - 1]>>]
           S == {t \in Nat : \E h \in [0 .. t -> V] : Good(t, h)}
<1>1. 0 \in S
  <2>1. [k \in 0 .. 0 |-> a] \in [0 .. 0 -> V] /\ Good(0, [k \in 0 .. 0 |-> a])
    OBVIOUS
  <2> QED
    BY <2>1
<1>2. ASSUME NEW t \in Nat, t \in S
      PROVE  t + 1 \in S
  <2>1. PICK h \in [0 .. t -> V] : Good(t, h)
    BY <1>2
  <2> DEFINE e == [k \in 0 .. t + 1 |-> IF k = t + 1 THEN step[<<k, h[t]>>] ELSE h[k]]
  <2>2. e \in [0 .. t + 1 -> V]
    <3>1. ASSUME NEW k \in 0 .. t + 1
          PROVE  e[k] \in V
      <4>1. CASE k = t + 1
        <5>1. <<k, h[t]>> \in Nat \X V
          BY <4>1
        <5>2. step[<<k, h[t]>>] \in V
          BY <5>1
        <5> QED
          BY <4>1, <5>2
      <4>2. CASE k # t + 1
        BY <4>2
      <4> QED
        BY <4>1, <4>2
    <3> QED
      BY <3>1
  <2>3. e[0] = a
    BY <2>1
  <2>4. ASSUME NEW k \in 1 .. t + 1
        PROVE  e[k] = step[<<k, e[k - 1]>>]
    <3>1. CASE k = t + 1
      BY <3>1
    <3>2. CASE k \in 1 .. t
      <4>1. h[k] = step[<<k, h[k - 1]>>]
        BY <2>1, <3>2
      <4>2. e[k] = h[k] /\ e[k - 1] = h[k - 1]
        BY <3>2
      <4> HIDE DEF e
      <4> QED
        BY <4>1, <4>2
    <3> QED
      BY <3>1, <3>2
  <2>5. Good(t + 1, e)
    <3> HIDE DEF e
    <3> QED
      BY <2>3, <2>4
  <2> HIDE DEF e, Good
  <2>6. \E g \in [0 .. t + 1 -> V] : Good(t + 1, g)
    BY <2>2, <2>5
  <2> QED
    BY <2>6
<1>3. N \in S
  <2> HIDE DEF S
  <2> QED
    BY <1>1, <1>2, Induction
<1> QED
  BY <1>3 DEF Repeats

-----------------------------------------------------------------------------
(* RemoveDuplicateTargets: what one turn of its outer loop leaves, and what  *)
(* all of them do.                                                           *)

Tracks == [Slots -> [state : {"IDLE", "ACQUIRING", "ACQUIRED"}, x : Int, v : Int,
                     intention : {"SAFE", "DANGEROUS"}]]

\* The targets without those of S.
Without(ts, S) ==
  [j \in Slots |-> IF j \in S THEN [ts[j] EXCEPT !.state = "IDLE"] ELSE ts[j]]

\* The turns of the outer loop.
Turns(ts) ==
  {turn \in [0 .. max_num_target -> Tracks] :
     /\ turn[0] = ts
     /\ \A i \in 1 .. max_num_target :
          turn[i] = Without(turn[i - 1], DuplicatesOf(turn[i - 1], i))
     /\ RemoveDuplicateTargets(ts) = turn[max_num_target]}

\* The constants of the tracking.
LEMMA Numbers ==
  /\ max_num_target \in Nat /\ p_radius \in Nat /\ safe_distance \in Nat
  /\ speed_threhold \in Nat /\ MaxDetections \in Nat
  /\ max_acceleration \in Nat /\ max_speed \in Nat
  /\ Positions \subseteq Nat
  /\ Vessels \subseteq [x : Int, v : Nat]
BY TrackingAssumption DEF TrackingAssumption

\* Dropping targets takes nothing but their state.
LEMMA WithoutType ==
  ASSUME NEW ts \in Tracks, NEW S
  PROVE  /\ Without(ts, S) \in Tracks
         /\ \A j \in Slots : /\ Without(ts, S)[j].x = ts[j].x
                             /\ Without(ts, S)[j].v = ts[j].v
                             /\ Without(ts, S)[j].intention = ts[j].intention
                             /\ j \notin S => Without(ts, S)[j] = ts[j]
         /\ Live(Without(ts, S)) = Live(ts) \ S
<1> DEFINE R == [state : {"IDLE", "ACQUIRING", "ACQUIRED"}, x : Int, v : Int,
                 intention : {"SAFE", "DANGEROUS"}]
<1>1. \A r \in R : LET d == [r EXCEPT !.state = "IDLE"]
                   IN  /\ d \in R /\ d.state = "IDLE" /\ d.x = r.x /\ d.v = r.v
                       /\ d.intention = r.intention
  OBVIOUS
<1>2. \A j \in Slots : ts[j] \in R
  BY DEF Tracks
<1>3. \A j \in Slots : Without(ts, S)[j]
                         = IF j \in S THEN [ts[j] EXCEPT !.state = "IDLE"] ELSE ts[j]
  BY DEF Without
<1> HIDE DEF R
<1>4. \A j \in Slots : /\ Without(ts, S)[j] \in R
                       /\ Without(ts, S)[j].x = ts[j].x
                       /\ Without(ts, S)[j].v = ts[j].v
                       /\ Without(ts, S)[j].intention = ts[j].intention
                       /\ j \notin S => Without(ts, S)[j] = ts[j]
                       /\ j \in S => Without(ts, S)[j].state = "IDLE"
  BY <1>1, <1>2, <1>3
<1>5. Without(ts, S) \in [Slots -> R]
  BY <1>4 DEF Without
<1>6. Live(Without(ts, S)) = Live(ts) \ S
  BY <1>4 DEF Live
<1> QED
  BY <1>4, <1>5, <1>6 DEF R, Tracks

\* RemoveDuplicateTargets is what its recursive definition says.
LEMMA TurnsExist ==
  ASSUME NEW ts \in Tracks
  PROVE  Turns(ts) # {}
<1> DEFINE N == max_num_target
           step == [p \in Nat \X Tracks |-> Without(p[2], DuplicatesOf(p[2], p[1]))]
           drop(b, i) == [j \in Slots |-> IF j \in DuplicatesOf(b, i)
                                          THEN [b[j] EXCEPT !.state = "IDLE"] ELSE b[j]]
           Reads(g) == g = [i \in 0 .. N |-> IF i = 0 THEN ts ELSE drop(g[i - 1], i)]
           turn == CHOOSE g : Reads(g)
<1>1. step \in [Nat \X Tracks -> Tracks]
  <2>1. \A p \in Nat \X Tracks : Without(p[2], DuplicatesOf(p[2], p[1])) \in Tracks
    BY WithoutType
  <2> QED
    BY <2>1
<1>2. \A b, i : drop(b, i) = Without(b, DuplicatesOf(b, i))
  BY DEF Without
<1>3. N \in Nat
  BY Numbers
<1>4. PICK h \in Repeats(N, Tracks, ts, step) : TRUE
  <2> HIDE DEF step, N
  <2> QED
    BY <1>1, <1>3, Repeated
<1> HIDE DEF N
<1>5. Reads(h)
  <2>1. ASSUME NEW i \in 0 .. N
        PROVE  h[i] = IF i = 0 THEN ts ELSE drop(h[i - 1], i)
    <3>1. CASE i = 0
      BY <3>1 DEF Repeats
    <3>2. CASE i # 0
      <4>1. i \in 1 .. N /\ i - 1 \in 0 .. N /\ i \in Nat
        BY <1>3, <3>2
      <4>2. h[i - 1] \in Tracks /\ h[i] = step[<<i, h[i - 1]>>]
        <5> HIDE DEF step
        <5> QED
          BY <4>1 DEF Repeats
      <4>3. <<i, h[i - 1]>> \in Nat \X Tracks
        BY <4>1, <4>2
      <4>4. step[<<i, h[i - 1]>>] = Without(h[i - 1], DuplicatesOf(h[i - 1], i))
        BY <4>3
      <4> HIDE DEF step, drop
      <4> QED
        BY <1>2, <3>2, <4>2, <4>4
    <3> QED
      BY <3>1, <3>2
  <2>2. h = [i \in 0 .. N |-> h[i]]
    BY DEF Repeats
  <2> HIDE DEF drop
  <2> QED
    BY <2>1, <2>2
<1>6. Reads(turn)
  <2> HIDE DEF Reads
  <2> QED
    BY <1>5
<1>7. RemoveDuplicateTargets(ts) = turn[N]
  BY DEF RemoveDuplicateTargets, N
<1> HIDE DEF turn
<1>8. turn = [i \in 0 .. N |-> IF i = 0 THEN ts ELSE drop(turn[i - 1], i)]
  BY <1>6
<1> HIDE DEF drop
<1>9. turn[0] = ts
  BY <1>3, <1>8
<1>10. \A i \in 1 .. N : turn[i] = Without(turn[i - 1], DuplicatesOf(turn[i - 1], i))
  <2> TAKE i \in 1 .. N
  <2>1. i \in 0 .. N /\ i # 0
    BY <1>3
  <2>2. turn[i] = drop(turn[i - 1], i)
    BY <1>8, <2>1
  <2> QED
    BY <1>2, <2>2
<1>11. turn \in [0 .. N -> Tracks]
  <2> DEFINE T == {k \in Nat : k <= N => turn[k] \in Tracks}
  <2>1. 0 \in T
    BY <1>9
  <2>2. ASSUME NEW k \in Nat, k \in T
        PROVE  k + 1 \in T
    <3> SUFFICES ASSUME k + 1 <= N
                 PROVE  turn[k + 1] \in Tracks
      OBVIOUS
    <3>1. k + 1 \in 1 .. N /\ turn[k] \in Tracks /\ k + 1 - 1 = k
      BY <1>3, <2>2
    <3>2. turn[k + 1] = Without(turn[k], DuplicatesOf(turn[k], k + 1))
      BY <1>10, <3>1
    <3> QED
      BY <3>1, <3>2, WithoutType
  <2>3. \A k \in Nat : k \in T
    <3> HIDE DEF T
    <3> QED
      BY <2>1, <2>2, Induction
  <2>4. \A k \in 0 .. N : turn[k] \in Tracks
    BY <1>3, <2>3
  <2> QED
    BY <1>8, <2>4
<1> QED
  BY <1>7, <1>9, <1>10, <1>11 DEF Turns, N

\* Removing duplicates takes nothing but the state of targets.
LEMMA TurnKeeps ==
  ASSUME NEW ts \in Tracks, NEW turn \in Turns(ts), NEW i \in 0 .. max_num_target
  PROVE  /\ turn[i] \in Tracks
         /\ Live(turn[i]) \subseteq Live(ts)
         /\ \A j \in Slots : /\ turn[i][j].x = ts[j].x
                             /\ turn[i][j].v = ts[j].v
                             /\ turn[i][j].intention = ts[j].intention
                             /\ j \in Live(turn[i]) => turn[i][j] = ts[j]
<1> DEFINE Kept(t) == /\ t \in Tracks
                      /\ Live(t) \subseteq Live(ts)
                      /\ \A j \in Slots : /\ t[j].x = ts[j].x
                                          /\ t[j].v = ts[j].v
                                          /\ t[j].intention = ts[j].intention
                                          /\ j \in Live(t) => t[j] = ts[j]
           T == {k \in Nat : k <= max_num_target => Kept(turn[k])}
<1>1. Kept(ts)
  OBVIOUS
<1>2. ASSUME NEW t, NEW S, Kept(t)
      PROVE  Kept(Without(t, S))
  <2>1. /\ Without(t, S) \in Tracks
        /\ \A j \in Slots : /\ Without(t, S)[j].x = t[j].x
                            /\ Without(t, S)[j].v = t[j].v
                            /\ Without(t, S)[j].intention = t[j].intention
                            /\ j \notin S => Without(t, S)[j] = t[j]
        /\ Live(Without(t, S)) = Live(t) \ S
    BY <1>2, WithoutType
  <2> QED
    BY <1>2, <2>1
<1> HIDE DEF Kept
<1>3. 0 \in T
  BY <1>1 DEF Turns
<1>4. ASSUME NEW k \in Nat, k \in T
      PROVE  k + 1 \in T
  <2> SUFFICES ASSUME k + 1 <= max_num_target
               PROVE  Kept(turn[k + 1])
    OBVIOUS
  <2>1. k + 1 \in 1 .. max_num_target /\ Kept(turn[k]) /\ k + 1 - 1 = k
    BY <1>4, Numbers
  <2>2. turn[k + 1] = Without(turn[k], DuplicatesOf(turn[k], k + 1))
    BY <2>1 DEF Turns
  <2> QED
    BY <1>2, <2>1, <2>2
<1>5. i \in T
  <2> HIDE DEF T
  <2> QED
    BY <1>3, <1>4, Induction
<1>6. Kept(turn[i])
  BY <1>5, Numbers
<1> QED
  BY <1>6 DEF Kept

\* No target that is left after the turn i is close to one up to i.
LEMMA TurnsApart ==
  ASSUME NEW ts \in Tracks, NEW turn \in Turns(ts), NEW i \in 0 .. max_num_target
  PROVE  \A k \in 1 .. i : \A j \in k + 1 .. max_num_target :
           k \in Live(turn[i]) /\ j \in Live(turn[i])
             => ~(Abs(ts[k].x - ts[j].x) <= p_radius)
<1> DEFINE N == max_num_target
           Close(k, j) == Abs(ts[k].x - ts[j].x) <= p_radius
           Apart(m) == \A k \in 1 .. m : \A j \in k + 1 .. N :
                         k \in Live(turn[m]) /\ j \in Live(turn[m]) => ~Close(k, j)
           T == {m \in Nat : m <= N => Apart(m)}
<1>1. 0 \in T
  OBVIOUS
<1>2. ASSUME NEW m \in Nat, m \in T
      PROVE  m + 1 \in T
  <2> SUFFICES ASSUME m + 1 <= N
               PROVE  Apart(m + 1)
    OBVIOUS
  <2> DEFINE t == turn[m]
             D == DuplicatesOf(t, m + 1)
  <2>1. m + 1 \in 1 .. N /\ m \in 0 .. N /\ Apart(m) /\ m + 1 - 1 = m /\ N \in Nat
    BY <1>2, Numbers
  <2>2. turn[m + 1] = Without(t, D)
    <3> HIDE DEF Close
    <3> QED
      BY <2>1 DEF Turns
  <2>3. t \in Tracks /\ Live(t) \subseteq Slots /\ \A j \in Slots : t[j].x = ts[j].x
    BY <2>1, TurnKeeps DEF Live
  <2>4. Live(turn[m + 1]) = Live(t) \ D
    <3> HIDE DEF D
    <3> QED
      BY <2>2, <2>3, WithoutType
  <2>5. ASSUME NEW j \in m + 2 .. N, m + 1 \in Live(t) \ D, j \in Live(t) \ D
        PROVE  ~Close(m + 1, j)
    <3> SUFFICES ASSUME Close(m + 1, j)
                 PROVE  FALSE
      OBVIOUS
    <3> DEFINE faster == {l \in CloseTo(t, m + 1) : Abs(t[m + 1].v) <= Abs(t[l].v)}
    <3>1. j \in CloseTo(t, m + 1)
      <4>1. t[m + 1].x = ts[m + 1].x /\ t[j].x = ts[j].x
        BY <2>1, <2>3, <2>5
      <4>2. Abs(t[m + 1].x - t[j].x) <= p_radius
        BY <4>1
      <4>3. j \in m + 1 + 1 .. N
        BY <2>1
      <4> QED
        BY <2>5, <4>2, <4>3 DEF CloseTo
    <3>2. D = {l \in CloseTo(t, m + 1) \ faster : \A k \in faster : l < k}
                \cup (IF faster = {} THEN {} ELSE {m + 1})
      BY DEF DuplicatesOf
    <3> HIDE DEF D, faster
    <3>3. faster = {}
      BY <2>5, <3>2
    <3> QED
      BY <2>5, <3>1, <3>2, <3>3
  <2>6. ASSUME NEW k \in 1 .. m, NEW j \in k + 1 .. N,
               k \in Live(t) \ D, j \in Live(t) \ D
        PROVE  ~Close(k, j)
    BY <2>1, <2>6
  <2>7. \A k \in 1 .. m + 1 : k = m + 1 \/ k \in 1 .. m
    BY <2>1
  <2> HIDE DEF Close, t, D
  <2>8. ASSUME NEW k \in 1 .. m + 1, NEW j \in k + 1 .. N,
               k \in Live(turn[m + 1]), j \in Live(turn[m + 1])
        PROVE  ~Close(k, j)
    <3>1. CASE k = m + 1
      <4>1. j \in m + 2 .. N
        BY <2>1, <3>1
      <4> QED
        BY <2>4, <2>5, <2>8, <3>1, <4>1
    <3>2. CASE k \in 1 .. m
      BY <2>4, <2>6, <2>8, <3>2
    <3> QED
      BY <2>7, <3>1, <3>2
  <2> QED
    BY <2>8
<1>3. i \in T
  <2> HIDE DEF T
  <2> QED
    BY <1>1, <1>2, Induction
<1>4. Apart(i)
  BY <1>3, Numbers
<1> QED
  BY <1>4

\* What is left are targets as they were, none close to another.
LEMMA DuplicatesRemoved ==
  ASSUME NEW ts \in Tracks
  PROVE  LET left == RemoveDuplicateTargets(ts)
         IN  /\ left \in Tracks
             /\ Live(left) \subseteq Live(ts)
             /\ \A j \in Live(left) : left[j] = ts[j]
             /\ \A k, j \in Live(left) :
                  k # j => Abs(left[k].x - left[j].x) > p_radius
<1>1. PICK turn \in Turns(ts) : TRUE
  BY TurnsExist
<1> DEFINE N == max_num_target
           left == RemoveDuplicateTargets(ts)
<1>2. left = turn[N] /\ N \in 0 .. N /\ N \in Nat
  BY Numbers DEF Turns
<1>3. /\ left \in Tracks /\ Live(left) \subseteq Live(ts)
      /\ \A j \in Live(left) : left[j] = ts[j]
  <2>1. Live(left) \subseteq Slots
    BY DEF Live
  <2> HIDE DEF left
  <2> QED
    BY <1>2, <2>1, TurnKeeps
<1>4. ASSUME NEW k \in Live(left), NEW j \in Live(left), k < j
      PROVE  ~(Abs(ts[k].x - ts[j].x) <= p_radius)
  <2>1. k \in 1 .. N /\ j \in 1 .. N /\ j \in k + 1 .. N
    BY <1>2, <1>4 DEF Live, Slots
  <2> HIDE DEF left
  <2> QED
    BY <1>2, <1>4, <2>1, TurnsApart
<1>5. ASSUME NEW k \in Live(left), NEW j \in Live(left), k # j
      PROVE  Abs(left[k].x - left[j].x) > p_radius
  <2>1. k \in Int /\ j \in Int /\ ts[k].x \in Int /\ ts[j].x \in Int /\ p_radius \in Int
    BY Numbers DEF Live, Slots, Tracks
  <2>2. left[k].x = ts[k].x /\ left[j].x = ts[j].x
    BY <1>3
  <2> HIDE DEF left
  <2>3. ~(Abs(ts[k].x - ts[j].x) <= p_radius) \/ ~(Abs(ts[j].x - ts[k].x) <= p_radius)
    BY <1>4, <1>5, <2>1
  <2> QED
    BY <2>1, <2>2, <2>3 DEF Abs
<1> QED
  BY <1>3, <1>5

-----------------------------------------------------------------------------
(* Counting: which detection is left for which idle slot.                  *)

\* The first n numbers.
LEMMA FirstNumbers ==
  ASSUME NEW n \in Nat
  PROVE  IsFiniteSet(1 .. n) /\ Cardinality(1 .. n) = n
<1>1. IsFiniteSet(1 .. n) /\ Cardinality(1 .. n) = IF 1 > n THEN 0 ELSE n - 1 + 1
  BY FS_Interval
<1> QED
  BY <1>1

\* The members of a set of numbers are counted from one to how many they are.
LEMMA CountOnce ==
  ASSUME NEW S \in SUBSET Nat, IsFiniteSet(S)
  PROVE  /\ Cardinality(S) \in Nat
         /\ \A k \in S : CountTo(S, k) \in 1 .. Cardinality(S)
         /\ \A k, l \in S : CountTo(S, k) = CountTo(S, l) => k = l
         /\ \A r \in 1 .. Cardinality(S) : \E k \in S : CountTo(S, k) = r
<1> DEFINE upto(k) == {l \in S : l <= k}
           C == Cardinality(S)
           count == [k \in S |-> CountTo(S, k)]
<1>1. C \in Nat /\ \A k : IsFiniteSet(upto(k)) /\ Cardinality(upto(k)) \in Nat
                          /\ Cardinality(upto(k)) <= C
  <2>1. \A k : upto(k) \in SUBSET S
    OBVIOUS
  <2> HIDE DEF upto
  <2> QED
    BY <2>1, FS_Subset, FS_CardinalityType
<1>2. ASSUME NEW k \in S
      PROVE  Cardinality(upto(k)) >= 1
  <2>1. upto(k) # {}
    BY DEF upto
  <2> HIDE DEF upto
  <2>2. Cardinality(upto(k)) # 0
    BY <1>1, <2>1, FS_EmptySet
  <2> QED
    BY <1>1, <2>2
<1>3. ASSUME NEW k \in S, NEW l \in S, k < l
      PROVE  Cardinality(upto(k)) < Cardinality(upto(l))
  <2>1. upto(k) \in SUBSET upto(l) /\ l \in upto(l) /\ l \notin upto(k)
    <3>1. k \in Nat /\ l \in Nat /\ \A j \in S : j \in Nat
      OBVIOUS
    <3>2. ASSUME NEW j \in S, j <= k
          PROVE  j <= l
      BY <1>3, <3>1, <3>2
    <3>3. ~(l <= k) /\ l <= l
      BY <1>3, <3>1
    <3> QED
      BY <3>2, <3>3 DEF upto
  <2> HIDE DEF upto
  <2>2. /\ Cardinality(upto(k)) <= Cardinality(upto(l))
        /\ Cardinality(upto(l)) = Cardinality(upto(k)) => upto(l) = upto(k)
    BY <1>1, <2>1, FS_Subset
  <2> QED
    BY <1>1, <2>1, <2>2
<1>4. \A k \in S : CountTo(S, k) = Cardinality(upto(k))
  BY DEF CountTo
<1> HIDE DEF upto, C
<1>5. \A k \in S : CountTo(S, k) \in 1 .. C
  BY <1>1, <1>2, <1>4
<1>6. \A k, l \in S : CountTo(S, k) = CountTo(S, l) => k = l
  <2> SUFFICES ASSUME NEW k \in S, NEW l \in S, CountTo(S, k) = CountTo(S, l), k # l
               PROVE  FALSE
    OBVIOUS
  <2>1. k < l \/ l < k
    OBVIOUS
  <2> QED
    BY <1>1, <1>3, <1>4, <2>1
<1>7. \A r \in 1 .. C : \E k \in S : CountTo(S, k) = r
  <2>1. count \in [S -> 1 .. C] /\ \A k \in S : count[k] = CountTo(S, k)
    BY <1>5
  <2> HIDE DEF count
  <2>2. count \in Injection(S, 1 .. C)
    BY <1>6, <2>1, Fun_IsInj
  <2>3. IsFiniteSet(1 .. C) /\ Cardinality(1 .. C) = C /\ Cardinality(S) = C
    BY <1>1, FirstNumbers DEF C
  <2>4. Cardinality(S) = Cardinality(1 .. C) <=> count \in Surjection(S, 1 .. C)
    BY <2>2, <2>3, FS_Injection
  <2>5. count \in Surjection(S, 1 .. C)
    BY <2>3, <2>4
  <2>6. \A r \in 1 .. C : \E k \in S : count[k] = r
    BY <2>5, Fun_SurjectionProperties
  <2> QED
    BY <2>1, <2>6
<1> QED
  BY <1>1, <1>5, <1>6, <1>7 DEF C

\* There are as many slots as targets may be tracked.
LEMMA SlotsFinite ==
  /\ IsFiniteSet(Slots) /\ Cardinality(Slots) = max_num_target
  /\ \A ts : /\ Live(ts) \subseteq Slots /\ IsFiniteSet(Live(ts))
             /\ Cardinality(Live(ts)) \in Nat
             /\ Cardinality(Live(ts)) <= max_num_target
<1>1. IsFiniteSet(Slots) /\ Cardinality(Slots) = max_num_target
  BY Numbers, FirstNumbers DEF Slots
<1>2. \A ts : Live(ts) \in SUBSET Slots
  BY DEF Live
<1> QED
  BY <1>1, <1>2, FS_Subset, FS_CardinalityType

\* Every slot gets a detection or none, a target one that it may have moved to; while
\* there are idle slots enough, every detection is some slot's.
LEMMA Identified ==
  ASSUME NEW seen \in Seq(Positions), NEW c \in LiveMatches(seen)
  PROVE  LET match == TargetIdentification(seen, c)
         IN  /\ match \in [Slots -> 0 .. Len(seen)]
             /\ \A i \in Live(targets) :
                  match[i] # 0 => match[i] \in Candidates(targets[i], seen)
             /\ Cardinality(Idle) >= Len(seen) =>
                  \A k \in 1 .. Len(seen) : \E i \in Slots : match[i] = k
<1> DEFINE match == TargetIdentification(seen, c)
           rest == Unmatched(seen, c)
           of(i) == CHOOSE k \in rest : CountTo(rest, k) = Rank(i)
<1>1. c \in [Live(targets) -> 0 .. Len(seen)] /\ Len(seen) \in Nat
  BY DEF LiveMatches
<1>2. /\ rest \in SUBSET Nat /\ rest \in SUBSET (1 .. Len(seen))
      /\ IsFiniteSet(rest) /\ Cardinality(rest) <= Len(seen)
  <2>1. rest \in SUBSET (1 .. Len(seen)) /\ rest \in SUBSET Nat
    BY <1>1 DEF Unmatched
  <2>2. IsFiniteSet(1 .. Len(seen)) /\ Cardinality(1 .. Len(seen)) = Len(seen)
    BY <1>1, FirstNumbers
  <2> HIDE DEF rest
  <2> QED
    BY <2>1, <2>2, FS_Subset
<1>3. /\ Idle = Slots \ Live(targets) /\ Idle \in SUBSET Nat /\ IsFiniteSet(Idle)
      /\ \A i \in Slots : Rank(i) = CountTo(Idle, i)
  <2>1. Idle = Slots \ Live(targets) /\ Idle \in SUBSET Slots /\ Slots \subseteq Nat
    BY DEF Idle, Live, Slots
  <2> QED
    BY <2>1, SlotsFinite, FS_Subset DEF Rank
<1>4. \A i \in Slots : match[i] = IF i \in Live(targets) THEN c[i]
                                  ELSE IF Rank(i) <= Cardinality(rest) THEN of(i) ELSE 0
  BY DEF TargetIdentification
<1>5. match = [i \in Slots |-> match[i]]
  BY DEF TargetIdentification
<1> HIDE DEF match, rest
<1>6. ASSUME NEW i \in Idle, Rank(i) <= Cardinality(rest)
      PROVE  of(i) \in rest /\ CountTo(rest, of(i)) = Rank(i)
  <2>1. Rank(i) \in 1 .. Cardinality(Idle) /\ Cardinality(Idle) \in Nat
    <3>1. Rank(i) = CountTo(Idle, i)
      BY <1>3
    <3> QED
      BY <1>3, <3>1, CountOnce
  <2>2. Rank(i) \in 1 .. Cardinality(rest)
    BY <1>2, <1>6, <2>1, CountOnce
  <2>3. \E k \in rest : CountTo(rest, k) = Rank(i)
    BY <1>2, <2>2, CountOnce
  <2> QED
    BY <2>3
<1>7. ASSUME NEW i \in Slots
      PROVE  match[i] \in 0 .. Len(seen)
  <2>1. CASE i \in Live(targets)
    BY <1>1, <1>4, <2>1
  <2>2. CASE i \notin Live(targets) /\ Rank(i) <= Cardinality(rest)
    <3>1. of(i) \in rest
      BY <1>3, <1>6, <2>2
    <3>2. match[i] = of(i)
      BY <1>4, <2>2
    <3> HIDE DEF of
    <3>3. match[i] \in 1 .. Len(seen)
      BY <1>2, <3>1, <3>2
    <3> QED
      BY <1>1, <3>3
  <2>3. CASE i \notin Live(targets) /\ ~(Rank(i) <= Cardinality(rest))
    BY <1>1, <1>4, <2>3
  <2> QED
    BY <2>1, <2>2, <2>3
<1>8. match \in [Slots -> 0 .. Len(seen)]
  BY <1>5, <1>7
<1>9. ASSUME Cardinality(Idle) >= Len(seen), NEW k \in 1 .. Len(seen)
      PROVE  \E i \in Slots : match[i] = k
  <2>1. CASE \E i \in Live(targets) : c[i] = k
    BY <1>4, <2>1, SlotsFinite
  <2>2. CASE \A i \in Live(targets) : c[i] # k
    <3>1. k \in rest
      BY <1>1, <2>2 DEF rest, Unmatched
    <3>2. /\ CountTo(rest, k) \in 1 .. Cardinality(rest) /\ Cardinality(rest) \in Nat
          /\ Cardinality(Idle) \in Nat
      BY <1>2, <1>3, <3>1, CountOnce
    <3>3. CountTo(rest, k) \in 1 .. Cardinality(Idle)
      BY <1>1, <1>2, <1>9, <3>2
    <3>4. PICK i \in Idle : CountTo(Idle, i) = CountTo(rest, k)
      BY <1>3, <3>3, CountOnce
    <3>5. /\ i \in Slots /\ i \notin Live(targets)
          /\ Rank(i) = CountTo(rest, k) /\ Rank(i) <= Cardinality(rest)
      <4>1. i \in Slots /\ i \notin Live(targets)
        BY <1>3
      <4>2. Rank(i) = CountTo(rest, k)
        BY <1>3, <3>4, <4>1
      <4> QED
        BY <3>2, <4>1, <4>2
    <3>6. of(i) = k
      <4>1. of(i) \in rest /\ CountTo(rest, of(i)) = CountTo(rest, k)
        BY <1>6, <3>4, <3>5
      <4> HIDE DEF of
      <4>2. \A l \in rest : CountTo(rest, l) = CountTo(rest, k) => l = k
        BY <1>2, <3>1, CountOnce
      <4> QED
        BY <4>1, <4>2
    <3>7. match[i] = of(i)
      BY <1>4, <3>5
    <3> QED
      BY <3>5, <3>6, <3>7
  <2> QED
    BY <2>1, <2>2
<1>10. ASSUME NEW i \in Live(targets), match[i] # 0
       PROVE  match[i] \in Candidates(targets[i], seen)
  <2>1. match[i] = c[i]
    BY <1>4, <1>10, SlotsFinite
  <2>2. PICK may : may = Candidates(targets[i], seen)
    OBVIOUS
  <2>3. c[i] \in IF may = {} THEN {0} ELSE may
    BY <2>2 DEF LiveMatches
  <2> QED
    BY <1>10, <2>1, <2>2, <2>3
<1> QED
  BY <1>8, <1>9, <1>10 DEF match

-----------------------------------------------------------------------------
(* What one evaluation makes of a target.                                  *)

Track == [state : {"IDLE", "ACQUIRING", "ACQUIRED"}, x : Int, v : Int,
          intention : {"SAFE", "DANGEROUS"}]

\* A target without a detection.
LEMMA Lost ==
  ASSUME NEW t \in Track, NEW m, m = Predicted(t)
  PROVE  /\ m \in Track
         /\ m.state # "IDLE" => t.state = "ACQUIRED" /\ m.state = "ACQUIRING"
<1>1. t.x + t.v \in Int /\ SpeedFloor(t.v) \in Int
  BY DEF Track, SpeedFloor
<1>2. CASE t.state = "ACQUIRED"
  <2>1. m = [t EXCEPT !.state = "ACQUIRING", !.x = t.x + t.v, !.v = SpeedFloor(t.v)]
    BY <1>2 DEF Predicted
  <2> QED
    BY <1>1, <1>2, <2>1 DEF Track
<1>3. CASE t.state # "ACQUIRED"
  <2>1. PICK o \in Int : o = 0
    OBVIOUS
  <2>2. m = [t EXCEPT !.state = "IDLE", !.x = o, !.v = o]
    BY <1>3, <2>1 DEF Predicted
  <2> QED
    BY <2>2 DEF Track
<1> QED
  BY <1>2, <1>3

\* How far the filter leaves a target from what it has taken.
LEMMA Offset ==
  ASSUME NEW k \in Int, Abs(k) <= max_acceleration
  PROVE  Alpha(k) \in Int /\ Lag \in Nat /\ Abs(k - Alpha(k)) <= Lag
<1>1. max_acceleration \in Nat
  BY Numbers
<1>2. PICK a \in Int : a = Alpha(k)
  <2>1. (9587 * k + 5000) \div 10000 \in Int
    OBVIOUS
  <2> QED
    BY <2>1 DEF Alpha, Nearest
<1>3. PICK l \in Int : l = Lag
  <2>1. (413 * max_acceleration + 5000) \div 10000 \in Int
    BY <1>1
  <2> QED
    BY <2>1 DEF Lag, Nearest
<1>4. 10000 * a <= 9587 * k + 5000 /\ 9587 * k + 5000 < 10000 * a + 10000
  BY <1>2 DEF Alpha, Nearest
<1>5. 10000 * l <= 413 * max_acceleration + 5000
      /\ 413 * max_acceleration + 5000 < 10000 * l + 10000
  BY <1>1, <1>3 DEF Lag, Nearest
<1>6. k <= max_acceleration /\ -k <= max_acceleration
  BY <1>1 DEF Abs
<1>7. k - a <= l /\ a - k <= l /\ l >= 0
  BY <1>1, <1>4, <1>5, <1>6
<1> QED
  BY <1>2, <1>3, <1>7 DEF Abs

\* It is a distance.
LEMMA LagType == Lag \in Nat
<1>1. max_acceleration \in Nat
  BY Numbers
<1>2. PICK o \in Int : o = 0
  OBVIOUS
<1>3. Abs(o) <= max_acceleration
  BY <1>1, <1>2 DEF Abs
<1> QED
  BY <1>3, Offset

\* What t may take: an idle slot anything, a target what it may have moved to.
MayTake(t, x) == t.state = "IDLE" \/ Abs(x - (t.x + t.v)) <= max_acceleration

\* A target, or an idle slot, with one.
LEMMA Seen ==
  ASSUME NEW t \in Track, NEW x \in Int, MayTake(t, x), NEW m, m = Filtered(t, x)
  PROVE  /\ m \in Track
         /\ m.state # "IDLE" /\ Abs(m.x - x) <= Lag
         /\ t.state = "IDLE" => m.state = "ACQUIRING"
<1>1. \A k \in Int : SpeedFloor(k) \in Int /\ Beta(k) \in Int
  <2> TAKE k \in Int
  <2>1. (12698 * k + 5000) \div 10000 \in Int
    OBVIOUS
  <2> QED
    BY <2>1 DEF SpeedFloor, Beta, Nearest
<1>2. PICK e \in Int : e = t.x + t.v
  BY DEF Track
<1>3. t.v + Beta(x - e) \in Int
  BY <1>1 DEF Track
<1>4. PICK w \in Int : w = SpeedFloor(t.v + Beta(x - e))
  BY <1>1, <1>3
<1>5. CASE t.state = "IDLE"
  <2>1. PICK o \in Int : o = 0
    OBVIOUS
  <2>2. m = [t EXCEPT !.state = "ACQUIRING", !.x = x, !.v = o]
    BY <1>5, <2>1 DEF Filtered
  <2>3. PICK l \in Nat : l = Lag
    BY LagType
  <2>4. m \in Track /\ m.state = "ACQUIRING" /\ m.x = x
    BY <1>5, <2>2 DEF Track
  <2>5. Abs(m.x - x) <= l
    BY <2>3, <2>4 DEF Abs
  <2> QED
    BY <2>3, <2>4, <2>5
<1>6. CASE t.state # "IDLE"
  <2>1. Abs(x - e) <= max_acceleration
    BY <1>2, <1>6 DEF MayTake
  <2>2. /\ Alpha(x - e) \in Int /\ Lag \in Nat
        /\ Abs((x - e) - Alpha(x - e)) <= Lag
    BY <2>1, Offset
  <2>3. PICK y \in Int : y = e + Alpha(x - e)
    BY <2>2
  <2>4. Abs(y - x) <= Lag
    BY <2>2, <2>3 DEF Abs
  <2>5. m = [t EXCEPT !.state = "ACQUIRED", !.x = y, !.v = w]
    BY <1>2, <1>4, <1>6, <2>3 DEF Filtered
  <2> QED
    BY <1>6, <2>4, <2>5 DEF Track
<1> QED
  BY <1>5, <1>6

\* Targets that may come of t when it is seen at y.
FollowingOf(t, y) ==
  {m \in Track : /\ m.state # "IDLE" /\ Abs(m.x - y) <= Lag
                 /\ t.state = "IDLE" => m.state = "ACQUIRING"}

\* The same, of the filter itself.
LEMMA SeenThere ==
  ASSUME NEW t \in Track, NEW y \in Int, MayTake(t, y)
  PROVE  Filtered(t, y) \in FollowingOf(t, y)
<1>1. PICK m : m = Filtered(t, y)
  OBVIOUS
<1>2. /\ m \in Track
      /\ m.state # "IDLE" /\ Abs(m.x - y) <= Lag
      /\ t.state = "IDLE" => m.state = "ACQUIRING"
  BY <1>1, Seen
<1> QED
  BY <1>1, <1>2 DEF FollowingOf

\* Judging changes the intention alone, and it does judge every target at rest.
LEMMA Aware ==
  ASSUME NEW t \in Track, NEW a \in Int, NEW v \in Int
  PROVE  /\ AwareOf(t, a, v) \in Track
         /\ AwareOf(t, a, v).state = t.state
         /\ AwareOf(t, a, v).x = t.x /\ AwareOf(t, a, v).v = t.v
         /\ t.state # "IDLE" /\ Abs(t.v) <= speed_threhold =>
              (AwareOf(t, a, v).intention = "DANGEROUS" <=> Abs(a - t.x) <= safe_distance)
<1>1. \A d \in BOOLEAN :
        /\ Judged(t, d) \in Track
        /\ Judged(t, d).state = t.state /\ Judged(t, d).x = t.x /\ Judged(t, d).v = t.v
        /\ Judged(t, d).intention = "DANGEROUS" <=> d
  BY DEF Judged, Track
<1> DEFINE near == Abs(a - t.x) <= safe_distance
           ahead == v * Abs(a - t.x) <= safe_distance * Abs(v - t.v)
           rests == Abs(t.v) <= speed_threhold
           meets == Abs(t.v) > speed_threhold /\ (a - t.x) * (v - t.v) < 0
<1>2. AwareOf(t, a, v) =
        CASE t.state = "IDLE" -> t
          [] t.state # "IDLE" /\ rests -> Judged(t, near)
          [] t.state # "IDLE" /\ meets -> Judged(t, ahead)
          [] OTHER -> t
  BY DEF AwareOf
<1>3. rests => ~meets
  BY Numbers DEF Track, Abs
<1>4. near \in BOOLEAN /\ ahead \in BOOLEAN
  OBVIOUS
<1> HIDE DEF near, ahead, rests, meets
<1>5. CASE t.state = "IDLE"
  <2>1. AwareOf(t, a, v) = t
    BY <1>2, <1>5
  <2> QED
    BY <1>5, <2>1
<1>6. CASE t.state # "IDLE" /\ rests
  <2>1. AwareOf(t, a, v) = Judged(t, near)
    BY <1>2, <1>3, <1>6
  <2> QED
    BY <1>1, <1>4, <2>1 DEF near
<1>7. CASE t.state # "IDLE" /\ ~rests /\ meets
  <2>1. AwareOf(t, a, v) = Judged(t, ahead)
    BY <1>2, <1>7
  <2> QED
    BY <1>1, <1>4, <1>7, <2>1 DEF rests
<1>8. CASE t.state # "IDLE" /\ ~rests /\ ~meets
  <2>1. AwareOf(t, a, v) = t
    BY <1>2, <1>8
  <2> QED
    BY <1>8, <2>1 DEF rests
<1> QED
  BY <1>5, <1>6, <1>7, <1>8

\* The targets before duplicates are removed, when match says what each takes of
\* what was seen.
Judgement(seen, match, s) == SituationAwareness(PredictMotion(seen, match), s)

\* What becomes of each.
LEMMA JudgementIs ==
  ASSUME targets \in Tracks, NEW seen \in Seq(Positions),
         NEW match \in [Slots -> 0 .. Len(seen)], NEW s \in Vessels,
         \A i \in Live(targets) :
           match[i] # 0 => match[i] \in Candidates(targets[i], seen)
  PROVE  LET ts == Judgement(seen, match, s)
         IN  /\ ts \in Tracks
             /\ \A i \in Slots :
                  /\ match[i] # 0 =>
                       ts[i].state # "IDLE" /\ Abs(ts[i].x - seen[match[i]]) <= Lag
                  /\ match[i] = 0 /\ ts[i].state # "IDLE" =>
                       targets[i].state = "ACQUIRED" /\ ts[i].state = "ACQUIRING"
                  /\ targets[i].state = "IDLE" => ts[i].state # "ACQUIRED"
                  /\ ts[i].state # "IDLE" /\ Abs(ts[i].v) <= speed_threhold =>
                       (ts[i].intention = "DANGEROUS"
                          <=> Abs((2 * s.v) \div 5 - ts[i].x) <= safe_distance)
<1> DEFINE moved == PredictMotion(seen, match)
           a == (2 * s.v) \div 5
           ts == Judgement(seen, match, s)
<1>1. a \in Int /\ s.v \in Int
  <2>1. s.v \in Nat
    BY Numbers
  <2> QED
    BY <2>1
<1>2. \A i \in Slots : ts[i] = AwareOf(moved[i], a, s.v)
  BY DEF Judgement, SituationAwareness
<1>3. \A i \in Slots : moved[i] = IF match[i] = 0 THEN Predicted(targets[i])
                                  ELSE Filtered(targets[i], seen[match[i]])
  BY DEF PredictMotion
<1>4. DOMAIN ts = Slots /\ ts = [i \in Slots |-> ts[i]]
  BY DEF Judgement, SituationAwareness
<1> HIDE DEF moved, a, ts
<1>5. ASSUME NEW i \in Slots
      PROVE  /\ moved[i] \in Track
             /\ match[i] # 0 =>
                  moved[i].state # "IDLE" /\ Abs(moved[i].x - seen[match[i]]) <= Lag
             /\ match[i] = 0 /\ moved[i].state # "IDLE" =>
                  targets[i].state = "ACQUIRED" /\ moved[i].state = "ACQUIRING"
             /\ targets[i].state = "IDLE" => moved[i].state # "ACQUIRED"
  <2>1. PICK t \in Track : t = targets[i]
    BY DEF Tracks, Track
  <2>2. match[i] \in 0 .. Len(seen) /\ Len(seen) \in Nat
    OBVIOUS
  <2>3. CASE match[i] = 0
    <3>1. moved[i] = Predicted(t)
      BY <1>3, <2>1, <2>3
    <3>2. /\ moved[i] \in Track
          /\ moved[i].state # "IDLE" =>
               t.state = "ACQUIRED" /\ moved[i].state = "ACQUIRING"
      BY <3>1, Lost, Zenon
    <3> QED
      BY <2>1, <2>3, <3>2
  <2>4. CASE match[i] # 0
    <3>1. match[i] \in 1 .. Len(seen)
      BY <2>2, <2>4
    <3>2. PICK p \in Positions : p = seen[match[i]]
      BY <3>1
    <3>3. PICK y \in Int : y = p
      BY Numbers
    <3>4. moved[i] = Filtered(t, y)
      BY <1>3, <2>1, <2>4, <3>2, <3>3
    <3>5. MayTake(t, y)
      <4>1. CASE targets[i].state = "IDLE"
        BY <2>1, <4>1 DEF MayTake
      <4>2. CASE targets[i].state # "IDLE"
        <5>1. match[i] \in Candidates(t, seen)
          BY <2>1, <2>4, <4>2 DEF Live
        <5>2. Abs((y - t.x) - t.v) <= max_acceleration
          BY <3>2, <3>3, <5>1 DEF Candidates
        <5>3. (y - t.x) - t.v = y - (t.x + t.v)
          BY DEF Track
        <5> QED
          BY <5>2, <5>3 DEF MayTake
      <4> QED
        BY <4>1, <4>2
    <3>6. Filtered(t, y) \in FollowingOf(t, y)
      BY <3>5, SeenThere
    <3>7. /\ moved[i] \in Track
          /\ moved[i].state # "IDLE" /\ Abs(moved[i].x - y) <= Lag
          /\ t.state = "IDLE" => moved[i].state = "ACQUIRING"
      BY <3>4, <3>6 DEF FollowingOf
    <3> QED
      BY <2>1, <2>4, <3>2, <3>3, <3>7
  <2> QED
    BY <2>3, <2>4
<1>6. ASSUME NEW i \in Slots
      PROVE  /\ ts[i] \in Track /\ ts[i].state = moved[i].state
             /\ ts[i].x = moved[i].x /\ ts[i].v = moved[i].v
             /\ ts[i].state # "IDLE" /\ Abs(ts[i].v) <= speed_threhold =>
                  (ts[i].intention = "DANGEROUS" <=> Abs(a - ts[i].x) <= safe_distance)
  <2>1. moved[i] \in Track /\ ts[i] = AwareOf(moved[i], a, s.v)
    BY <1>2, <1>5
  <2> QED
    BY <1>1, <2>1, Aware
<1>7. ts \in Tracks
  BY <1>4, <1>6 DEF Tracks, Track
<1>8. \A i \in Slots :
        /\ match[i] # 0 =>
             ts[i].state # "IDLE" /\ Abs(ts[i].x - seen[match[i]]) <= Lag
        /\ match[i] = 0 /\ ts[i].state # "IDLE" =>
             targets[i].state = "ACQUIRED" /\ ts[i].state = "ACQUIRING"
        /\ targets[i].state = "IDLE" => ts[i].state # "ACQUIRED"
        /\ ts[i].state # "IDLE" /\ Abs(ts[i].v) <= speed_threhold =>
             (ts[i].intention = "DANGEROUS" <=> Abs(a - ts[i].x) <= safe_distance)
  BY <1>5, <1>6
<1> QED
  BY <1>7, <1>8 DEF ts, a

\* What the slots may take of what the last pass has seen, and are left with.
Outcomes ==
  {match \in [Slots -> 0 .. Len(target_x')] :
     /\ targets' = RemoveDuplicateTargets(Judgement(target_x', match, vessel'))
     /\ \A i \in Live(targets) :
          match[i] # 0 => match[i] \in Candidates(targets[i], target_x')
     /\ Cardinality(Idle) >= Len(target_x') =>
          \A k \in 1 .. Len(target_x') : \E i \in Slots : match[i] = k}

\* An evaluation.
LEMMA Evaluated ==
  ASSUME TypeOK, NEW s, Evaluate(s)
  PROVE  /\ target_x' \in Seq(Positions) /\ vessel' \in Vessels
         /\ Outcomes # {}
<1>1. target_x' \in Seq(Positions)
  <2>1. target_x' = << >> \/ target_x' \in Clusters
    BY DEF Evaluate
  <2>2. << >> \in Seq(Positions)
    BY EmptySeq
  <2>3. Clusters \subseteq Seq(Positions)
    <3> SUFFICES ASSUME NEW q \in Clusters
                 PROVE  q \in Seq(Positions)
      OBVIOUS
    <3>1. PICK k \in 0 .. MaxDetections : q \in [1 .. k -> Positions]
      BY DEF Clusters
    <3>2. k \in Nat
      BY Numbers
    <3> QED
      BY <3>1, <3>2
  <2> QED
    BY <2>1, <2>2, <2>3
<1>2. vessel' \in Vessels
  BY DEF Evaluate
<1>3. PICK c \in LiveMatches(target_x') :
        targets' = RemoveDuplicateTargets(
                     Judgement(target_x', TargetIdentification(target_x', c), vessel'))
  BY DEF Evaluate, Judgement
<1>4. TargetIdentification(target_x', c) \in Outcomes
  <2> DEFINE match == TargetIdentification(target_x', c)
  <2>1. /\ match \in [Slots -> 0 .. Len(target_x')]
        /\ \A i \in Live(targets) :
             match[i] # 0 => match[i] \in Candidates(targets[i], target_x')
        /\ Cardinality(Idle) >= Len(target_x') =>
             \A k \in 1 .. Len(target_x') : \E i \in Slots : match[i] = k
    BY <1>1, Identified
  <2> HIDE DEF match
  <2> QED
    BY <1>3, <2>1 DEF Outcomes, match
<1> QED
  BY <1>1, <1>2, <1>4

-----------------------------------------------------------------------------
(* The targets after every step of AutoTracking.                           *)

\* The targets are well formed, apart, and judged by where the vessel is said to
\* be: at a place that AutoTracking takes from its speed.
TargetsSound ==
  /\ TypeOK
  /\ TracksApart
  /\ \A i \in Live(targets) :
       Abs(targets[i].v) <= speed_threhold =>
         (targets[i].intention = "DANGEROUS"
            <=> Abs((2 * vessel.v) \div 5 - targets[i].x) <= safe_distance)

\* An evaluation leaves such targets, whatever was seen and tracked before.
LEMMA EvaluatedSound ==
  ASSUME TypeOK, NEW s, Evaluate(s)
  PROVE  /\ targets' \in Tracks
         /\ TracksApart'
         /\ \A i \in Live(targets') :
              Abs(targets'[i].v) <= speed_threhold =>
                (targets'[i].intention = "DANGEROUS"
                   <=> Abs((2 * vessel'.v) \div 5 - targets'[i].x) <= safe_distance)
<1>1. /\ target_x' \in Seq(Positions) /\ vessel' \in Vessels
      /\ Outcomes # {} /\ targets \in Tracks
  BY Evaluated DEF TypeOK, Tracks
<1>2. PICK match \in [Slots -> 0 .. Len(target_x')] :
        /\ targets' = RemoveDuplicateTargets(Judgement(target_x', match, vessel'))
        /\ \A i \in Live(targets) :
             match[i] # 0 => match[i] \in Candidates(targets[i], target_x')
  BY <1>1 DEF Outcomes
<1> DEFINE ts == Judgement(target_x', match, vessel')
<1>3. /\ ts \in Tracks
      /\ \A i \in Slots :
           ts[i].state # "IDLE" /\ Abs(ts[i].v) <= speed_threhold =>
             (ts[i].intention = "DANGEROUS"
                <=> Abs((2 * vessel'.v) \div 5 - ts[i].x) <= safe_distance)
  BY <1>1, <1>2, JudgementIs
<1> HIDE DEF ts
<1>4. /\ targets' \in Tracks
      /\ Live(targets') \subseteq Live(ts)
      /\ \A j \in Live(targets') : targets'[j] = ts[j]
      /\ \A k, j \in Live(targets') :
           k # j => Abs(targets'[k].x - targets'[j].x) > p_radius
  BY <1>2, <1>3, DuplicatesRemoved DEF ts
<1>5. TracksApart'
  <2>1. Live(targets)' = Live(targets')
    BY DEF Live
  <2> QED
    BY <1>4, <2>1 DEF TracksApart
<1>6. \A i \in Live(ts) : i \in Slots /\ ts[i].state # "IDLE"
  BY DEF Live
<1> QED
  BY <1>3, <1>4, <1>5, <1>6

\* TargetsSound is an invariant.
THEOREM TracksInductive == Spec => []TargetsSound
<1> USE TrackingAssumption
<1>1. Init => TargetsSound
  <2> SUFFICES ASSUME Init
               PROVE  TargetsSound
    OBVIOUS
  <2>1. /\ azimuth = 0 /\ surroundings = {} /\ target_x = << >>
        /\ previous_IsInAlarmAzimuth = FALSE /\ crept = FALSE
        /\ spoke_state = "OUTSIDE_ALARM_ZONE" /\ vessel \in Vessels
        /\ targets = [i \in Slots |-> [state |-> "IDLE", x |-> 0, v |-> 0,
                                       intention |-> "SAFE"]]
    BY DEF Init
  <2>2. 0 \in 0 .. Ring - 1
    BY DEF TrackingAssumption
  <2>3. << >> \in Seq(Positions)
    BY EmptySeq
  <2>4. Live(targets) = {}
    BY <2>1 DEF Live
  <2>5. targets \in Tracks
    BY <2>1 DEF Tracks
  <2>6. TypeOK
    BY <2>1, <2>2, <2>3, <2>5 DEF TypeOK, Tracks
  <2> QED
    BY <2>4, <2>6 DEF TargetsSound, TracksApart
<1>2. TargetsSound /\ [Next]_vars => TargetsSound'
  <2> SUFFICES ASSUME TargetsSound, [Next]_vars
               PROVE  TargetsSound'
    OBVIOUS
  <2>1. ASSUME NEW s \in 0 .. MaxStep, Turn(s)
        PROVE  /\ azimuth' \in 0 .. Ring - 1
               /\ previous_IsInAlarmAzimuth' \in BOOLEAN
    <3>1. azimuth \in 0 .. Ring - 1
      BY DEF TargetsSound, TypeOK
    <3>2. azimuth' \in 0 .. Ring - 1 /\ previous_IsInAlarmAzimuth' = (azimuth' \in Alarm)
      BY <2>1, <3>1, Turned
    <3>3. (azimuth' \in Alarm) \in BOOLEAN
      OBVIOUS
    <3>4. previous_IsInAlarmAzimuth' \in BOOLEAN
      BY <3>2, <3>3, Zenon
    <3> QED
      BY <3>2, <3>4
  <2>2. Collected \subseteq {"before", "now"}
    BY DEF Collected, TargetsSound, TypeOK
  <2>3. ASSUME NEW s \in 0 .. MaxStep, Ignore(s) \/ Collect(s) \/ Discard(s)
        PROVE  TargetsSound'
    <3>1. /\ Turn(s)
          /\ UNCHANGED <<target_x, targets, vessel>>
          /\ surroundings' \in {Collected, Collected \cup {"now"}, {}}
          /\ crept' \in {TRUE, FALSE, crept}
          /\ spoke_state' \in {spoke_state, "IN_ALARM_ZONE", "ENTER_ALARM_ZONE",
                               "OUTSIDE_ALARM_ZONE"}
      BY <2>3 DEF Ignore, Collect, Discard
    <3>2. TypeOK'
      BY <2>1, <2>2, <3>1 DEF TargetsSound, TypeOK
    <3> QED
      BY <3>1, <3>2 DEF TargetsSound, TracksApart, Live
  <2>4. ASSUME NEW s \in 0 .. MaxStep, Evaluate(s)
        PROVE  TargetsSound'
    <3>1. /\ Turn(s) /\ spoke_state' = "LEAVE_ALARM_ZONE"
          /\ surroundings' = surroundings /\ crept' = crept
      BY <2>4 DEF Evaluate
    <3>2. /\ target_x' \in Seq(Positions) /\ vessel' \in Vessels
          /\ targets' \in Tracks /\ TracksApart'
          /\ \A i \in Live(targets') :
               Abs(targets'[i].v) <= speed_threhold =>
                 (targets'[i].intention = "DANGEROUS"
                    <=> Abs((2 * vessel'.v) \div 5 - targets'[i].x) <= safe_distance)
      BY <2>4, Evaluated, EvaluatedSound DEF TargetsSound
    <3>3. TypeOK'
      BY <2>1, <3>1, <3>2 DEF TargetsSound, TypeOK, Tracks
    <3>4. Live(targets)' = Live(targets')
      BY DEF Live
    <3> QED
      BY <3>2, <3>3, <3>4 DEF TargetsSound
  <2>5. CASE UNCHANGED vars
    <3>1. TypeOK' /\ Live(targets)' = Live(targets)
      BY <2>5 DEF vars, TargetsSound, TypeOK, Live
    <3> QED
      BY <2>5, <3>1 DEF vars, TargetsSound, TracksApart
  <2> QED
    BY <2>3, <2>4, <2>5 DEF Next, AutoTracking
<1> QED
  BY <1>1, <1>2, PTL DEF Spec

\* Type correctness of the tracking: azimuths keep to the revolution, targets and
\* what was seen are well formed.
THEOREM TypeCorrect == Spec => []TypeOK
<1>1. TargetsSound => TypeOK
  BY DEF TargetsSound
<1> QED
  BY <1>1, TracksInductive, PTL

\* No two targets lie within p_radius of each other: RemoveDuplicateTargets, in one
\* pass over the pairs that drops targets while it goes on, leaves none, for any
\* number of targets, wherever the filter has put them.
THEOREM ApartCorrect == Spec => []TracksApart
<1>1. TargetsSound => TracksApart
  BY DEF TargetsSound
<1> QED
  BY <1>1, TracksInductive, PTL

\* A target at rest is dangerous exactly when it is within safe_distance of the
\* vessel, where the vessel is at the place that AutoTracking takes from its
\* speed: so it is for a vessel at rest in the origin, as in the tests.
THEOREM DangerCorrect ==
  ASSUME \A s \in Vessels : (2 * s.v) \div 5 = s.x
  PROVE  Spec => []DangerIsNearVessel
<1>1. TargetsSound => DangerIsNearVessel
  <2> SUFFICES ASSUME TargetsSound, NEW i \in Live(targets),
                      Abs(targets[i].v) <= speed_threhold
               PROVE  targets[i].intention = "DANGEROUS"
                        <=> Abs(targets[i].x - vessel.x) <= safe_distance
    BY DEF DangerIsNearVessel
  <2>1. targets[i].intention = "DANGEROUS"
          <=> Abs((2 * vessel.v) \div 5 - targets[i].x) <= safe_distance
    BY DEF TargetsSound
  <2>2. (2 * vessel.v) \div 5 = vessel.x /\ vessel.x \in Int /\ targets[i].x \in Int
    BY Numbers DEF TargetsSound, TypeOK, Live
  <2>3. Abs(vessel.x - targets[i].x) = Abs(targets[i].x - vessel.x)
    BY <2>2 DEF Abs
  <2> QED
    BY <2>1, <2>2, <2>3
<1> QED
  BY <1>1, TracksInductive, PTL

-----------------------------------------------------------------------------
(* TargetsFollowDetections: how far from a target that is dropped as a       *)
(* duplicate the target is that is left for it.                              *)

\* As many elements as there are in a set of one, or of two, are missing when these
\* are taken out.
LEMMA OneLess ==
  ASSUME NEW S, IsFiniteSet(S), NEW T \in SUBSET S, NEW x \in S, x \notin T
  PROVE  Cardinality(T) + 1 <= Cardinality(S)
<1>1. T \in SUBSET (S \ {x})
  OBVIOUS
<1>2. /\ IsFiniteSet(S \ {x})
      /\ Cardinality(S \ {x}) = IF x \in S THEN Cardinality(S) - 1 ELSE Cardinality(S)
  BY FS_RemoveElement
<1>3. Cardinality(T) <= Cardinality(S \ {x}) /\ IsFiniteSet(T)
  BY <1>1, <1>2, FS_Subset
<1>4. Cardinality(S) \in Nat /\ Cardinality(T) \in Nat
  BY <1>3, FS_CardinalityType
<1> QED
  BY <1>2, <1>3, <1>4

\* And two more, when two are taken out.
LEMMA TwoLess ==
  ASSUME NEW S, IsFiniteSet(S), NEW T \in SUBSET S, NEW x \in S, NEW y \in S,
         x \notin T, y \notin T, x # y
  PROVE  Cardinality(T) + 2 <= Cardinality(S)
<1>1. /\ IsFiniteSet(S \ {x})
      /\ Cardinality(S \ {x}) = IF x \in S THEN Cardinality(S) - 1 ELSE Cardinality(S)
  BY FS_RemoveElement
<1>2. T \in SUBSET (S \ {x}) /\ y \in S \ {x}
  OBVIOUS
<1>3. Cardinality(T) + 1 <= Cardinality(S \ {x}) /\ IsFiniteSet(T)
  BY <1>1, <1>2, OneLess, FS_Subset
<1>4. Cardinality(S) \in Nat /\ Cardinality(T) \in Nat
  BY <1>3, FS_CardinalityType
<1> QED
  BY <1>1, <1>3, <1>4

\* Where a target is left when the turn i has dropped u, and how many targets that
\* costs for each p_radius of distance.
StandsIn(b, i, u) ==
  {w \in Live(b) \ DuplicatesOf(b, i) :
     \E m \in 0 .. 2 :
       /\ Cardinality(Live(b) \ DuplicatesOf(b, i)) + m <= Cardinality(Live(b))
       /\ Abs(b[u].x - b[w].x) <= m * p_radius}

\* A target that outdoes u is within p_radius of it; when a third one outdoes it in
\* the same turn, that one is within twice the distance, but two are dropped.
LEMMA OneTurn ==
  ASSUME NEW b \in Tracks, NEW i \in Slots, NEW u \in Live(b)
  PROVE  StandsIn(b, i, u) # {}
<1> DEFINE L == Live(b)
           D == DuplicatesOf(b, i)
           faster == {j \in CloseTo(b, i) : Abs(b[i].v) <= Abs(b[j].v)}
<1>1. D = {l \in CloseTo(b, i) \ faster : \A k \in faster : l < k}
            \cup (IF faster = {} THEN {} ELSE {i})
  BY DEF DuplicatesOf
<1>2. /\ IsFiniteSet(L) /\ Cardinality(L) \in Nat /\ p_radius \in Nat
      /\ \A j \in L : b[j].x \in Int
  BY SlotsFinite, Numbers DEF Tracks, Live
<1>3. \A j \in CloseTo(b, i) : /\ j \in L /\ i \in L /\ j # i
                               /\ Abs(b[i].x - b[j].x) <= p_radius
  <2>1. \A j \in i + 1 .. max_num_target : j # i
    BY Numbers DEF Slots
  <2> QED
    BY <2>1 DEF CloseTo
<1>4. \A T \in SUBSET L : IsFiniteSet(T) /\ Cardinality(T) \in Nat
                          /\ Cardinality(T) <= Cardinality(L)
  BY <1>2, FS_Subset, FS_CardinalityType
<1>5. \A w \in L \ D, m \in 0 .. 2 :
        /\ Cardinality(L \ D) + m <= Cardinality(L)
        /\ Abs(b[u].x - b[w].x) <= m * p_radius
        => w \in StandsIn(b, i, u)
  BY DEF StandsIn
<1> HIDE DEF L, D, faster
<1>6. CASE u \notin D
  <2>1. u \in L \ D /\ L \ D \in SUBSET L
    BY <1>6 DEF L
  <2>2. Cardinality(L \ D) + 0 <= Cardinality(L)
    BY <1>2, <1>4, <2>1
  <2>3. Abs(b[u].x - b[u].x) <= 0 * p_radius
    BY <1>2, <2>1 DEF Abs
  <2> QED
    BY <1>5, <2>1, <2>2, <2>3
<1>7. CASE u \in D /\ faster = {}
  <2>1. u \in CloseTo(b, i) /\ i \notin D
    BY <1>1, <1>3, <1>7
  <2>2. i \in L \ D /\ L \ D \in SUBSET L /\ u \in L /\ u \notin L \ D
    BY <1>3, <1>7, <2>1
  <2>3. Cardinality(L \ D) + 1 <= Cardinality(L)
    BY <1>2, <2>2, OneLess
  <2>4. Abs(b[u].x - b[i].x) <= 1 * p_radius
    BY <1>2, <1>3, <2>1, <2>2 DEF Abs
  <2> QED
    BY <1>5, <2>2, <2>3, <2>4
<1>8. CASE u \in D /\ faster # {}
  <2>1. PICK w \in faster : TRUE
    BY <1>8
  <2>2. w \in CloseTo(b, i)
    BY <2>1 DEF faster
  <2>3. w \in L \ D /\ i \in D /\ i \in L /\ L \ D \in SUBSET L /\ i \notin L \ D
    BY <1>1, <1>3, <1>8, <2>1, <2>2
  <2>4. CASE u = i
    <3>1. Cardinality(L \ D) + 1 <= Cardinality(L)
      BY <1>2, <2>3, OneLess
    <3>2. Abs(b[u].x - b[w].x) <= 1 * p_radius
      BY <1>2, <1>3, <2>2, <2>4
    <3> QED
      BY <1>5, <2>3, <3>1, <3>2
  <2>5. CASE u # i
    <3>1. u \in CloseTo(b, i)
      BY <1>1, <1>8, <2>5
    <3>2. u \in L /\ u \notin L \ D
      BY <1>3, <1>8, <3>1
    <3>3. Cardinality(L \ D) + 2 <= Cardinality(L)
      BY <1>2, <2>3, <2>5, <3>2, TwoLess
    <3>4. Abs(b[u].x - b[w].x) <= 2 * p_radius
      <4>1. /\ Abs(b[i].x - b[w].x) <= p_radius
            /\ Abs(b[i].x - b[u].x) <= p_radius
            /\ b[i].x \in Int /\ b[w].x \in Int /\ b[u].x \in Int
        BY <1>2, <1>3, <2>2, <2>3, <3>1, <3>2
      <4> QED
        BY <1>2, <4>1 DEF Abs
    <3> QED
      BY <1>5, <2>3, <3>3, <3>4
  <2> QED
    BY <2>4, <2>5
<1> QED
  BY <1>6, <1>7, <1>8

\* Multiples of a distance.
LEMMA Multiples ==
  ASSUME NEW p \in Nat, NEW k \in Nat, NEW m \in Nat
  PROVE  /\ k * p \in Nat /\ k * p + m * p = (k + m) * p
         /\ \A n \in Nat : k <= n => k * p <= n * p
<1>1. k * p \in Nat /\ k * p + m * p = (k + m) * p
  OBVIOUS
<1>2. ASSUME NEW n \in Nat, k <= n
      PROVE  k * p <= n * p
  <2>1. PICK d \in Nat : n = k + d
    <3>1. n - k \in Nat /\ n = k + (n - k)
      BY <1>2
    <3> QED
      BY <3>1
  <2>2. n * p = k * p + d * p /\ k * p \in Int /\ d * p \in Nat
    BY <2>1
  <2> QED
    BY <2>2
<1> QED
  BY <1>1, <1>2

\* What is left for t among ts, and how near.
LeftFor(ts, after, t) ==
  {w \in Live(after) :
     Abs(ts[t].x - ts[w].x)
       <= (Cardinality(Live(ts)) - Cardinality(Live(after))) * p_radius}

\* Each target that is dropped on the way from t to the one that is left for it
\* counts for one p_radius.
LEMMA TurnsLeave ==
  ASSUME NEW ts \in Tracks, NEW turn \in Turns(ts), NEW t \in Live(ts),
         NEW n \in 0 .. max_num_target
  PROVE  LeftFor(ts, turn[n], t) # {}
<1> DEFINE T == {k \in Nat : k <= max_num_target => LeftFor(ts, turn[k], t) # {}}
<1>1. /\ max_num_target \in Nat /\ p_radius \in Nat
      /\ \A i \in Slots : ts[i].x \in Int
      /\ \A b : Live(b) \subseteq Slots /\ Cardinality(Live(b)) \in Nat
  BY Numbers, SlotsFinite DEF Tracks
<1>2. 0 \in T
  <2>1. turn[0] = ts
    BY DEF Turns
  <2>2. Abs(ts[t].x - ts[t].x)
          <= (Cardinality(Live(ts)) - Cardinality(Live(ts))) * p_radius
    BY <1>1 DEF Abs
  <2> QED
    BY <2>1, <2>2 DEF LeftFor
<1>3. ASSUME NEW k \in Nat, k \in T
      PROVE  k + 1 \in T
  <2> SUFFICES ASSUME k + 1 <= max_num_target
               PROVE  LeftFor(ts, turn[k + 1], t) # {}
    OBVIOUS
  <2>1. /\ k + 1 \in 1 .. max_num_target /\ k + 1 - 1 = k /\ k + 1 \in Slots
        /\ k \in 0 .. max_num_target /\ LeftFor(ts, turn[k], t) # {}
    BY <1>1, <1>3 DEF Slots
  <2>2. PICK b \in Tracks : b = turn[k]
    BY <2>1, TurnKeeps
  <2>3. turn[k + 1] = Without(b, DuplicatesOf(b, k + 1))
    BY <2>1, <2>2 DEF Turns
  <2>4. \A i \in Slots : b[i].x = ts[i].x
    BY <2>1, <2>2, TurnKeeps
  <2>5. PICK u \in Live(b) :
          Abs(ts[t].x - ts[u].x)
            <= (Cardinality(Live(ts)) - Cardinality(Live(b))) * p_radius
    BY <2>1, <2>2 DEF LeftFor
  <2>6. PICK i : i = k + 1
    OBVIOUS
  <2>7. PICK w \in StandsIn(b, i, u) : TRUE
    BY <2>1, <2>6, OneTurn
  <2>8. PICK after : after = turn[k + 1]
    OBVIOUS
  <2>9. Live(after) = Live(b) \ DuplicatesOf(b, i)
    BY <2>3, <2>6, <2>8, WithoutType
  <2>10. PICK m \in 0 .. 2 :
           /\ Cardinality(Live(after)) + m <= Cardinality(Live(b))
           /\ Abs(b[u].x - b[w].x) <= m * p_radius
    BY <2>7, <2>9 DEF StandsIn
  <2>11. w \in Live(after)
    BY <2>7, <2>9 DEF StandsIn
  <2>12. PICK before \in Nat : before = Cardinality(Live(ts)) - Cardinality(Live(b))
    <3>1. Live(b) \in SUBSET Live(ts)
      BY <2>1, <2>2, TurnKeeps
    <3>2. Cardinality(Live(b)) <= Cardinality(Live(ts))
      BY <3>1, SlotsFinite, FS_Subset
    <3> QED
      BY <1>1, <3>2
  <2>13. PICK now \in Nat : now = Cardinality(Live(ts)) - Cardinality(Live(after))
    BY <1>1, <2>10, <2>12
  <2>14. before + m <= now /\ before + m \in Nat /\ m \in Nat
    BY <1>1, <2>10, <2>12, <2>13
  <2>15. /\ before * p_radius \in Nat /\ m * p_radius \in Nat /\ now * p_radius \in Nat
         /\ before * p_radius + m * p_radius = (before + m) * p_radius
         /\ (before + m) * p_radius <= now * p_radius
    BY <1>1, <2>14, Multiples
  <2>16. ts[t].x \in Int /\ ts[u].x \in Int /\ ts[w].x \in Int
    BY <1>1, <2>11
  <2>17. Abs(ts[t].x - ts[u].x) <= before * p_radius
    BY <2>5, <2>12
  <2>18. Abs(ts[u].x - ts[w].x) <= m * p_radius
    BY <1>1, <2>4, <2>10, <2>11
  <2>19. Abs(ts[t].x - ts[w].x) <= now * p_radius
    BY <2>15, <2>16, <2>17, <2>18 DEF Abs
  <2> QED
    BY <2>8, <2>11, <2>13, <2>19 DEF LeftFor
<1>4. n \in T
  <2> HIDE DEF T
  <2> QED
    BY <1>2, <1>3, Induction
<1> QED
  BY <1>1, <1>4

\* Those that a target of ts may be found with after RemoveDuplicateTargets.
Near(ts, left, t) ==
  {w \in Live(left) : Abs(left[w].x - ts[t].x) <= (max_num_target - 1) * p_radius}

\* Some target is left near every one that there was.
LEMMA NoneForgotten ==
  ASSUME NEW ts \in Tracks, NEW t \in Live(ts)
  PROVE  Near(ts, RemoveDuplicateTargets(ts), t) # {}
<1>1. PICK turn \in Turns(ts) : TRUE
  BY TurnsExist
<1>2. PICK left : left = RemoveDuplicateTargets(ts)
  OBVIOUS
<1>3. left = turn[max_num_target] /\ max_num_target \in 0 .. max_num_target
  BY <1>2, Numbers DEF Turns
<1>4. LeftFor(ts, left, t) # {}
  BY <1>3, TurnsLeave
<1>5. PICK w \in Live(left) :
        Abs(ts[t].x - ts[w].x)
          <= (Cardinality(Live(ts)) - Cardinality(Live(left))) * p_radius
  BY <1>4 DEF LeftFor
<1>6. left \in Tracks /\ Live(left) \in SUBSET Live(ts) /\ left[w] = ts[w]
  BY <1>2, DuplicatesRemoved
<1>7. PICK d \in Nat : /\ d = Cardinality(Live(ts)) - Cardinality(Live(left))
                       /\ d <= max_num_target - 1 /\ max_num_target - 1 \in Nat
  <2>1. /\ IsFiniteSet(Live(left)) /\ IsFiniteSet(Live(ts))
        /\ Cardinality(Live(ts)) \in Nat /\ Cardinality(Live(left)) \in Nat
        /\ Cardinality(Live(ts)) <= max_num_target /\ max_num_target \in Nat
    BY SlotsFinite, Numbers
  <2>2. Cardinality(Live(left)) <= Cardinality(Live(ts))
    BY <1>6, <2>1, FS_Subset
  <2>3. Cardinality(Live(left)) # 0
    BY <2>1, FS_EmptySet
  <2> QED
    BY <2>1, <2>2, <2>3
<1>8. /\ d * p_radius \in Nat
      /\ d * p_radius <= (max_num_target - 1) * p_radius
      /\ (max_num_target - 1) * p_radius \in Nat
  BY <1>7, Numbers, Multiples
<1>9. ts[t].x \in Int /\ ts[w].x \in Int
  BY <1>6 DEF Tracks, Live
<1>10. Abs(ts[t].x - ts[w].x) <= d * p_radius
  BY <1>5, <1>7
<1>11. Abs(left[w].x - ts[t].x) <= (max_num_target - 1) * p_radius
  BY <1>6, <1>8, <1>9, <1>10 DEF Abs
<1> QED
  BY <1>2, <1>11 DEF Near

\* An evaluation follows what was seen.
LEMMA EvaluationFollows ==
  ASSUME TypeOK, NEW s, Evaluate(s)
  PROVE  /\ Cardinality(Idle) >= Len(target_x') =>
              \A k \in DOMAIN target_x' : \E i \in Live(targets') :
                Abs(targets'[i].x - target_x'[k])
                  <= (max_num_target - 1) * p_radius + Lag
         /\ \A i \in Live(targets') :
              \/ \E k \in DOMAIN target_x' : Abs(targets'[i].x - target_x'[k]) <= Lag
              \/ targets[i].state = "ACQUIRED" /\ targets'[i].state = "ACQUIRING"
         /\ \A i \in Idle : targets'[i].state # "ACQUIRED"
<1>1. /\ target_x' \in Seq(Positions) /\ vessel' \in Vessels
      /\ Outcomes # {} /\ targets \in Tracks
  BY Evaluated DEF TypeOK, Tracks
<1>2. PICK match \in [Slots -> 0 .. Len(target_x')] :
        /\ targets' = RemoveDuplicateTargets(Judgement(target_x', match, vessel'))
        /\ \A i \in Live(targets) :
             match[i] # 0 => match[i] \in Candidates(targets[i], target_x')
        /\ Cardinality(Idle) >= Len(target_x') =>
             \A k \in 1 .. Len(target_x') : \E i \in Slots : match[i] = k
  BY <1>1 DEF Outcomes
<1> DEFINE ts == Judgement(target_x', match, vessel')
<1>3. /\ ts \in Tracks
      /\ \A i \in Slots :
           /\ match[i] # 0 =>
                ts[i].state # "IDLE" /\ Abs(ts[i].x - target_x'[match[i]]) <= Lag
           /\ match[i] = 0 /\ ts[i].state # "IDLE" =>
                targets[i].state = "ACQUIRED" /\ ts[i].state = "ACQUIRING"
           /\ targets[i].state = "IDLE" => ts[i].state # "ACQUIRED"
  BY <1>1, <1>2, JudgementIs
<1>4. targets' = RemoveDuplicateTargets(ts)
  BY <1>2
<1>5. Len(target_x') \in Nat /\ DOMAIN target_x' = 1 .. Len(target_x')
  BY <1>1
<1> HIDE DEF ts
<1>6. /\ targets' \in Tracks
      /\ Live(targets') \subseteq Live(ts)
      /\ \A j \in Live(targets') : targets'[j] = ts[j]
  BY <1>3, <1>4, DuplicatesRemoved
<1>7. ASSUME Cardinality(Idle) >= Len(target_x'), NEW k \in DOMAIN target_x'
      PROVE  \E i \in Live(targets') :
               Abs(targets'[i].x - target_x'[k])
                  <= (max_num_target - 1) * p_radius + Lag
  <2>1. k \in 1 .. Len(target_x')
    BY <1>5
  <2>2. PICK i \in Slots : match[i] = k
    BY <1>2, <1>7, <2>1
  <2>3. ts[i].state # "IDLE" /\ Abs(ts[i].x - target_x'[k]) <= Lag
    BY <1>3, <2>1, <2>2
  <2>4. i \in Live(ts)
    BY <2>3 DEF Live
  <2>5. Near(ts, targets', i) # {}
    BY <1>3, <1>4, <2>4, NoneForgotten
  <2>6. PICK w \in Live(targets') :
          Abs(targets'[w].x - ts[i].x) <= (max_num_target - 1) * p_radius
    BY <2>5 DEF Near
  <2>7. targets'[w].x \in Int /\ ts[i].x \in Int
    BY <1>3, <1>6 DEF Tracks, Live
  <2>8. target_x'[k] \in Int
    <3>1. target_x'[k] \in Positions
      BY <1>1, <2>1
    <3>2. Positions \subseteq Nat
      BY Numbers
    <3>3. target_x'[k] \in Nat
      BY <3>1, <3>2
    <3> QED
      BY <3>3
  <2>9. PICK d \in Int : d = (max_num_target - 1) * p_radius
    BY Numbers
  <2>10. PICK l \in Int : l = Lag
    BY LagType
  <2>11. PICK a \in Int, b \in Int, c \in Int :
           a = targets'[w].x /\ b = ts[i].x /\ c = target_x'[k]
    BY <2>7, <2>8
  <2>12. Abs(a - b) <= d /\ Abs(b - c) <= l
    BY <2>3, <2>6, <2>9, <2>10, <2>11
  <2>13. Abs(a - c) <= d + l
    BY <2>12 DEF Abs
  <2> QED
    BY <2>9, <2>10, <2>11, <2>13
<1>8. ASSUME NEW i \in Live(targets')
      PROVE  \/ \E k \in DOMAIN target_x' : Abs(targets'[i].x - target_x'[k]) <= Lag
             \/ targets[i].state = "ACQUIRED" /\ targets'[i].state = "ACQUIRING"
  <2>1. i \in Slots /\ ts[i].state # "IDLE" /\ targets'[i] = ts[i]
    BY <1>6, <1>8 DEF Live
  <2>2. CASE match[i] = 0
    BY <1>3, <2>1, <2>2
  <2>3. CASE match[i] # 0
    <3>1. match[i] \in DOMAIN target_x'
      BY <1>5, <2>1, <2>3
    <3> QED
      BY <1>3, <2>1, <2>3, <3>1
  <2> QED
    BY <2>2, <2>3
<1>9. ASSUME NEW i \in Idle
      PROVE  targets'[i].state # "ACQUIRED"
  <2>1. i \in Slots /\ targets[i].state = "IDLE"
    BY <1>9 DEF Idle
  <2>2. CASE i \in Live(targets')
    BY <1>3, <1>6, <2>1, <2>2
  <2>3. CASE i \notin Live(targets')
    BY <2>1, <2>3 DEF Live
  <2> QED
    BY <2>2, <2>3
<1> QED
  BY <1>7, <1>8, <1>9

\* A spoke that leaves the zone, and does not creep out of it, is evaluated.
LEMMA LeavingEvaluates ==
  ASSUME TypeOK, [Next]_vars, Evaluates
  PROVE  \E s \in 0 .. MaxStep : Evaluate(s)
<1>1. azimuth \in 0 .. Ring - 1 /\ Ring \in Nat /\ MaxStep \in Nat /\ 2 * MaxStep <= Ring
  BY Geometry, TrackingAssumption DEF TypeOK
<1>2. ~UNCHANGED vars
  BY DEF Evaluates, vars
<1>3. PICK s \in 0 .. MaxStep : AutoTracking(s)
  BY <1>2 DEF Next
<1>4. ~Ignore(s)
  <2> SUFFICES ASSUME Ignore(s)
               PROVE  FALSE
    OBVIOUS
  <2>1. s \in 0 .. 1 /\ Turn(s)
    BY DEF Ignore
  <2>2. azimuth' = IF azimuth + s < Ring THEN azimuth + s ELSE azimuth + s - Ring
    BY <1>1, <2>1, TrackingAssumption, Turned
  <2>3. (azimuth' - azimuth) % Ring = s
    <3>1. Ring \in Nat \ {0} /\ s < Ring
      BY <1>1, <2>1, TrackingAssumption DEF TrackingAssumption
    <3>2. azimuth' - azimuth \in {s, s - Ring}
      BY <1>1, <2>1, <2>2
    <3>3. s % Ring = s /\ (s - Ring) % Ring = s
      BY <2>1, <3>1
    <3> QED
      BY <3>2, <3>3
  <2> QED
    BY <2>1, <2>3 DEF Evaluates
<1>5. ~Collect(s)
  <2> SUFFICES ASSUME Collect(s)
               PROVE  FALSE
    OBVIOUS
  <2>1. Turn(s) /\ azimuth' \in Alarm
    BY DEF Collect, IsInAlarmAzimuth
  <2>2. previous_IsInAlarmAzimuth' = (azimuth' \in Alarm)
    BY <2>1 DEF Turn, IsInAlarmAzimuth
  <2> QED
    BY <2>1, <2>2, Zenon DEF Evaluates
<1>6. ~Discard(s)
  BY DEF Discard, Evaluates
<1> QED
  BY <1>3, <1>4, <1>5, <1>6 DEF AutoTracking

\* Everything that is seen is tracked while there are slots for it, nothing else is,
\* and nothing is acquired that was seen once, but for what the alpha filter keeps of
\* where a target was expected (Lag): for any number of targets and any limits,
\* although one that is dropped as a duplicate may be dropped for one that is dropped
\* itself.
THEOREM FollowCorrect == Spec => TargetsFollowDetections
<1>1. TypeOK /\ [Next]_vars =>
        [Evaluates =>
           /\ Cardinality(Idle) >= Len(target_x') =>
                \A k \in DOMAIN target_x' : \E i \in Live(targets') :
                  Abs(targets'[i].x - target_x'[k])
                  <= (max_num_target - 1) * p_radius + Lag
           /\ \A i \in Live(targets') :
                \/ \E k \in DOMAIN target_x' : Abs(targets'[i].x - target_x'[k]) <= Lag
                \/ targets[i].state = "ACQUIRED" /\ targets'[i].state = "ACQUIRING"
           /\ \A i \in Idle : targets'[i].state # "ACQUIRED"]_vars
  <2> SUFFICES ASSUME TypeOK, [Next]_vars, Evaluates
               PROVE  /\ Cardinality(Idle) >= Len(target_x') =>
                           \A k \in DOMAIN target_x' : \E i \in Live(targets') :
                             Abs(targets'[i].x - target_x'[k])
                               <= (max_num_target - 1) * p_radius + Lag
                      /\ \A i \in Live(targets') :
                           \/ \E k \in DOMAIN target_x' : Abs(targets'[i].x - target_x'[k]) <= Lag
                           \/ /\ targets[i].state = "ACQUIRED"
                              /\ targets'[i].state = "ACQUIRING"
                      /\ \A i \in Idle : targets'[i].state # "ACQUIRED"
    OBVIOUS
  <2>1. PICK s \in 0 .. MaxStep : Evaluate(s)
    BY LeavingEvaluates
  <2> QED
    BY <2>1, EvaluationFollows
<1> QED
  BY <1>1, TypeCorrect, PTL DEF Spec, TargetsFollowDetections
=============================================================================
