-------------------------- MODULE ThrustAllocation --------------------------
(***************************************************************************)
(* The thrust allocation of the controller                                 *)
(* (modules/controller/include/thrustallocation.h), closed over its own    *)
(* commands: the control loop feeds the last command back as the measured  *)
(* state of the thrusters.                                                 *)
(*                                                                         *)
(* A step turns the desired force into one box of admissible increments    *)
(* per thruster, hands the boxes to a QP solver and converts the solution  *)
(* to integer rotations (rpm) and angles (deg).  The boxes, the conversion *)
(* and the handling of a solver that fails are modelled; which point of    *)
(* the box the solver picks is left open.                                  *)
(*                                                                         *)
(* A thrust u = K n^2 is represented by the rotation n it stands for.  The *)
(* factor K of the box and that of the conversion are the same as long as  *)
(* the sign of the rotation agrees with the angle (SignAgreesWithAngle).   *)
(***************************************************************************)
EXTENDS Integers

CONSTANTS
  num_tunnel, num_azimuth, num_mainrudder, num_twinfixed,
  max_delta_rotation,      \* rpm per control step, one value per thruster
  max_delta_rotation_p2n,  \* rpm per step near standstill (twin fixed)
  max_rotation,            \* rpm
  min_rotation,            \* rpm (azimuth and rudder)
  max_delta_angle,         \* deg per control step (azimuth and rudder)
  max_angle, min_angle,    \* deg (azimuth and rudder)
  RudderGain,              \* thrust factor of a rudder angle, scaled to Nat
  ly,                      \* lateral position of the two twin thrusters
  Forces                   \* values of the desired Fx and Mz

m == num_tunnel + num_azimuth + num_mainrudder + num_twinfixed

Thrusters == 1 .. m
Tunnels   == 1 .. num_tunnel
Azimuths  == num_tunnel + 1 .. num_tunnel + num_azimuth
Rudders   == num_tunnel + num_azimuth + 1
               .. num_tunnel + num_azimuth + num_mainrudder
Twins     == num_tunnel + num_azimuth + num_mainrudder + 1 .. m

\* The two assertions of initializethrusterallocation.
ASSUME CountAssumption ==
  /\ {num_tunnel, num_azimuth, num_mainrudder, num_twinfixed} \subseteq Nat
  /\ num_twinfixed > 0 => num_twinfixed = 2

\* "no less than 1" is the comment of controllerdata.h on the increments; the
\* other bounds are those of every shipped configuration.
ASSUME ConfigAssumption ==
  /\ max_delta_rotation \in [Thrusters -> Nat \ {0}]
  /\ max_delta_rotation_p2n \in [Thrusters -> Nat \ {0}]
  /\ max_rotation \in [Thrusters -> Nat \ {0}]
  /\ min_rotation \in [Thrusters -> Nat \ {0}]
  /\ max_delta_angle \in [Thrusters -> Nat]
  /\ max_angle \in [Thrusters -> Int]
  /\ min_angle \in [Thrusters -> Int]
  /\ \A i \in Tunnels : 2 * max_delta_rotation[i] <= max_rotation[i]
  /\ \A i \in Twins :
       /\ max_delta_rotation_p2n[i] <= max_delta_rotation[i]
       /\ max_delta_rotation[i] + max_delta_rotation_p2n[i] <= max_rotation[i]
  /\ \A i \in Azimuths \cup Rudders :
       /\ min_rotation[i] <= max_rotation[i]
       /\ min_angle[i] <= max_angle[i]
  /\ \A i \in Rudders :
       /\ min_angle[i] <= 0 /\ 0 <= max_angle[i]
       /\ \A a \in min_angle[i] .. max_angle[i] : RudderGain[a] \in Nat \ {0}

ASSUME ForceAssumption ==
  /\ Forces \subseteq Int
  /\ ly \in [0 .. 1 -> Int]
  /\ ly[0] # ly[1]

VARIABLES
  command,  \* rotation and angle last commanded, per thruster
  solver    \* the Mosek return code r: "OK", or "FAILED" for any error

vars == <<command, solver>>

Abs(x) == IF x < 0 THEN -x ELSE x
Smaller(x, y) == IF x < y THEN x ELSE y
Larger(x, y) == IF x < y THEN y ELSE x

-----------------------------------------------------------------------------
(* Boxes of admissible increments.  turns: the admissible increments of    *)
(* the angle; lo, hi: the bounds of the thrust, as rotations.              *)

Box(turns, lo, hi) == [turns |-> turns, lo |-> lo, hi |-> hi]

TunnelBox(n, d, top, positive) ==
  CASE 0 < n /\ n <= d /\ positive   -> Box({0}, 0, n + d)
    [] 0 < n /\ n <= d /\ ~positive  -> Box({-180}, 0, d - n)
    [] -d <= n /\ n < 0 /\ positive  -> Box({180}, 0, n + d)
    [] -d <= n /\ n < 0 /\ ~positive -> Box({0}, 0, d - n)
    [] n > d                         -> Box({0}, n - d, Smaller(top, n + d))
    [] OTHER                         -> Box({0}, -(n + d), Smaller(top, d - n))

\* Seeded fault: one band for everything, max_delta_rotation_p2n forgotten.
TwinFixedBoxOneBand(n, d, p, top, reverse) ==
  CASE n >= d                     -> Box({0}, n - d, Smaller(top, n + d))
    [] 0 < n /\ n < d /\ reverse  -> Box({180}, d - n, d - n)
    [] 0 < n /\ n < d /\ ~reverse -> Box({0}, n + d, n + d)
    [] -d < n /\ n < 0 /\ reverse -> Box({0}, d - n, d - n)
    [] -d < n /\ n < 0 /\ ~reverse -> Box({-180}, n + d, n + d)
    [] OTHER                      -> Box({0}, -(n + d), Smaller(top, d - n))

TwinFixedBox(n, d, p, top, reverse) ==
  CASE n >= d                        -> Box({0}, n - d, Smaller(top, n + d))
    [] p <= n /\ n < d               -> Box({0}, n - p, n + p)
    [] 0 < n /\ n < p /\ reverse     -> Box({180}, p - n, p - n)
    [] 0 < n /\ n < p /\ ~reverse    -> Box({0}, n + p, n + p)
    [] -p < n /\ n < 0 /\ reverse    -> Box({0}, p - n, p - n)
    [] -p < n /\ n < 0 /\ ~reverse   -> Box({-180}, n + p, n + p)
    [] -d < n /\ n <= -p             -> Box({0}, -(n + p), p - n)
    [] OTHER                         -> Box({0}, -(n + d), Smaller(top, d - n))

\* Increments that keep the angle of azimuth or rudder i inside its sector.
Turns(i) ==
  LET a == command[i].angle
  IN  Larger(-max_delta_angle[i], min_angle[i] - a)
        .. Smaller(max_delta_angle[i], max_angle[i] - a)

AzimuthBox(i) ==
  LET n == command[i].rotation
      d == max_delta_rotation[i]
  IN  Box(Turns(i),
          IF n < d THEN min_rotation[i] ELSE Larger(n - d, min_rotation[i]),
          Smaller(max_rotation[i], n + d))

\* The same box, but for the thrust of the propeller before the rudder: see
\* RudderCommands.
RudderBox(i) == AzimuthBox(i)

\* desired_tau(l) < 0: the twin thruster l (0 or 1) is asked to push astern.
DesiredThrustIsNegative(l, fx, mz) ==
  LET moment == IF l = 0 THEN mz + fx * ly[1] ELSE -(mz + fx * ly[0])
  IN  IF ly[1] > ly[0] THEN moment < 0 ELSE moment > 0

BoxOf(i, fx, mz) ==
  LET n   == command[i].rotation
      d   == max_delta_rotation[i]
      top == max_rotation[i]
  IN  CASE i \in Tunnels  -> TunnelBox(n, d, top, mz > 0)
        [] i \in Azimuths -> AzimuthBox(i)
        [] i \in Rudders  -> RudderBox(i)
        [] OTHER          ->
             TwinFixedBox(n, d, max_delta_rotation_p2n[i], top,
                          DesiredThrustIsNegative(i - (m - 1), fx, mz))

\* Seeded fault: the command is the increment, not the feedback plus it.
HoldBoxIncrementOnly(i) == Box({0}, 0, 0)

\* No increment at all: results is the zero vector.
HoldBox(i) == Box({0}, Abs(command[i].rotation), Abs(command[i].rotation))

-----------------------------------------------------------------------------
(* From the solution of the QP to the command.                             *)

\* Seeded fault: the sign test of a tunnel thruster copied to the twins.
RotationSignOfTunnel(i, angle, k) ==
  IF i \in Tunnels \cup Twins
  THEN IF angle < 0 THEN -Larger(k, 1) ELSE Larger(k, 1)
  ELSE Larger(k, min_rotation[i])

\* calculaterotation: the sign of the rotation is that of the new angle, zero
\* is never commanded, azimuth and rudder stay above their minimum.
Rotation(i, angle, k) ==
  CASE i \in Tunnels -> IF angle < 0 THEN -Larger(k, 1) ELSE Larger(k, 1)
    [] i \in Twins   -> IF angle > 90 THEN -Larger(k, 1) ELSE Larger(k, 1)
    [] OTHER         -> Larger(k, min_rotation[i])

\* Seeded fault: the rotation is rounded up.
TruncatedUp(box) == box.lo .. box.hi + 1

\* static_cast<int> truncates sqrt(u / K), and u is only known to the solver's
\* tolerance (or, without a solution, to a rounding error): the rotation may
\* come out one below the least rotation of the box, never above the greatest.
Truncated(box) == box.lo - 1 .. box.hi

PlainCommands(i, box) ==
  {[rotation |-> Rotation(i, command[i].angle + t, k),
    angle    |-> command[i].angle + t] : t \in box.turns, k \in Truncated(box)}

\* Behind a rudder the thrust is bounded by the extreme gains of the angles
\* that are in reach, and converted back with the gain of the angle chosen.
RudderCommands(i, box) ==
  LET a       == command[i].angle
      gain(t) == RudderGain[a + t]
      may(t, k) ==
        /\ \E s \in box.turns : k * k * gain(t) <= box.hi * box.hi * gain(s)
        /\ \E s \in box.turns :
             (k + 1) * (k + 1) * gain(t) >= box.lo * box.lo * gain(s)
  IN  {[rotation |-> Rotation(i, a + tk[1], tk[2]), angle |-> a + tk[1]] :
         tk \in {x \in box.turns \X (0 .. 2 * max_rotation[i]) :
                   may(x[1], x[2])}}

Commands(i, box) ==
  IF i \in Rudders THEN RudderCommands(i, box) ELSE PlainCommands(i, box)

\* One command of its box for every thruster of a kind.
Choices(kind, boxes) ==
  {c \in [kind -> UNION {Commands(i, boxes[i]) : i \in kind}] :
     \A i \in kind : c[i] \in Commands(i, boxes[i])}

\* calculaterotation, kind by kind.
Solve(boxes) ==
  \E t \in Choices(Tunnels, boxes), a \in Choices(Azimuths, boxes),
     r \in Choices(Rudders, boxes), w \in Choices(Twins, boxes) :
    command' = [i \in Thrusters |-> CASE i \in Tunnels  -> t[i]
                                      [] i \in Azimuths -> a[i]
                                      [] i \in Rudders  -> r[i]
                                      [] OTHER            -> w[i]]

Hold == Solve([i \in Thrusters |-> HoldBox(i)])

-----------------------------------------------------------------------------
(* initializapropeller, and one step of the allocation.                    *)

\* rad2degree of the mean of two angles: halves are rounded away from zero.
MiddleAngle(i) ==
  LET sum == min_angle[i] + max_angle[i]
  IN  IF sum >= 0 THEN (sum + 1) \div 2 ELSE -((1 - sum) \div 2)

initializapropeller(i) ==
  CASE i \in Tunnels  -> [rotation |-> 1, angle |-> 90]
    [] i \in Azimuths -> [rotation |-> min_rotation[i],
                          angle    |-> MiddleAngle(i)]
    [] i \in Rudders  -> [rotation |-> min_rotation[i], angle |-> 0]
    [] OTHER          -> [rotation |-> 1, angle |-> 0]

\* r already holds an error if the environment or the task of the solver could
\* not be made, for want of a licence say.
Init ==
  /\ command = [i \in Thrusters |-> initializapropeller(i)]
  /\ solver \in {"OK", "FAILED"}

\* The solver returns MSK_SOL_STA_OPTIMAL.
Optimal(fx, mz) ==
  /\ solver = "OK"
  /\ Solve([i \in Thrusters |-> BoxOf(i, fx, mz)])
  /\ UNCHANGED solver

\* It terminates without an optimal solution: results stays zero.
NoSolution ==
  /\ solver = "OK"
  /\ Hold
  /\ UNCHANGED solver

\* Seeded fault: r receives a solution status instead of the return code.
SolverErrorStatus ==
  /\ solver = "OK"
  /\ Hold
  /\ solver' = "UNKNOWN"

\* The last call that sets the problem up, or the optimizer, returns an error,
\* which r keeps.  That of an earlier call is overwritten by the next: such a
\* call, which fails for want of memory only, is taken to succeed.
SolverError ==
  /\ solver = "OK"
  /\ Hold
  /\ solver' = "FAILED"

\* Seeded fault: the solver is asked although r holds an error.
SkippedNot ==
  /\ solver = "FAILED"
  /\ \E fx, mz \in Forces : Solve([i \in Thrusters |-> BoxOf(i, fx, mz)])
  /\ UNCHANGED solver

\* Every later step skips the solver: if (r == MSK_RES_OK).
Skipped ==
  /\ solver = "FAILED"
  /\ Hold
  /\ UNCHANGED solver

onestepthrustallocation(fx, mz) ==
  \/ Optimal(fx, mz)
  \/ NoSolution
  \/ SolverError
  \/ Skipped

Next == \E fx, mz \in Forces : onestepthrustallocation(fx, mz)

Spec == Init /\ [][Next]_vars

-----------------------------------------------------------------------------
(* Properties.                                                             *)

\* Every thruster has an integer rotation and angle, the solver a status.
TypeOK ==
  /\ command \in [Thrusters -> [rotation : Int, angle : Int]]
  /\ solver \in {"OK", "FAILED"}

\* calculateu and the boxes choose K_positive or K_negative by the sign of the
\* rotation, calculaterotation and calculateBalpha by the angle: they are about
\* the same thrust only while a propeller turns astern exactly when its angle
\* says so.  No command is zero, which calculateu would take for +1.
SignAgreesWithAngle ==
  /\ \A i \in Tunnels :
       /\ command[i].angle \in {90, -90}
       /\ command[i].rotation # 0
       /\ command[i].rotation < 0 <=> command[i].angle = -90
  /\ \A i \in Twins :
       /\ command[i].angle \in {0, 180}
       /\ command[i].rotation # 0
       /\ command[i].rotation < 0 <=> command[i].angle = 180

\* No sequence of steps, with or without solutions, drives a propeller past
\* max_rotation, although only the outer cases of the boxes of a tunnel or
\* twin thruster are capped; azimuth and rudder angles stay in their sector.
WithinLimits ==
  /\ \A i \in Thrusters \ Rudders : Abs(command[i].rotation) <= max_rotation[i]
  /\ \A i \in Azimuths \cup Rudders :
       /\ command[i].rotation >= min_rotation[i]
       /\ min_angle[i] <= command[i].angle
       /\ command[i].angle <= max_angle[i]

\* The rotation of a propeller behind a rudder stays below its max_rotation too.
RudderWithinLimits ==
  \A i \in Rudders : command[i].rotation <= max_rotation[i]

Reverses(i) == (command[i].rotation < 0) # (command'[i].rotation < 0)

\* max_delta_rotation_p2n protects the drives: a twin propeller reverses only
\* from inside the band around standstill and lands inside it, and the two
\* speeds together are no more than the band; a tunnel propeller reverses only
\* within one increment of standstill.
ReversesOnlyNearStandstill ==
  [][ /\ \A i \in Twins : Reverses(i) =>
           Abs(command[i].rotation) + Abs(command'[i].rotation)
             <= max_delta_rotation_p2n[i]
      /\ \A i \in Tunnels : Reverses(i) =>
           Abs(command[i].rotation) + Abs(command'[i].rotation)
             <= max_delta_rotation[i] + 1 ]_vars

\* A step changes a rotation by no more than max_delta_rotation, but for the one
\* rpm that truncation and the clamping of zero can add, and an angle by no more
\* than its own increment: also across a reversal, and from one case of the
\* boxes to the next.
SlewRateLimited ==
  [][ /\ \A i \in Thrusters \ Rudders :
           Abs(command'[i].rotation - command[i].rotation)
             <= max_delta_rotation[i] + 1
      /\ \A i \in Azimuths \cup Rudders :
           Abs(command'[i].angle - command[i].angle) <= max_delta_angle[i] ]_vars

\* After a solver error the vessel is never allocated thrust again: no later
\* step turns, reverses or speeds up any propeller, whatever is asked of it.
FrozenAfterSolverError ==
  [][ solver = "FAILED" =>
        /\ solver' = "FAILED"
        /\ \A i \in Thrusters :
             /\ command'[i].angle = command[i].angle
             /\ ~ Reverses(i)
             /\ Abs(command'[i].rotation) <= Abs(command[i].rotation) ]_vars
=============================================================================
