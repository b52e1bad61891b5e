----------------------- MODULE ThrustAllocationProofs -----------------------
(***************************************************************************)
(* Proofs about the thrust allocation, for every number of thrusters and   *)
(* every configuration that satisfies the assumptions of the module.       *)
(*                                                                         *)
(* The inductive invariant is stated thruster by thruster: Sound(i, c)     *)
(* says that c is a legal command of thruster i.  One lemma per kind of    *)
(* thruster shows that every command of its box is sound again and how far *)
(* it can be from the previous one; the theorems follow from these.        *)
(***************************************************************************)
EXTENDS ThrustAllocation, TLAPS

\* A legal command of thruster i.
Sound(i, c) ==
  /\ c \in [rotation : Int, angle : Int]
  /\ i \in Tunnels =>
       /\ c.angle \in {90, -90}
       /\ c.rotation # 0
       /\ c.rotation < 0 <=> c.angle = -90
  /\ i \in Twins =>
       /\ c.angle \in {0, 180}
       /\ c.rotation # 0
       /\ c.rotation < 0 <=> c.angle = 180
  /\ i \notin Rudders => Abs(c.rotation) <= max_rotation[i]
  /\ i \in Azimuths \cup Rudders =>
       /\ c.rotation >= min_rotation[i]
       /\ min_angle[i] <= c.angle
       /\ c.angle <= max_angle[i]

IInv ==
  /\ command \in [Thrusters -> [rotation : Int, angle : Int]]
  /\ \A i \in Thrusters : Sound(i, command[i])
  /\ solver \in {"OK", "FAILED"}

\* What a step may do to the command of thruster i, from c to e.
Gentle(i, c, e) ==
  /\ i \in Twins /\ (c.rotation < 0) # (e.rotation < 0) =>
       Abs(c.rotation) + Abs(e.rotation) <= max_delta_rotation_p2n[i]
  /\ i \in Tunnels /\ (c.rotation < 0) # (e.rotation < 0) =>
       Abs(c.rotation) + Abs(e.rotation) <= max_delta_rotation[i] + 1
  /\ i \notin Rudders =>
       Abs(e.rotation - c.rotation) <= max_delta_rotation[i] + 1
  /\ i \in Azimuths \cup Rudders =>
       Abs(e.angle - c.angle) <= max_delta_angle[i]

\* A command that holds: same angle, same direction, no faster.
Holds(c, e) ==
  /\ e.angle = c.angle
  /\ (e.rotation < 0) = (c.rotation < 0)
  /\ Abs(e.rotation) <= Abs(c.rotation)

-----------------------------------------------------------------------------
(* The four kinds partition the thrusters.                                 *)

\* Every thruster is of one kind.
LEMMA Partition ==
  /\ m \in Nat
  /\ Thrusters = Tunnels \cup Azimuths \cup Rudders \cup Twins
  /\ Tunnels \cap Azimuths = {} /\ Tunnels \cap Rudders = {}
  /\ Tunnels \cap Twins = {} /\ Azimuths \cap Rudders = {}
  /\ Azimuths \cap Twins = {} /\ Rudders \cap Twins = {}
BY CountAssumption DEF m, Thrusters, Tunnels, Azimuths, Rudders, Twins

\* A step gives every thruster a command of its own box.
LEMMA SolveCommands ==
  ASSUME NEW boxes, Solve(boxes)
  PROVE  /\ DOMAIN command' = Thrusters
         /\ command' = [i \in Thrusters |-> command'[i]]
         /\ \A i \in Thrusters : command'[i] \in Commands(i, boxes[i])
<1> DEFINE part(t, a, r, w, i) ==
      CASE i \in Tunnels  -> t[i]
        [] i \in Azimuths -> a[i]
        [] i \in Rudders  -> r[i]
        [] OTHER          -> w[i]
<1>1. PICK t \in Choices(Tunnels, boxes), a \in Choices(Azimuths, boxes),
           r \in Choices(Rudders, boxes), w \in Choices(Twins, boxes) :
        command' = [i \in Thrusters |-> part(t, a, r, w, i)]
  BY Zenon DEF Solve
<1>2. /\ \A i \in Tunnels : t[i] \in Commands(i, boxes[i])
      /\ \A i \in Azimuths : a[i] \in Commands(i, boxes[i])
      /\ \A i \in Rudders : r[i] \in Commands(i, boxes[i])
      /\ \A i \in Twins : w[i] \in Commands(i, boxes[i])
  BY <1>1 DEF Choices
<1>3. ASSUME NEW i \in Thrusters
      PROVE  command'[i] \in Commands(i, boxes[i])
  <2>1. CASE i \in Tunnels
    BY <2>1, <1>1, <1>2, Partition
  <2>2. CASE i \in Azimuths
    BY <2>2, <1>1, <1>2, Partition
  <2>3. CASE i \in Rudders
    BY <2>3, <1>1, <1>2, Partition
  <2>4. CASE i \in Twins
    BY <2>4, <1>1, <1>2, Partition
  <2> QED
    BY <2>1, <2>2, <2>3, <2>4, Partition
<1>4. /\ DOMAIN command' = Thrusters
      /\ command' = [i \in Thrusters |-> command'[i]]
  <2> HIDE DEF part
  <2> QED
    BY <1>1
<1> QED
  BY <1>3, <1>4

-----------------------------------------------------------------------------
(* The boxes.                                                              *)

\* A twin box reverses only inside the band, its rotations stay below the
\* maximum and, without a reversal, within one increment.
LEMMA TwinBoxBounds ==
  ASSUME NEW n \in Int, NEW d \in Nat \ {0}, NEW p \in Nat \ {0},
         NEW top \in Nat \ {0}, NEW reverse \in BOOLEAN,
         p <= d, d + p <= top, n # 0, Abs(n) <= top,
         NEW box, box = TwinFixedBox(n, d, p, top, reverse),
         NEW t \in box.turns, NEW k \in Truncated(box)
  PROVE  /\ k \in Int /\ t \in {0, 180, -180}
         /\ t = 180 => n > 0
         /\ t = -180 => n < 0
         /\ k <= top
         /\ t # 0 => Abs(n) + Larger(k, 1) <= p
         /\ t = 0 => Abs(Larger(k, 1) - Abs(n)) <= d + 1
<1> USE DEF Box, Abs, Larger, Smaller, Truncated
<1>1. CASE n >= d
  BY <1>1 DEF TwinFixedBox
<1>2. CASE p <= n /\ n < d
  BY <1>2 DEF TwinFixedBox
<1>3. CASE 0 < n /\ n < p
  BY <1>3 DEF TwinFixedBox
<1>4. CASE -p < n /\ n < 0
  BY <1>4 DEF TwinFixedBox
<1>5. CASE -d < n /\ n <= -p
  BY <1>5 DEF TwinFixedBox
<1>6. CASE n <= -d
  BY <1>6 DEF TwinFixedBox
<1> QED
  BY <1>1, <1>2, <1>3, <1>4, <1>5, <1>6

\* The same for a tunnel box, which reverses within one increment of standstill.
LEMMA TunnelBoxBounds ==
  ASSUME NEW n \in Int, NEW d \in Nat \ {0},
         NEW top \in Nat \ {0}, NEW positive \in BOOLEAN,
         2 * d <= top, n # 0, Abs(n) <= top,
         NEW box, box = TunnelBox(n, d, top, positive),
         NEW t \in box.turns, NEW k \in Truncated(box)
  PROVE  /\ k \in Int /\ t \in {0, 180, -180}
         /\ t = 180 => n < 0
         /\ t = -180 => n > 0
         /\ k <= top
         /\ t # 0 => Abs(n) + Larger(k, 1) <= d + 1
         /\ t = 0 => Abs(Larger(k, 1) - Abs(n)) <= d + 1
<1> USE DEF Box, Abs, Larger, Smaller, Truncated
<1>1. CASE 0 < n /\ n <= d
  BY <1>1 DEF TunnelBox
<1>2. CASE -d <= n /\ n < 0
  BY <1>2 DEF TunnelBox
<1>3. CASE n > d
  BY <1>3 DEF TunnelBox
<1>4. CASE n < -d
  BY <1>4 DEF TunnelBox
<1> QED
  BY <1>1, <1>2, <1>3, <1>4

-----------------------------------------------------------------------------
(* One thruster, one step.                                                 *)

\* The configuration of one thruster, unfolded from the assumptions.
LEMMA Config ==
  ASSUME NEW i \in Thrusters
  PROVE  /\ max_delta_rotation[i] \in Nat \ {0}
         /\ max_delta_rotation_p2n[i] \in Nat \ {0}
         /\ max_rotation[i] \in Nat \ {0}
         /\ min_rotation[i] \in Nat \ {0}
         /\ max_delta_angle[i] \in Nat
         /\ max_angle[i] \in Int /\ min_angle[i] \in Int
BY ConfigAssumption

\* Tunnel: every command of the box, or of a held step, is sound and gentle.
LEMMA TunnelStep ==
  ASSUME NEW i \in Tunnels, Sound(i, command[i]),
         NEW positive \in BOOLEAN, NEW box,
         box \in {HoldBox(i), TunnelBox(command[i].rotation,
                    max_delta_rotation[i], max_rotation[i], positive)},
         NEW e \in PlainCommands(i, box)
  PROVE  Sound(i, e) /\ Gentle(i, command[i], e)
<1> DEFINE n == command[i].rotation
           a == command[i].angle
           d == max_delta_rotation[i]
           top == max_rotation[i]
<1>1. /\ i \in Thrusters /\ i \notin Rudders /\ i \notin Twins
      /\ i \notin Azimuths
  BY Partition
<1>2. /\ n \in Int /\ a \in {90, -90} /\ n # 0
      /\ n < 0 <=> a = -90
      /\ Abs(n) <= top
  BY <1>1 DEF Sound
<1>3. d \in Nat \ {0} /\ top \in Nat \ {0} /\ 2 * d <= top
  BY <1>1, Config, ConfigAssumption
<1>4. PICK t \in box.turns, k \in Truncated(box) :
        e = [rotation |-> Rotation(i, a + t, k), angle |-> a + t]
  BY DEF PlainCommands
<1>5. /\ k \in Int /\ t \in {0, 180, -180}
      /\ t = 180 => n < 0
      /\ t = -180 => n > 0
      /\ k <= top
      /\ t # 0 => Abs(n) + Larger(k, 1) <= d + 1
      /\ t = 0 => Abs(Larger(k, 1) - Abs(n)) <= d + 1
  <2>1. CASE box = HoldBox(i)
    BY <2>1, <1>2, <1>3 DEF HoldBox, Box, Truncated, Abs, Larger
  <2>2. CASE box = TunnelBox(n, d, top, positive)
    <3> HIDE DEF n, d, top
    <3> QED
      BY <2>2, <1>2, <1>3, TunnelBoxBounds
  <2> QED
    BY <2>1, <2>2
<1>6. /\ e.angle = a + t
      /\ e.rotation = IF a + t < 0 THEN -Larger(k, 1) ELSE Larger(k, 1)
  BY <1>1, <1>4 DEF Rotation
<1>7. /\ e.angle \in {90, -90} /\ e.rotation \in Int /\ e.rotation # 0
      /\ e.rotation < 0 <=> e.angle = -90
      /\ Abs(e.rotation) = Larger(k, 1)
  BY <1>2, <1>5, <1>6 DEF Larger, Abs
<1>8. e \in [rotation : Int, angle : Int]
  BY <1>4, <1>6, <1>7
<1>9. Abs(e.rotation) <= top
  BY <1>3, <1>5, <1>7 DEF Larger
<1>10. (n < 0) # (e.rotation < 0) => Abs(n) + Abs(e.rotation) <= d + 1
  BY <1>2, <1>5, <1>6, <1>7 DEF Larger, Abs
<1>11. Abs(e.rotation - n) <= d + 1
  BY <1>2, <1>3, <1>5, <1>6, <1>7 DEF Larger, Abs
<1> QED
  BY <1>1, <1>7, <1>8, <1>9, <1>10, <1>11 DEF Sound, Gentle

\* Twin: the same argument with the wider set of cases of its box.
LEMMA TwinStep ==
  ASSUME NEW i \in Twins, Sound(i, command[i]),
         NEW reverse \in BOOLEAN, NEW box,
         box \in {HoldBox(i), TwinFixedBox(command[i].rotation,
                    max_delta_rotation[i], max_delta_rotation_p2n[i],
                    max_rotation[i], reverse)},
         NEW e \in PlainCommands(i, box)
  PROVE  Sound(i, e) /\ Gentle(i, command[i], e)
<1> DEFINE n == command[i].rotation
           a == command[i].angle
           d == max_delta_rotation[i]
           p == max_delta_rotation_p2n[i]
           top == max_rotation[i]
<1>1. /\ i \in Thrusters /\ i \notin Rudders /\ i \notin Tunnels
      /\ i \notin Azimuths
  BY Partition
<1>2. /\ n \in Int /\ a \in {0, 180} /\ n # 0
      /\ n < 0 <=> a = 180
      /\ Abs(n) <= top
  BY <1>1 DEF Sound
<1>3. /\ d \in Nat \ {0} /\ p \in Nat \ {0} /\ top \in Nat \ {0}
      /\ p <= d /\ d + p <= top
  BY <1>1, Config, ConfigAssumption
<1>4. PICK t \in box.turns, k \in Truncated(box) :
        e = [rotation |-> Rotation(i, a + t, k), angle |-> a + t]
  BY DEF PlainCommands
<1>5. /\ k \in Int /\ t \in {0, 180, -180}
      /\ t = 180 => n > 0
      /\ t = -180 => n < 0
      /\ k <= top
      /\ t # 0 => Abs(n) + Larger(k, 1) <= p
      /\ t = 0 => Abs(Larger(k, 1) - Abs(n)) <= d + 1
  <2>1. CASE box = HoldBox(i)
    BY <2>1, <1>2, <1>3 DEF HoldBox, Box, Truncated, Abs, Larger
  <2>2. CASE box = TwinFixedBox(n, d, p, top, reverse)
    <3> HIDE DEF n, d, p, top
    <3> QED
      BY <2>2, <1>2, <1>3, TwinBoxBounds
  <2> QED
    BY <2>1, <2>2
<1>6. /\ e.angle = a + t
      /\ e.rotation = IF a + t > 90 THEN -Larger(k, 1) ELSE Larger(k, 1)
  BY <1>1, <1>4 DEF Rotation
<1>7. /\ e.angle \in {0, 180} /\ e.rotation \in Int /\ e.rotation # 0
      /\ e.rotation < 0 <=> e.angle = 180
      /\ Abs(e.rotation) = Larger(k, 1)
  BY <1>2, <1>5, <1>6 DEF Larger, Abs
<1>8. e \in [rotation : Int, angle : Int]
  BY <1>4, <1>6, <1>7
<1>9. Abs(e.rotation) <= top
  BY <1>3, <1>5, <1>7 DEF Larger
<1>10. (n < 0) # (e.rotation < 0) => Abs(n) + Abs(e.rotation) <= p
  BY <1>2, <1>5, <1>6, <1>7 DEF Larger, Abs
<1>11. Abs(e.rotation - n) <= d + 1
  BY <1>2, <1>3, <1>5, <1>6, <1>7 DEF Larger, Abs
<1> QED
  BY <1>1, <1>7, <1>8, <1>9, <1>10, <1>11 DEF Sound, Gentle

\* The box of an azimuth thruster or a rudder: the angle stays in its sector
\* and moves by one increment at most, the rotation is bounded both ways.
LEMMA SteeredBoxBounds ==
  ASSUME NEW i \in Azimuths \cup Rudders, Sound(i, command[i]),
         NEW box, box \in {HoldBox(i), AzimuthBox(i)},
         NEW t \in box.turns
  PROVE  LET n == command[i].rotation
             a == command[i].angle
         IN  /\ t \in Int /\ box.lo \in Int /\ box.hi \in Int
             /\ 0 <= box.lo /\ 0 <= box.hi
             /\ min_angle[i] <= a + t /\ a + t <= max_angle[i]
             /\ Abs(t) <= max_delta_angle[i]
             /\ n - max_delta_rotation[i] <= box.lo
             /\ box.hi <= n + max_delta_rotation[i]
             /\ n <= max_rotation[i] => box.hi <= max_rotation[i]
<1> DEFINE n == command[i].rotation
           a == command[i].angle
<1>1. i \in Thrusters /\ i \notin Tunnels /\ i \notin Twins
  BY Partition
<1>2. /\ n \in Int /\ a \in Int /\ n >= min_rotation[i]
      /\ min_angle[i] <= a /\ a <= max_angle[i]
  BY <1>1 DEF Sound
<1>3. /\ max_delta_rotation[i] \in Nat \ {0} /\ max_delta_angle[i] \in Nat
      /\ max_rotation[i] \in Nat \ {0} /\ min_rotation[i] \in Nat \ {0}
      /\ max_angle[i] \in Int /\ min_angle[i] \in Int
      /\ min_rotation[i] <= max_rotation[i]
  BY <1>1, Config, ConfigAssumption
<1>4. CASE box = HoldBox(i)
  BY <1>2, <1>3, <1>4 DEF HoldBox, Box, Abs
<1>5. CASE box = AzimuthBox(i)
  <2>1. box.turns = Turns(i)
    BY <1>5 DEF AzimuthBox, Box
  <2>2. /\ t \in Int /\ Abs(t) <= max_delta_angle[i]
        /\ min_angle[i] <= a + t /\ a + t <= max_angle[i]
    BY <2>1, <1>2, <1>3 DEF Turns, Larger, Smaller, Abs
  <2>3. /\ box.lo = IF n < max_delta_rotation[i] THEN min_rotation[i]
                    ELSE Larger(n - max_delta_rotation[i], min_rotation[i])
        /\ box.hi = Smaller(max_rotation[i], n + max_delta_rotation[i])
    BY <1>5 DEF AzimuthBox, Box
  <2> QED
    BY <2>2, <2>3, <1>2, <1>3 DEF Larger, Smaller
<1> QED
  BY <1>4, <1>5

\* Azimuth: the rotation is the truncated one, raised to its minimum.
LEMMA AzimuthStep ==
  ASSUME NEW i \in Azimuths, Sound(i, command[i]),
         NEW box, box \in {HoldBox(i), AzimuthBox(i)},
         NEW e \in PlainCommands(i, box)
  PROVE  Sound(i, e) /\ Gentle(i, command[i], e)
<1> DEFINE n == command[i].rotation
           a == command[i].angle
<1>1. i \in Thrusters /\ i \notin Tunnels /\ i \notin Twins /\ i \notin Rudders
  BY Partition
<1>2. /\ n \in Int /\ a \in Int /\ n >= min_rotation[i]
      /\ Abs(n) <= max_rotation[i]
  BY <1>1 DEF Sound
<1>3. /\ max_delta_rotation[i] \in Nat \ {0} /\ max_rotation[i] \in Nat \ {0}
      /\ min_rotation[i] \in Nat \ {0} /\ min_rotation[i] <= max_rotation[i]
      /\ max_angle[i] \in Int /\ min_angle[i] \in Int
      /\ max_delta_angle[i] \in Nat
  BY <1>1, Config, ConfigAssumption
<1>4. PICK t \in box.turns, k \in Truncated(box) :
        e = [rotation |-> Rotation(i, a + t, k), angle |-> a + t]
  BY DEF PlainCommands
<1>5. /\ t \in Int /\ box.lo \in Int /\ box.hi \in Int
      /\ min_angle[i] <= a + t /\ a + t <= max_angle[i]
      /\ Abs(t) <= max_delta_angle[i]
      /\ n - max_delta_rotation[i] <= box.lo
      /\ box.hi <= n + max_delta_rotation[i]
      /\ n <= max_rotation[i] => box.hi <= max_rotation[i]
  BY SteeredBoxBounds
<1>6. k \in Int /\ box.lo - 1 <= k /\ k <= box.hi
  BY <1>5 DEF Truncated
<1>7. e.angle = a + t /\ e.rotation = Larger(k, min_rotation[i])
  BY <1>1, <1>4 DEF Rotation
<1>8. e \in [rotation : Int, angle : Int]
  BY <1>2, <1>3, <1>4, <1>5, <1>6, <1>7 DEF Larger
<1>9. /\ Abs(e.rotation) <= max_rotation[i]
      /\ e.rotation >= min_rotation[i]
      /\ Abs(e.rotation - n) <= max_delta_rotation[i] + 1
  BY <1>2, <1>3, <1>5, <1>6, <1>7 DEF Larger, Abs
<1>10. Abs(e.angle - a) <= max_delta_angle[i]
  BY <1>2, <1>5, <1>7 DEF Abs
<1> QED
  BY <1>1, <1>5, <1>7, <1>8, <1>9, <1>10 DEF Sound, Gentle

\* Rudder: the angle and the minimum, but no bound on the rotation.
LEMMA RudderStep ==
  ASSUME NEW i \in Rudders, Sound(i, command[i]),
         NEW box, box \in {HoldBox(i), RudderBox(i)},
         NEW e \in RudderCommands(i, box)
  PROVE  Sound(i, e) /\ Gentle(i, command[i], e)
<1> DEFINE a == command[i].angle
<1>1. i \in Thrusters /\ i \notin Tunnels /\ i \notin Twins
      /\ i \notin Azimuths
  BY Partition
<1>2. a \in Int
  BY <1>1 DEF Sound
<1>3. min_rotation[i] \in Nat \ {0} /\ max_delta_angle[i] \in Nat
      /\ max_rotation[i] \in Nat
  BY <1>1, Config
<1>4. PICK tk \in box.turns \X (0 .. 2 * max_rotation[i]) :
        e = [rotation |-> Rotation(i, a + tk[1], tk[2]), angle |-> a + tk[1]]
  BY DEF RudderCommands
<1>5. /\ tk[1] \in Int /\ min_angle[i] <= a + tk[1]
      /\ a + tk[1] <= max_angle[i] /\ Abs(tk[1]) <= max_delta_angle[i]
  BY <1>4, SteeredBoxBounds DEF RudderBox
<1>6. tk[2] \in Int
  BY <1>3, <1>4
<1>7. e.angle = a + tk[1] /\ e.rotation = Larger(tk[2], min_rotation[i])
  BY <1>1, <1>4 DEF Rotation
<1>8. /\ e \in [rotation : Int, angle : Int]
      /\ e.rotation >= min_rotation[i]
      /\ Abs(e.angle - a) <= max_delta_angle[i]
  BY <1>2, <1>3, <1>4, <1>5, <1>6, <1>7 DEF Larger, Abs
<1> QED
  BY <1>1, <1>5, <1>7, <1>8 DEF Sound, Gentle

\* Every command of the box of a thruster, or of a held step, is sound and
\* gentle.
LEMMA CommandStep ==
  ASSUME NEW i \in Thrusters, Sound(i, command[i]),
         NEW fx \in Int, NEW mz \in Int,
         NEW box, box \in {HoldBox(i), BoxOf(i, fx, mz)},
         NEW e \in Commands(i, box)
  PROVE  Sound(i, e) /\ Gentle(i, command[i], e)
<1>1. CASE i \in Tunnels
  <2>1. i \notin Rudders
    BY <1>1, Partition
  <2> DEFINE positive == mz > 0
  <2>2. BoxOf(i, fx, mz) = TunnelBox(command[i].rotation,
          max_delta_rotation[i], max_rotation[i], positive)
    BY <1>1, Partition DEF BoxOf
  <2>3. positive \in BOOLEAN
    BY SMT
  <2> HIDE DEF positive
  <2> QED
    BY <1>1, <2>1, <2>2, <2>3, TunnelStep DEF Commands
<1>2. CASE i \in Azimuths
  <2>1. i \notin Rudders /\ i \notin Tunnels
    BY <1>2, Partition
  <2>2. BoxOf(i, fx, mz) = AzimuthBox(i)
    BY <1>2, <2>1 DEF BoxOf
  <2> QED
    BY <1>2, <2>1, <2>2, AzimuthStep DEF Commands
<1>3. CASE i \in Rudders
  <2>1. i \notin Azimuths /\ i \notin Tunnels
    BY <1>3, Partition
  <2>2. BoxOf(i, fx, mz) = RudderBox(i)
    BY <1>3, <2>1 DEF BoxOf
  <2> QED
    BY <1>3, <2>2, RudderStep DEF Commands
<1>4. CASE i \in Twins
  <2>1. i \notin Azimuths /\ i \notin Tunnels /\ i \notin Rudders
    BY <1>4, Partition
  <2> DEFINE reverse == DesiredThrustIsNegative(i - (m - 1), fx, mz)
  <2>2. BoxOf(i, fx, mz) = TwinFixedBox(command[i].rotation,
          max_delta_rotation[i], max_delta_rotation_p2n[i], max_rotation[i],
          reverse)
    BY <1>4, <2>1 DEF BoxOf
  <2>3. reverse \in BOOLEAN
    <3>1. \A x : (x < 0) \in BOOLEAN /\ (x > 0) \in BOOLEAN
      BY SMT
    <3> QED
      BY <3>1, Zenon DEF DesiredThrustIsNegative
  <2> HIDE DEF reverse
  <2> QED
    BY <1>4, <2>1, <2>2, <2>3, TwinStep DEF Commands
<1> QED
  BY <1>1, <1>2, <1>3, <1>4, Partition

\* A held step moves nothing and speeds nothing up.
LEMMA HoldStep ==
  ASSUME NEW i \in Thrusters, Sound(i, command[i]),
         NEW e \in Commands(i, HoldBox(i))
  PROVE  Holds(command[i], e)
<1> DEFINE n == command[i].rotation
           a == command[i].angle
<1>1. /\ HoldBox(i).turns = {0} /\ HoldBox(i).lo = Abs(n)
      /\ HoldBox(i).hi = Abs(n) /\ n \in Int /\ a \in Int
  BY DEF HoldBox, Box, Sound
<1>2. CASE i \in Rudders
  <2>1. i \in Azimuths \cup Rudders /\ i \notin Tunnels /\ i \notin Twins
    BY <1>2, Partition
  <2>2. /\ min_rotation[i] \in Nat \ {0} /\ max_rotation[i] \in Nat \ {0}
        /\ n >= min_rotation[i] /\ min_angle[i] \in Int
        /\ max_angle[i] \in Int /\ min_angle[i] <= a /\ a <= max_angle[i]
    BY <2>1, Config DEF Sound
  <2>3. RudderGain[a] \in Nat \ {0}
    BY <1>1, <1>2, <2>2, ConfigAssumption
  <2>4. PICK k \in 0 .. 2 * max_rotation[i] :
          /\ e = [rotation |-> Rotation(i, a, k), angle |-> a]
          /\ k * k * RudderGain[a] <= n * n * RudderGain[a]
    BY <1>1, <1>2, <2>2 DEF Commands, RudderCommands, Abs
  <2>5. k <= n
    <3>1. SUFFICES ASSUME k > n PROVE FALSE
      BY <1>1, <2>2, <2>4
    <3>2. k * k > n * n
      BY <1>1, <2>2, <2>4, <3>1
    <3>3. (k * k) * RudderGain[a] > (n * n) * RudderGain[a]
      <4> DEFINE x == k * k
                 y == n * n
                 g == RudderGain[a]
      <4>1. x \in Int /\ y \in Int /\ x > y /\ g \in Int /\ g > 0
        BY <1>1, <2>2, <2>3, <2>4, <3>2
      <4> HIDE DEF x, y, g
      <4>2. x * g > y * g
        BY <4>1
      <4> QED
        BY <4>2 DEF x, y, g
    <3> QED
      BY <1>1, <2>2, <2>3, <2>4, <3>3
  <2>6. e.angle = a /\ e.rotation = Larger(k, min_rotation[i])
    BY <2>1, <2>4 DEF Rotation
  <2> QED
    BY <1>1, <2>2, <2>4, <2>5, <2>6 DEF Holds, Larger, Abs
<1>3. CASE i \notin Rudders
  <2>1. PICK k \in Truncated(HoldBox(i)) :
          e = [rotation |-> Rotation(i, a, k), angle |-> a]
    BY <1>1, <1>3 DEF Commands, PlainCommands
  <2>2. k \in Int /\ k <= Abs(n)
    BY <1>1 DEF Truncated, Abs
  <2>3. CASE i \in Tunnels
    BY <1>1, <2>1, <2>2, <2>3, Partition DEF Sound, Rotation, Holds, Larger, Abs
  <2>4. CASE i \in Twins
    BY <1>1, <2>1, <2>2, <2>4, Partition DEF Sound, Rotation, Holds, Larger, Abs
  <2>5. CASE i \in Azimuths
    BY <1>1, <2>1, <2>2, <2>5, Partition, Config
      DEF Sound, Rotation, Holds, Larger, Abs
  <2> QED
    BY <1>3, <2>3, <2>4, <2>5, Partition
<1> QED
  BY <1>2, <1>3

-----------------------------------------------------------------------------
(* The whole allocation.                                                   *)

\* One step of the allocation, thruster by thruster; a step that does not ask
\* the solver, or gets no solution from it, holds every thruster.
LEMMA AllocationStep ==
  ASSUME IInv, NEW fx \in Int, NEW mz \in Int, onestepthrustallocation(fx, mz)
  PROVE  /\ IInv'
         /\ \A i \in Thrusters : Gentle(i, command[i], command'[i])
         /\ solver = "FAILED" =>
              /\ solver' = "FAILED"
              /\ \A i \in Thrusters : Holds(command[i], command'[i])
<1> DEFINE Safe == /\ command' = [i \in Thrusters |-> command'[i]]
                   /\ \A i \in Thrusters :
                        Sound(i, command'[i]) /\ Gentle(i, command[i], command'[i])
<1>1. ASSUME Hold
      PROVE  Safe /\ \A i \in Thrusters : Holds(command[i], command'[i])
  <2> DEFINE boxes == [i \in Thrusters |-> HoldBox(i)]
  <2>1. /\ command' = [i \in Thrusters |-> command'[i]]
        /\ \A i \in Thrusters : command'[i] \in Commands(i, boxes[i])
    <3>1. Solve(boxes)
      BY <1>1 DEF Hold
    <3> HIDE DEF boxes
    <3> QED
      BY <3>1, SolveCommands
  <2>2. \A i \in Thrusters : boxes[i] = HoldBox(i)
    OBVIOUS
  <2>3. ASSUME NEW i \in Thrusters
        PROVE  /\ Sound(i, command'[i]) /\ Gentle(i, command[i], command'[i])
               /\ Holds(command[i], command'[i])
    <3>1. Sound(i, command[i]) /\ command'[i] \in Commands(i, HoldBox(i))
      BY <2>1, <2>2 DEF IInv
    <3> QED
      BY <3>1, CommandStep, HoldStep
  <2> QED
    BY <2>1, <2>3
<1>2. ASSUME Solve([i \in Thrusters |-> BoxOf(i, fx, mz)])
      PROVE  Safe
  <2> DEFINE boxes == [i \in Thrusters |-> BoxOf(i, fx, mz)]
  <2>1. /\ command' = [i \in Thrusters |-> command'[i]]
        /\ \A i \in Thrusters : command'[i] \in Commands(i, boxes[i])
    <3>1. Solve(boxes)
      BY <1>2
    <3> HIDE DEF boxes
    <3> QED
      BY <3>1, SolveCommands
  <2>2. \A i \in Thrusters : boxes[i] = BoxOf(i, fx, mz)
    OBVIOUS
  <2>3. ASSUME NEW i \in Thrusters
        PROVE  Sound(i, command'[i]) /\ Gentle(i, command[i], command'[i])
    <3>1. Sound(i, command[i]) /\ command'[i] \in Commands(i, BoxOf(i, fx, mz))
      BY <2>1, <2>2 DEF IInv
    <3> QED
      BY <3>1, CommandStep
  <2> QED
    BY <2>1, <2>3
<1>3. Safe => /\ command' \in [Thrusters -> [rotation : Int, angle : Int]]
              /\ \A i \in Thrusters : Sound(i, command[i])'
  BY DEF Sound
<1>4. CASE Optimal(fx, mz)
  BY <1>2, <1>3, <1>4 DEF Optimal, IInv
<1>5. CASE NoSolution
  BY <1>1, <1>3, <1>5 DEF NoSolution, IInv
<1>6. CASE SolverError
  BY <1>1, <1>3, <1>6 DEF SolverError, IInv
<1>7. CASE Skipped
  BY <1>1, <1>3, <1>7 DEF Skipped, IInv
<1> QED
  BY <1>4, <1>5, <1>6, <1>7 DEF onestepthrustallocation

\* initializapropeller commands every thruster soundly.
LEMMA InitSound == Init => IInv
<1> SUFFICES ASSUME Init PROVE IInv
  OBVIOUS
<1>1. ASSUME NEW i \in Thrusters
      PROVE  Sound(i, initializapropeller(i))
  <2>1. CASE i \in Tunnels
    BY <2>1, Partition, ConfigAssumption DEF initializapropeller, Sound, Abs
  <2>2. CASE i \in Azimuths
    <3>1. /\ min_angle[i] \in Int /\ max_angle[i] \in Int
          /\ min_angle[i] <= max_angle[i]
          /\ min_rotation[i] \in Nat /\ max_rotation[i] \in Nat
          /\ min_rotation[i] <= max_rotation[i]
      BY <2>2, Config, ConfigAssumption
    <3>2. /\ MiddleAngle(i) \in Int /\ min_angle[i] <= MiddleAngle(i)
          /\ MiddleAngle(i) <= max_angle[i]
      BY <3>1 DEF MiddleAngle
    <3>3. initializapropeller(i)
            = [rotation |-> min_rotation[i], angle |-> MiddleAngle(i)]
      BY <2>2, Partition DEF initializapropeller
    <3> HIDE DEF MiddleAngle
    <3> QED
      BY <2>2, <3>1, <3>2, <3>3, Partition DEF Sound, Abs
  <2>3. CASE i \in Rudders
    <3>1. initializapropeller(i) = [rotation |-> min_rotation[i], angle |-> 0]
      BY <2>3, Partition DEF initializapropeller
    <3> QED
      BY <2>3, <3>1, Partition, Config, ConfigAssumption DEF Sound
  <2>4. CASE i \in Twins
    <3>1. initializapropeller(i) = [rotation |-> 1, angle |-> 0]
      BY <2>4, Partition DEF initializapropeller
    <3> QED
      BY <2>4, <3>1, Partition, Config DEF Sound, Abs
  <2> QED
    BY <2>1, <2>2, <2>3, <2>4, Partition
<1>2. \A i \in Thrusters : initializapropeller(i) \in [rotation : Int, angle : Int]
  BY <1>1 DEF Sound
<1>3. /\ command = [i \in Thrusters |-> initializapropeller(i)]
      /\ solver \in {"OK", "FAILED"}
  BY DEF Init
<1> QED
  BY <1>1, <1>2, <1>3 DEF IInv

\* The inductive invariant.
THEOREM Inductive == Spec => []IInv
<1>1. IInv /\ [Next]_vars => IInv'
  <2> SUFFICES ASSUME IInv, [Next]_vars PROVE IInv'
    OBVIOUS
  <2>1. CASE Next
    BY <2>1, AllocationStep, ForceAssumption DEF Next
  <2>2. CASE UNCHANGED vars
    BY <2>2 DEF vars, IInv, Sound
  <2> QED
    BY <2>1, <2>2
<1> QED
  BY <1>1, InitSound, PTL DEF Spec

\* Rotations and angles are integers for every configuration of thrusters: the
\* conversion of calculaterotation and convert_alpha_radian2int is total.
THEOREM TypeCorrect == Spec => []TypeOK
<1>1. IInv => TypeOK
  BY DEF IInv, TypeOK
<1> QED
  BY <1>1, Inductive, PTL

\* A propeller turns astern exactly when its angle says so, and is never
\* commanded to stand still.
THEOREM SignCorrect == Spec => []SignAgreesWithAngle
<1>1. IInv => SignAgreesWithAngle
  BY Partition DEF IInv, Sound, SignAgreesWithAngle
<1> QED
  BY <1>1, Inductive, PTL

\* Rotations and angles respect their limits, although most cases of the boxes
\* are not capped: it is the configuration assumption that closes the gap.
THEOREM LimitsCorrect == Spec => []WithinLimits
<1>1. IInv => WithinLimits
  BY Partition DEF IInv, Sound, WithinLimits
<1> QED
  BY <1>1, Inductive, PTL

\* A propeller reverses only near standstill: for a twin the two speeds together
\* stay inside the band, for a tunnel thruster within one increment.
THEOREM ReversalsCorrect == Spec => ReversesOnlyNearStandstill
<1> DEFINE Slow == /\ \A i \in Twins : Reverses(i) =>
                        Abs(command[i].rotation) + Abs(command'[i].rotation)
                          <= max_delta_rotation_p2n[i]
                   /\ \A i \in Tunnels : Reverses(i) =>
                        Abs(command[i].rotation) + Abs(command'[i].rotation)
                          <= max_delta_rotation[i] + 1
<1>1. IInv /\ [Next]_vars => [Slow]_vars
  <2> SUFFICES ASSUME IInv, Next PROVE Slow
    OBVIOUS
  <2> QED
    BY AllocationStep, ForceAssumption, Partition DEF Next, Gentle, Reverses
<1> QED
  BY <1>1, Inductive, PTL DEF Spec, ReversesOnlyNearStandstill

\* No step, reversal or not, moves a rotation or an angle by more than its
\* increment.
THEOREM SlewCorrect == Spec => SlewRateLimited
<1> DEFINE Slow == /\ \A i \in Thrusters \ Rudders :
                        Abs(command'[i].rotation - command[i].rotation)
                          <= max_delta_rotation[i] + 1
                   /\ \A i \in Azimuths \cup Rudders :
                        Abs(command'[i].angle - command[i].angle)
                          <= max_delta_angle[i]
<1>1. IInv /\ [Next]_vars => [Slow]_vars
  <2> SUFFICES ASSUME IInv, Next PROVE Slow
    OBVIOUS
  <2> QED
    BY AllocationStep, ForceAssumption, Partition DEF Next, Gentle
<1> QED
  BY <1>1, Inductive, PTL DEF Spec, SlewRateLimited

\* Once a Mosek call has failed, no later step turns, reverses or speeds up any
\* propeller.
THEOREM FrozenCorrect == Spec => FrozenAfterSolverError
<1> DEFINE Frozen == solver = "FAILED" =>
      /\ solver' = "FAILED"
      /\ \A i \in Thrusters :
           /\ command'[i].angle = command[i].angle
           /\ ~ Reverses(i)
           /\ Abs(command'[i].rotation) <= Abs(command[i].rotation)
<1>1. IInv /\ [Next]_vars => [Frozen]_vars
  <2> SUFFICES ASSUME IInv, Next PROVE Frozen
    OBVIOUS
  <2> QED
    BY AllocationStep, ForceAssumption DEF Next, Holds, Reverses
<1> QED
  BY <1>1, Inductive, PTL DEF Spec, FrozenAfterSolverError
=============================================================================
