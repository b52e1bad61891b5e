# A verification of MultiVesselControl

MultiVesselControl is the control software of small autonomous vessels: sensors
and an estimator, a tracker and planners, a controller with thrust allocation,
links to the hardware, and a simulation that runs the loops in threads.  This
directory models the parts of it whose correctness depends on state: what
sequences of calls, frames and thread switches can do to them.  The models are
checked with TLC on small instances, and the main safety properties of all
of them are proved with TLAPS for every value of their constants.

## The system

| component | source | state | operations | hard to get right |
| --- | --- | --- | --- | --- |
| threads of the simulation | `examples/simu/utest/include/threadloop.h` | structs shared without locks | `controllerloop`, `estimatorloop`, `sqlloop`, `sealoadloop` | interleaving, start-up order, overruns |
| controller | `modules/controller/include/controller.h` | integral windows, mode, command | `initializecontroller`, `controlleronestep`, `setcontrolmode` | errors that stay in the window, change of mode |
| thrust allocation | `.../thrustallocation.h` | command and feedback of the thrusters, solver code | `initializapropeller`, `onestepthrustallocation`, `setQ` | reversal, limits, rounding, failing solver |
| trajectory tracker | `.../trajectorytracking.h` | route, index, mode, radius | `Grid_LOS`, `set_grid_points`, `FollowCircularArc` | switch of legs, new route under way |
| estimator | `modules/estimator/include/estimator.h` | state, transform, filters | `setvalue`, `estimatestate`, `estimateerror` | order of reads of the setpoint |
| open space planner | `modules/planner/path_planning/openspace/include/` | open and closed list, pool of nodes | `setup_start_end`, `perform_4dnode_search` | parents that change, ownership of nodes, cancellation |
| pool of nodes | `modules/planner/common/include/fsa.h` | two linked lists | `alloc`, `free`, `GetFirst`, `GetNext` | unlinking in any order, exhaustion |
| serial links | `modules/messages/stm32`, `.../GUILink` | counter, status | `stm32onestep`, `guicommunication` | lost frames |
| TCP server and client | `common/communication/include/` | sockets | `selectserver`, `senddata`, `reconnect` | lost peers |
| target tracking | `modules/perception/marine_radar/include/TargetTracking.h` | state of the spokes, points of a pass, slots of targets | `AutoTracking` | passes that mix or are lost, matching, duplicates, slots that run out |
| motor client | `modules/messages/PLC/Yaskawa/include/motorclient.h` | socket, serial number, feedback, positions | `startup_socket_client`, `PLCcommunication`, `TerminalPLC` | lost connections, split responses, wound-up azimuths |
| lane following, routes, filters, simulator, sensors, files | see `PROJECT.json` | | | numerical, or input and output |

The controller thread sets the setpoint in `tracker_RTdata`, reads the errors in
`estimator_RTdata` and publishes `controller_RTdata`, whose command it feeds back
as the measured state of the thrusters; the estimator thread reads the setpoint
and publishes errors.  The tracker is called by the controller thread in
`SIMULATION_LOS`.  The search calls the allocator for every node and collision
checking for every successor.  The links are called by loops of their own.

`PROJECT.json` lists every component with what is left out of it, and every
hazard at its line with the properties that cover it.

## The modules

| module | models | runs |
| --- | --- | --- |
| `ThrustAllocation` (`MCThrustAllocation`, `ThrustAllocationProofs`) | thrust allocation | `thrust`, `thrust_rudder` |
| `NodePool`, `FixedSizeAllocator` (`FixedSizeAllocatorProofs`) | the pool, and its implementation | `fsa` |
| `HybridAStarSearch` (`MCHybridAStarSearch`, `HybridAStarSearchProofs`) | the search with its driver | `astar`, `astar_movement` |
| `ControlLoop` (`ControlLoopProofs`) | controller and estimator thread | `control_loop` |
| `LosTracker` (`LosTrackerProofs`) | trajectory tracker | `los` |
| `SerialLink` (`SerialLinkProofs`) | both serial links | `link_stm32`, `link_gui` |
| `TargetTracking` (`MCTargetTracking`, `TargetTrackingProofs`) | target tracking of the radar | `target_tracking`, `target_tracking_under_way` |
| `MotorClient` (`MotorClientProofs`) | the client of the motors' PLC | `motor` |

Definitions keep the names of the source where TLA+ allows it, `map` in
`PROJECT.json` gives the lines of each.  Definitions under a comment that begins
with "Seeded fault" are not part of a specification: they are the plausible
mistakes by which each property was seen to fail.

### ThrustAllocation

`command` holds the rotation (rpm) and the angle (deg) of every thruster, as sent
to the actuators and fed back; `solver` is the Mosek return code.  A step makes
one box of increments per thruster (`TunnelBox`, `AzimuthBox`, `RudderBox`,
`TwinFixedBox` for the functions `calculateconstraints_*`), lets the solver pick
any point of it and converts that to integers (`Rotation`, for
`calculaterotation`).  The QP is abstracted to *any point of the box*: whatever
holds here holds for every weight and every force.  A thrust K n^2 is represented
by the rotation n; `Truncated` lets the conversion come out one too low, as the
truncation does for a thrust known to a tolerance.  `NoSolution`, `SolverError`
and `Skipped` are the three ways in which a step has no solution.  The calls that
set the problem up are taken to succeed but for the last, because each overwrites
the return code of the one before.

The assumptions on the constants are the assertions of the constructor, the
comments "no less than 1" of `controllerdata.h`, and relations that hold in every
configuration shipped: a tunnel thruster can reach twice its increment, a twin
thruster the sum of its two increments.

Behind a rudder, thrust is bounded with the greatest gain over the angles in reach
but converted with the gain of the angle chosen.  `thrust_rudder` shows that the
rotation exceeds `max_rotation`; `WithinLimits` and the other properties therefore
say nothing of the rotation behind a rudder, only of its angle and sign.

### FixedSizeAllocator and NodePool

Both lists with their pointers, element by element.  `NodePool` is the promise (a
set of elements that are held); `FixedSizeAllocator` implements it, as the run
checks with four elements and the proof shows for any number.  That a caller frees
only what it holds is the guard of `Next` here, and what `MemoryAccounted` shows
of the search.

### HybridAStarSearch

One action per part of `SearchStep`: giving up, reaching the goal, expanding,
trying one movement of `GetSuccessors` (`AddSuccessor`), and the four ways to deal
with a successor.  `TryRSCurve` is the rest
of the loop of `perform_4dnode_search`, which may cancel the search, and
`FreeSolutionNodes` its end.  Searches follow each other for ever, each in any
of the worlds given by `Worlds`.  A state of the vessel is a cell and the movement
that led there; `Moves` stands for `GetSuccessors`' arithmetic and `Cost` for
`cost_map`.  The tolerances of `IsSameState` are taken for an equivalence.
Nodes that are free are reset in the model, which nothing can observe.
`pending` are the movements `GetSuccessors` has still to try, `Kept` is what it
leaves out (collisions, and the way back).  `Followed` is the loop over links, along
parents to the start or along children to the goal, for at most as many steps as
there are nodes.

`excuses` is a history variable: it records that a search was cancelled or ran out
of nodes, the only reasons for which it may fail while a way exists.  That the
pool can run out unnoticed, because `GetSuccessors` ignores what `AddSuccessor`
returns, is part of the model: `FailureMeansUnreachable` needs the excuse.

`SolutionIsShortest` speaks of worlds where every movement costs the same and the
heuristic is admissible (`EvenWorld`): from a cell from which k movements lead to the
goal, it is at most k times the cost of one.  It may be inconsistent, and far more
than the cost of one movement in a cell far away, so that closed nodes are reopened.
The code is in such a world where the penalties of `cost_map` are one, as movements
then cost their length and `GoalDistanceEstimate` is the length of the shortest
Reeds-Shepp curve of the least radius; that curve leads to the goal itself and a
search ends within `IsGoal`'s tolerance of it, which is abstracted away.  With other
penalties nothing is claimed about the length of a solution.

### ControlLoop

The two threads of `SIMULATION_DP`.  Copies of the shared structs take one step
per part (position, heading) in any order, so every torn read is there.  Values
are what they were computed from: the origin the struct starts with, or the
target.  `late` and `settled` are histories.  Fairness: each thread takes steps
for ever, as both loops do nothing but compute and sleep; `EventuallyOnTarget`
needs both.

### LosTracker

The route is its number of waypoints, the vessel its distance to each of them,
chosen anew in every step.  `v_setpoint` is the corner the speed is reduced for
and `leg` the leg the heading was computed for, so that the properties can say
whether they fit.  `reached` is a history.

### SerialLink

Counter and status of both links (`Link` chooses), and whether each frame parses.

### TargetTracking

One action per branch of `AutoTracking`: a spoke that is ignored because its
azimuth has hardly changed, one in the alarm zone, the one that leaves it, one
outside.  Azimuths are steps of the tolerance 0.008 rad; a spoke is some steps
further than the one before, none or one at the least.  Of the points that are
collected only the revolution matters (`surroundings`), and the clusters of a pass
are any positions in any order: the centres of two clusters may lie together, since
one of them may be round the other.

Positions lie on a line, in the runs in metres, and speeds are metres per `sample_time` (2.5 s),
so a target moves by its speed from one pass to the next.  `LiveMatches` leaves open
which of several candidates a target takes, since radii, which decide it together
with distance, are left out; idle slots take the detections that remain in their
order, as the code does: the idle slot that is the k-th takes the k-th detection that
is left (`CountTo`).  `Alpha` and `Beta` are the gains 0.9587 and 1.2698 that
`NormalFilter` computes, applied to the residual and rounded to a metre.  A target is
therefore not where it was seen: it keeps 0.0413 of the residual.  Since a candidate
is at most `max_acceleration` from where a target is expected, that is at most `Lag`,
which the distances in `TargetsFollowDetections` allow for.  It also means that two
targets which take one detection may end up more than `p_radius` apart, when both
stay; `TracksApart` does not speak of detections, so this hazard is covered only as
far as it says.

`RemoveDuplicateTargets` is the double loop, with the order in which its turns see
what earlier ones dropped.

`AutoTracking` passes the speed of the vessel for its position, so the model does
(`SituationAwareness`); with a vessel at rest in the origin both agree, and
`DangerIsNearVessel` holds; under way it does not.  `vessel` and `crept` are
histories.  A moving target is judged as in the code, by the way the vessel goes
until the closest approach, or keeps its intention when it does not come nearer;
what it should be is stated nowhere, and no property is about it.

### MotorClient

`exchange` is the request the client is at: the three of `resetPLC`, the two reads
of the startup, the two of `runPLC`, then a command and a read for ever.  A request
is sent (`Send`, `SendFails`), and then received (`ReceiveWrite`, `ReceiveRead`,
`RefuseRead`, `ReceiveFails`).  `resetPLC` and `runPLC` go on after a failure,
`readPLC` in the startup returns and nobody looks at what, and only
`PLCcommunication` connects anew, which ends in a NULL pointer when the connection
is refused (`crashed`).  TCP is a stream: every response is two pieces, of which
`recv` returns those that came, and what it leaves is there the next time.  The
PLC (`Answer`) and the loss of a connection (`Lose`) are external.  A connection that
is lost is "broken" when the client will hear of it from `send` or `recv`, and
"silent" when it will not: then `recv` waits for ever on a request that has gone, as
the comment at `motorclient.h:621` says, while a later `send` may be what breaks it in
the end.  Of the six azimuths one is modelled, since each has its own
`last_position`.

`motor` is the angle that the PLC last got, which is not `last_position`: that is
written before the command is sent, and a command may be lost.  `LongSwingsUnwind`
is about `motor`.  It excuses the first angle the PLC gets after one was lost
(`missed`), where the code really may send the motor more than half a turn: it stands
at 0, a command of 180 degrees is lost, and the next one of -90 is sent as 270.  The
first angle of a session is excused as well, since nothing is known of the one
before.  `missed`, `answered` and `current` are histories.

## What the runs check, and the bounds

| run | instance | why it is enough |
| --- | --- | --- |
| `thrust` | a tunnel thruster, an azimuth, two twins with limit 6, increment 3, band 2 | all eight cases of the twins' box are distinct, every rotation is a state; the kinds share nothing but the solver |
| `thrust_rudder` | a tunnel thruster, an azimuth and a rudder | a gain that differs with the angle |
| `fsa` | 4 elements | head, middle and tail of both lists exist together |
| `astar` | 7 cells, up to 3 moves each, 9 nodes, heuristics 0 or 7, obstacles; even costs of 2 with heuristics of 0, 2 or 4 | nodes are improved and reopened, the pool runs out, the goal is cut off; with even costs, too, nodes are reopened under an admissible heuristic, and not reopening them loses the shortest way |
| `control_loop` | window of 3 columns (10 in the code) | a first, an inner and a last column; how far one thread runs ahead of the other is not bounded |
| `los` | routes of 2 to 4 waypoints, two radii | first, inner and last legs; longer and shorter routes replace each other |
| `link_stm32` | the counters of the code | no bound but that of the histories |
| `target_tracking` | 3 slots, 2 detections a pass at 0 or 24 m, speeds to 50, residuals to 31, a speed floor of 2, `p_radius` and `safe_distance` 1, six steps a revolution of which two in the zone | every state of the spokes and of a target, a slot too few, duplicates, creeping spokes; residuals that alpha does not take whole (`Lag` is 1); speeds on both sides of the floor; no three targets merge |
| `target_tracking_under_way` | the same with a vessel that moves | one vessel is enough for a violation |
| `motor` | half a turn of 2 steps, 3 faults | split responses, broken and silent connections, three of any of them; an azimuth wound up to a turn and a half, angles that are lost |

Four runs show a disagreement (`findings` in `PROJECT.json`): rotation behind a
rudder, the movement of a node that got a better parent, the GUI link that is
never lost, and the radar that takes the vessel's speed for its position.

Each property of a passing run was seen to fail with a seeded fault (`mutants`).

`SearchTerminates` assumes that the one thread of the search goes on
(`WF_vars(Next)`).  `LoopRecovers` assumes that the client's thread runs and that a
PLC that is connected answers (`WF_vars(Client)`, `WF_vars(Answer)`); the second does
not keep a connection from going silent, since `Answer` needs one that is open.  It
names the two ends the code has: the crash, and a `recv` on a silent connection.  No
other run but `control_loop` needs fairness.  `CHECK_DEADLOCK FALSE` stands in
`MotorClient.cfg` alone, because a client stops that has crashed, or that is in
`recv` on a silent connection.

## What is proved

TLAPS checks, for all values of the constants that meet the assumptions:

* `ThrustAllocationProofs`: type, signs, limits, reversal near standstill, slew
  rate, and the freeze after a solver error, for any number of thrusters.  The
  invariant `IInv` adds to the sign invariant what the boxes rely on: the ranges of
  rotation and angle of each kind.  One lemma per kind bounds its box
  (`TunnelBoxBounds`, `TwinBoxBounds`, `SteeredBoxBounds`), one its step
  (`TunnelStep`, ...), and `CommandStep` and `HoldStep` put them together; the
  action properties follow from the same step lemmas.
* `FixedSizeAllocatorProofs`: the allocator implements the pool, loses nothing, and
  its iteration visits what is held.  Reachability along pointers is not inductive,
  so `IInv` says that some ordering of each list exists; `ListPush` and `ListRemove`
  show how the pointers keep it.
* `HybridAStarSearchProofs`: all seven safety properties of the search. The
  assumption is `SearchAssumption`: room for start and goal, finitely many cells,
  movements that leave their cell, costs above zero. `IInv` says who owns each
  node, that the lists are a tree with the start as its root whose steps are
  movements, that the cost falls strictly towards the root, and that, without an
  excuse, every movement from a closed node leads to a cell on the lists (its
  parent's, where it is left out as the way back). A node whose parent is changed
  is dearer than its new parent will make it, so it cannot be above it: the tree
  stays one. When the open list is empty, the closed cells are closed under
  movements (`FailureMeansUnreachable`). The links to the children agree with
  those to the parents because the nodes above and below one another are counted
  (`SolutionIsPath`). A second invariant speaks of the worlds where each movement
  costs the same: along a movement from a closed node the cost rises by at most
  one movement, so the first node on a shortest way to the goal that is not closed
  was reached by a shortest way (`OnTheWay`). As the heuristic is admissible, its f
  is at most the cost of the whole way, and what is popped has no greater f
  (`Optimal`, `SolutionIsShortest`).
* `LosTrackerProofs`: the leg exists, no waypoint is skipped, speed and heading fit
  the route.  `IInv` is their conjunction, with the types.
* `ControlLoopProofs`: type, `OneLateError`, `ErrorsStayOnTarget` and
  `WindowForgetsStart`, for a window of any length.  `IInv` has an estimator's part
  (what was read of the setpoint is still there, so what an error was computed from
  it would be computed from again; after a late publication the round has read
  nothing but the target) and a controller's part (the steps begun on target are as
  many columns at the end of the window).  Each thread's steps leave the other's
  part alone (`EstimatorUntouched`, `ControllerUntouched`).
* `SerialLinkProofs`: type, `SilenceIsNoticed` and `ConnectionIsEarned` of the STM32
  link.  `IInv` bounds the count by the failures in a row and by the good frames.
* `TargetTrackingProofs`, the passes: `PassEvaluatedOnce`, for any zone and any
  spokes that `TrackingAssumption` admits.  `PassesApart` adds where the spoke is:
  while the points of an evaluated pass are left, it is at most `MaxStep` behind the
  zone (`LeavesNearby`), too far from the zone for the next spoke to enter it
  (`StaysOutside`), so that one discards them.
* `TargetTrackingProofs`, the targets: type, `TracksApart`, `DangerIsNearVessel` and
  `TargetsFollowDetections`, for any number of slots and clusters and all limits.
  `RemoveDuplicateTargets` is recursive over the slots.  Its turns are shown to
  exist as a sequence (`TurnsExist`), and by induction over them no two targets
  left are close when the first of them has had its turn (`TurnsApart`), and near
  each target dropped one is left, at most one `p_radius` for each that was dropped
  (`TurnsLeave`): a turn either drops targets for the one it is about, or drops that
  one too and so two for twice the distance (`OneTurn`).  Idle slots and what is
  unmatched are counted (`CountOnce`, `Identified`) to show that enough slots take
  everything.  What the filter leaves of a residual within
  `max_acceleration` is at most `Lag` (`Offset`), for any such limit.  `DangerCorrect` has a hypothesis on the constant `Vessels`, that each
  vessel is where `AutoTracking` takes it to be; `TracksInductive` has none and says
  that targets are judged by that place.
* `MotorClientProofs`: type correctness with any number of faults,
  `FeedbackIsCurrent` and `LongSwingsUnwind`, the last for any division of the turn as
  well.  `LongSwingsUnwind` rests on `PositionKnown`: an angle that is not on its way
  has reached the motor or was lost, and only one is on its way at a time, reckoned
  from where the motor is (`ShorterWay`), because the client waits for a response
  after each.  `FeedbackIsCurrent` rests on `ReadsAreOwn`: a response to a read does not outlive the exchange it was asked for in, since every
  way out of it either consumes the response or closes the connection; what is left
  behind are responses to writes, which are not taken for one.  The serial number is
  not needed for it.

Recursive functions are unfolded in these proofs: the least number for which the
recursion would fail does not exist (`Least`, `Induction`, `Repeated`).

Only model-checked are the liveness properties (`SearchTerminates`,
`EventuallyOnTarget`, `LoopRecovers`), which the prover cannot reach, and the
violations.

## What is not modelled

Real arithmetic (filters, dynamics, geometry, the QP itself), input and output,
vendored libraries (Eigen, Mosek, pyclustering, easylogging, json, the radar SDK),
generated build directories, and the components listed as `not_modelled`.
In `SIMULATION_LOS` the estimator thread has no loop and the tracker is fed a
constant position; `ControlLoop` therefore keeps to `SIMULATION_DP`.

The share of the repository that is modelled is small and stays so: nearly all of
its lines are vendored (the Profinet stack, Eigen, the radar's SDK, json, the
database wrapper) or generated.  What remains of its own code and is listed as
`not_modelled` computes with real numbers, or reads and writes devices and files.
The TCP server and client are used by test programs only; `stopPLC` and
`TerminalPLC` are driven by a person; the weights `setQ` chooses cannot change what
holds for every solution in the boxes; the overrun warning of the loops only writes
a line.

## Plan

1. The search composed with `FixedSizeAllocator` in place of `NodePool`'s set.
2. Moving targets, once what the code should compare with `safe_distance` is
   settled.
