---------------------------- MODULE ControlLoop ----------------------------
(***************************************************************************)
(* The controller and the estimator thread of the simulation               *)
(* (examples/simu/utest/include/threadloop.h, SIMULATION_DP) and the two   *)
(* structs through which they meet, tracker_RTdata and estimator_RTdata,   *)
(* that nothing protects.                                                  *)
(*                                                                         *)
(* A vector is its parts: the position and the heading, which are read and *)
(* written one at a time and in any order, as its copies are compiled.     *)
(* The target is constant: what matters about a setpoint is whether it is  *)
(* still the origin the struct starts with, and about an error whether it  *)
(* was computed from the target alone.  The speed is left out, because     *)
(* v_setpoint is always zero.                                              *)
(***************************************************************************)
EXTENDS Naturals, Sequences

CONSTANT L  \* length of the integral window of the controller

ASSUME LengthAssumption == L \in Nat \ {0}

Parts == {"position", "heading"}
Bases == {"none", "stale", "target"}

VARIABLES
  setpoint,  \* tracker_RTdata.setpoint: "origin" or "target", per part
  p_error,   \* estimator_RTdata.p_error: what it was computed from, per part
  cpc,       \* where the controller is
  ctodo,     \* parts that it has still to copy there
  window,    \* positionerror_integralmatrix, oldest column first
  column,    \* the next column of it
  read,      \* what the controller has read of p_error in this step
  tau,       \* what the force published last was computed from
  epc,       \* where the estimator is
  etodo,     \* parts that it has still to copy there
  frame,     \* the heading that the coordinate transform depends on
  seen,      \* the setpoint as estimateerror reads it
  late,      \* history: errors published although the target was there before
             \* that were not computed from it alone
  settled    \* history: steps of the controller since p_error is

shared == <<setpoint, p_error>>
cvars == <<cpc, ctodo, window, column, read, tau, settled>>
evars == <<epc, etodo, frame, seen, late>>
vars == <<shared, cvars, evars>>

All(x) == [p \in Parts |-> x]

-----------------------------------------------------------------------------
(* The estimator's first publication, before its loop, changes only State. *)

Init ==
  /\ setpoint = All("origin") /\ p_error = All("none")
  /\ cpc = "set" /\ ctodo = Parts
  /\ window = [i \in 1 .. L |-> All("none")] /\ column = All("none")
  /\ read = {} /\ tau = {"none"} /\ settled = 0
  /\ epc = "estimatestate" /\ etodo = Parts
  /\ frame = "origin" /\ seen = All("origin") /\ late = 0

-----------------------------------------------------------------------------
(* The controller.                                                         *)

\* Part p is copied; after the last one the thread goes on at next.
CopyInController(p, next) ==
  /\ p \in ctodo
  /\ ctodo' = IF ctodo = {p} THEN Parts ELSE ctodo \ {p}
  /\ cpc' = IF ctodo = {p} THEN next ELSE cpc

\* Seeded fault: the setpoint is cleared before it is written.
SetTargetFromZero(p) ==
  /\ cpc = "set" /\ CopyInController(p, "integrate")
  /\ setpoint' = [All("origin") EXCEPT ![p] = "target"]
  /\ UNCHANGED <<p_error, window, column, read, tau, settled, evars>>

\* tracker_RTdata.setpoint = targetposition, in every step.
SetTarget(p) ==
  /\ cpc = "set" /\ CopyInController(p, "integrate")
  /\ setpoint' = [setpoint EXCEPT ![p] = "target"]
  /\ UNCHANGED <<p_error, window, column, read, tau, settled, evars>>

\* Seeded fault: the columns are not moved, the newest replaces the last.
MovedNot(new) == [window EXCEPT ![L] = new]

\* Seeded fault: the oldest column is kept.
MovedUntrimmed(new) == Append(window, new)

\* The columns of the window move up and the new one comes last.
Moved(new) == Append(Tail(window), new)

\* updatepositionIntegralMatrix.  _error is a reference to the shared p_error.
Integrate(p) ==
  /\ cpc = "integrate" /\ CopyInController(p, "compare")
  /\ column' = [column EXCEPT ![p] = p_error[p]]
  /\ window' = IF ctodo = {p} THEN Moved(column') ELSE window
  /\ settled' = IF ctodo = Parts /\ p_error = All("target") /\ settled < L
                THEN settled + 1 ELSE settled
  /\ UNCHANGED <<shared, read, tau, evars>>

\* comparepositionerror and then the proportional terms read it again.
Compare(p) ==
  /\ cpc = "compare" /\ CopyInController(p, "multiply")
  /\ read' = read \cup {p_error[p]}
  /\ UNCHANGED <<shared, window, column, tau, settled, evars>>

Multiply(p) ==
  /\ cpc = "multiply" /\ CopyInController(p, "publish")
  /\ read' = read \cup {p_error[p]}
  /\ UNCHANGED <<shared, window, column, tau, settled, evars>>

\* controller_RTdata = controlleronestep(...).getcontrollerRTdata(), and sleep.
PublishForce ==
  /\ cpc = "publish"
  /\ tau' = read \cup UNION {{window[i][p] : p \in Parts} : i \in 1 .. L}
  /\ read' = {}
  /\ cpc' = "set"
  /\ UNCHANGED <<shared, ctodo, window, column, settled, evars>>

controllerloop ==
  \/ \E p \in Parts : SetTarget(p) \/ Integrate(p) \/ Compare(p) \/ Multiply(p)
  \/ PublishForce

-----------------------------------------------------------------------------
(* The estimator.                                                          *)

CopyInEstimator(p, next) ==
  /\ p \in etodo
  /\ etodo' = IF etodo = {p} THEN Parts ELSE etodo \ {p}
  /\ epc' = IF etodo = {p} THEN next ELSE epc

\* Seeded fault: the heading is the one estimateerror read the last time.
estimatestateLagging ==
  /\ epc = "estimatestate"
  /\ frame' = seen["heading"]
  /\ epc' = "estimateerror"
  /\ UNCHANGED <<shared, cvars, etodo, seen, late>>

\* Within five degrees of the desired heading the transform is made from it.
estimatestate ==
  /\ epc = "estimatestate"
  /\ frame' = setpoint["heading"]
  /\ epc' = "estimateerror"
  /\ UNCHANGED <<shared, cvars, etodo, seen, late>>

estimateerror(p) ==
  /\ epc = "estimateerror" /\ CopyInEstimator(p, "publish")
  /\ seen' = [seen EXCEPT ![p] = setpoint[p]]
  /\ UNCHANGED <<shared, cvars, frame, late>>

\* Seeded fault: what was published once is not computed again.
BasisOnce(p) == IF p_error[p] = "none" THEN "stale" ELSE p_error[p]

\* The position error is turned by the transform.
Basis(p) ==
  IF seen[p] = "target" /\ (p = "position" => frame = "target")
  THEN "target" ELSE "stale"


\* estimator_RTdata = ...getEstimatorRTData(), and sleep.
PublishError(p) ==
  /\ epc = "publish" /\ CopyInEstimator(p, "estimatestate")
  /\ p_error' = [p_error EXCEPT ![p] = Basis(p)]
  /\ late' = IF /\ etodo = {p} /\ late < 2 /\ setpoint = All("target")
                /\ \E q \in Parts : Basis(q) = "stale"
             THEN late + 1 ELSE late
  /\ UNCHANGED <<setpoint, cvars, frame, seen>>

estimatorloop ==
  \/ estimatestate
  \/ \E p \in Parts : estimateerror(p) \/ PublishError(p)

Next == controllerloop \/ estimatorloop

\* Each thread is scheduled: both loops sleep and wake up for ever.
Spec == Init /\ [][Next]_vars /\ WF_vars(controllerloop) /\ WF_vars(estimatorloop)

-----------------------------------------------------------------------------
(* Properties.                                                             *)

TypeOK ==
  /\ setpoint \in [Parts -> {"origin", "target"}]
  /\ p_error \in [Parts -> Bases] /\ column \in [Parts -> Bases]
  /\ window \in [1 .. L -> [Parts -> Bases]]
  /\ read \subseteq Bases /\ tau \subseteq Bases
  /\ cpc \in {"set", "integrate", "compare", "multiply", "publish"}
  /\ epc \in {"estimatestate", "estimateerror", "publish"}
  /\ ctodo \subseteq Parts /\ etodo \subseteq Parts
  /\ frame \in {"origin", "target"} /\ seen \in [Parts -> {"origin", "target"}]
  /\ late \in 0 .. 2 /\ settled \in 0 .. L

\* However the threads are interleaved, and although estimator and controller
\* start in any order, the vessel is steered relative to the origin by at most
\* one publication of the estimator after the setpoint was written.
OneLateError == late <= 1

\* An error that refers to the target is never replaced by one that does not,
\* although the controller writes the setpoint anew in every step while the
\* estimator reads it.
ErrorsStayOnTarget ==
  [][\A p \in Parts : p_error[p] = "target" => p_error'[p] = "target"]_vars

\* Once L steps of the controller have begun with an error that refers to the
\* target, nothing of the start-up is left in the force: neither in the integral
\* window nor through the error that is read three times in a step.
WindowForgetsStart == settled = L /\ cpc = "set" => tau = {"target"}

\* The force is eventually, and from then on, computed from the target alone.
EventuallyOnTarget == <>[](tau = {"target"})
=============================================================================
