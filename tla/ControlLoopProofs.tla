------------------------- MODULE ControlLoopProofs -------------------------
(***************************************************************************)
(* The two threads of the simulation, for a window of any length.          *)
(*                                                                         *)
(* In the estimator, what has been read of the setpoint is what is there,  *)
(* or older, so that an error that refers to the target is computed from   *)
(* the target again; and when a publication was late the round after it    *)
(* has read nothing but the target.  In the controller, the steps that     *)
(* have begun with an error that refers to the target are as many columns  *)
(* at the end of the window, but for the one that is being made.           *)
(***************************************************************************)
EXTENDS ControlLoop, SequenceTheorems, TLAPS

\* What the estimator has read is still there.
SeenIsThere ==
  /\ \A p \in Parts : seen[p] = "target" => setpoint[p] = "target"
  /\ frame = "target" => setpoint["heading"] = "target"

\* What an error was computed from is what it would be computed from now.
TargetIsBasis == \A p \in Parts : p_error[p] = "target" => Basis(p) = "target"

\* The round of the estimator after a late publication.
LateOnce ==
  /\ epc = "estimatestate" => etodo = Parts
  /\ late = 1 =>
       /\ \A p \in Parts : setpoint[p] = "target"
       /\ epc # "estimatestate" => frame = "target"
       /\ epc = "estimateerror" => \A p \in Parts \ etodo : seen[p] = "target"
       /\ epc = "publish" => \A p \in Parts : seen[p] = "target"

EInv == SeenIsThere /\ TargetIsBasis /\ OneLateError /\ LateOnce

\* The last k columns of a window are computed from the target.
LastOnTarget(w, k) ==
  \A i \in 1 .. L : i > L - k => \A p \in Parts : w[i][p] = "target"

Integrating == cpc = "integrate" /\ ctodo # Parts

WindowInv ==
  /\ settled > 0 => \A p \in Parts : p_error[p] = "target"
  /\ cpc \in {"set", "integrate"} => read = {}
  /\ settled > 0 => read \subseteq {"target"}
  /\ Integrating /\ settled > 0 =>
       /\ LastOnTarget(window, settled - 1)
       /\ \A p \in Parts \ ctodo : column[p] = "target"
  /\ ~Integrating => LastOnTarget(window, settled)

IInv == TypeOK /\ EInv /\ WindowInv /\ WindowForgetsStart

-----------------------------------------------------------------------------
(* The parts of a vector, and the window.                                  *)

\* A vector of which all parts are the same.
LEMMA AllOf ==
  ASSUME NEW S, NEW v \in [Parts -> S], NEW x
  PROVE  v = All(x) <=> \A p \in Parts : v[p] = x
BY DEF All

\* The oldest column leaves the window, the others move up.
LEMMA MovedWindow ==
  ASSUME LengthAssumption, NEW S, NEW w \in [1 .. L -> S], NEW e \in S
  PROVE  /\ Append(Tail(w), e) \in [1 .. L -> S]
         /\ \A i \in 1 .. L :
              Append(Tail(w), e)[i] = IF i = L THEN e ELSE w[i + 1]
<1>1. w \in Seq(S) /\ Len(w) = L /\ w # << >>
  <2>1. w \in Seq(S)
    BY SeqDef DEF LengthAssumption
  <2>2. Len(w) = L
    BY <2>1, LenProperties DEF LengthAssumption
  <2> QED
    BY <2>1, <2>2, EmptySeq DEF LengthAssumption
<1>2. /\ Tail(w) \in Seq(S) /\ Len(Tail(w)) = L - 1
      /\ \A i \in 1 .. L - 1 : Tail(w)[i] = w[i + 1]
  BY <1>1, HeadTailProperties
<1>3. /\ Append(Tail(w), e) \in Seq(S)
      /\ Len(Append(Tail(w), e)) = L
      /\ \A i \in 1 .. L - 1 : Append(Tail(w), e)[i] = Tail(w)[i]
      /\ Append(Tail(w), e)[L] = e
  BY <1>2, AppendProperties DEF LengthAssumption
<1>4. Append(Tail(w), e) \in [1 .. L -> S]
  BY <1>3, LenProperties
<1> QED
  BY <1>2, <1>3, <1>4 DEF LengthAssumption

\* A column that refers to the target makes one more at the end.
LEMMA MovedOnTarget ==
  ASSUME LengthAssumption, NEW w \in [1 .. L -> [Parts -> Bases]],
         NEW e \in [Parts -> Bases], NEW k \in 0 .. L, k > 0,
         LastOnTarget(w, k - 1), \A p \in Parts : e[p] = "target"
  PROVE  LastOnTarget(Append(Tail(w), e), k)
<1> DEFINE new == Append(Tail(w), e)
<1>1. \A i \in 1 .. L : new[i] = IF i = L THEN e ELSE w[i + 1]
  BY MovedWindow
<1>2. ASSUME NEW i \in 1 .. L, i > L - k
      PROVE  \A p \in Parts : new[i][p] = "target"
  <2>1. CASE i = L
    BY <1>1, <2>1
  <2>2. CASE i # L
    <3>1. i + 1 \in 1 .. L /\ i + 1 > L - (k - 1)
      BY <1>2, <2>2 DEF LengthAssumption
    <3> QED
      BY <1>1, <2>2, <3>1 DEF LastOnTarget
  <2> QED
    BY <2>1, <2>2
<1> QED
  BY <1>2 DEF LastOnTarget

\* Fewer columns at the end of the window.
LEMMA FewerOnTarget ==
  ASSUME LengthAssumption, NEW w, NEW k \in 0 .. L, NEW j \in 0 .. L, j <= k + 1,
         LastOnTarget(w, k)
  PROVE  LastOnTarget(w, j - 1)
BY DEF LengthAssumption, LastOnTarget

-----------------------------------------------------------------------------
(* The controller.                                                         *)

\* One lemma for every step: the controller copies one part of the setpoint.
LEMMA SetTargetPreserves ==
  ASSUME LengthAssumption, IInv, NEW p \in Parts, SetTarget(p)
  PROVE  IInv'
<1>1. /\ setpoint' \in [Parts -> {"origin", "target"}]
      /\ \A q \in Parts : setpoint[q] = "target" => setpoint'[q] = "target"
  BY DEF IInv, TypeOK, SetTarget
<1>2. ctodo' \subseteq Parts /\ cpc' \in {"set", "integrate"}
  BY DEF IInv, TypeOK, SetTarget, CopyInController
<1>3. TypeOK'
  BY <1>1, <1>2 DEF IInv, TypeOK, SetTarget, evars
<1>4. SeenIsThere' /\ TargetIsBasis' /\ OneLateError' /\ LateOnce'
  BY <1>1 DEF IInv, EInv, SeenIsThere, TargetIsBasis, OneLateError, LateOnce, Basis,
              SetTarget, evars, Parts
<1>5. ~Integrating /\ ~Integrating'
  BY DEF SetTarget, CopyInController, Integrating
<1>6. WindowInv' /\ WindowForgetsStart'
  BY <1>2, <1>5 DEF IInv, WindowInv, WindowForgetsStart, SetTarget, LastOnTarget
<1> QED
  BY <1>3, <1>4, <1>6 DEF IInv, EInv

\* The estimator's part of the invariant, in a step of the controller that leaves
\* the setpoint alone.
LEMMA EstimatorUntouched ==
  ASSUME EInv, UNCHANGED <<shared, evars>>
  PROVE  EInv'
BY DEF EInv, SeenIsThere, TargetIsBasis, OneLateError, LateOnce, Basis, shared, evars

\* updatepositionIntegralMatrix: one part of the error is read into the new column,
\* and after the last one the column joins the window.
LEMMA IntegratePreserves ==
  ASSUME LengthAssumption, IInv, NEW p \in Parts, Integrate(p)
  PROVE  IInv'
<1> USE LengthAssumption
<1>1. TypeOK /\ EInv /\ WindowInv
  BY DEF IInv
<1>2. column' \in [Parts -> Bases]
  BY <1>1 DEF Integrate, TypeOK
<1>3. window' \in [1 .. L -> [Parts -> Bases]]
  BY <1>1, <1>2, MovedWindow DEF Integrate, TypeOK, Moved
<1>4. settled' \in 0 .. L /\ settled <= settled' /\ settled' <= settled + 1
  BY <1>1 DEF Integrate, TypeOK, LengthAssumption
<1>5. ctodo' \subseteq Parts /\ cpc' \in {"integrate", "compare"}
  BY <1>1 DEF Integrate, CopyInController, TypeOK
<1>6. TypeOK'
  BY <1>1, <1>2, <1>3, <1>4, <1>5 DEF Integrate, TypeOK, shared, evars
<1>7. EInv'
  BY <1>1, EstimatorUntouched DEF Integrate
<1>8. settled' > 0 => \A q \in Parts : p_error[q] = "target"
  <2>1. p_error = All("target") => \A q \in Parts : p_error[q] = "target"
    BY <1>1, AllOf DEF TypeOK
  <2> QED
    BY <1>1, <2>1 DEF Integrate, WindowInv
<1>9. read = {} /\ read' = {} /\ p_error' = p_error
  BY <1>1 DEF Integrate, WindowInv, shared
<1>10. CASE ctodo = {p}
  <2>0. {p} # Parts
    BY DEF Parts
  <2>1. Integrating /\ ~Integrating' /\ settled' = settled
    BY <1>10, <2>0 DEF Integrate, Integrating, CopyInController
  <2>2. window' = Append(Tail(window), column')
    BY <1>10 DEF Integrate, Moved
  <2>3. ASSUME settled = 0 PROVE WindowInv'
    <3>1. LastOnTarget(window', 0)
      BY DEF LastOnTarget, LengthAssumption
    <3> QED
      BY <2>1, <2>3, <1>8, <1>9, <3>1 DEF WindowInv
  <2>4. ASSUME settled > 0 PROVE WindowInv'
    <3>1. \A q \in Parts : column'[q] = "target"
      BY <1>1, <1>8, <1>10, <2>1, <2>4 DEF WindowInv, Integrate, TypeOK
    <3>2. LastOnTarget(window, settled - 1)
      BY <1>1, <2>1, <2>4 DEF WindowInv
    <3>3. LastOnTarget(window', settled)
      BY <1>1, <1>2, <2>2, <2>4, <3>1, <3>2, MovedOnTarget DEF TypeOK
    <3> QED
      BY <1>8, <1>9, <2>1, <3>3 DEF WindowInv
  <2>5. settled = 0 \/ settled > 0
    BY <1>1 DEF TypeOK
  <2>6. WindowInv'
    BY <2>3, <2>4, <2>5
  <2>7. WindowForgetsStart'
    BY <1>10 DEF Integrate, CopyInController, WindowForgetsStart
  <2> QED
    BY <1>6, <1>7, <2>6, <2>7 DEF IInv
<1>11. CASE ctodo # {p}
  <2>1. /\ ctodo' = ctodo \ {p} /\ cpc' = "integrate" /\ window' = window
        /\ column' = [column EXCEPT ![p] = p_error[p]]
    BY <1>11 DEF Integrate, CopyInController
  <2>2. Integrating'
    BY <2>1 DEF Integrating
  <2>3. ASSUME settled' > 0 PROVE LastOnTarget(window, settled' - 1)
    <3>1. CASE Integrating
      <4>1. settled' = settled
        BY <3>1 DEF Integrating, Integrate
      <4> QED
        BY <1>1, <3>1, <4>1, <2>3 DEF WindowInv
    <3>2. CASE ~Integrating
      <4>1. LastOnTarget(window, settled)
        BY <1>1, <3>2 DEF WindowInv
      <4>2. settled \in 0 .. L
        BY <1>1 DEF TypeOK
      <4> QED
        BY <1>4, <4>1, <4>2, FewerOnTarget
    <3> QED
      BY <3>1, <3>2
  <2>4. ASSUME settled' > 0, NEW q \in Parts \ ctodo' PROVE column'[q] = "target"
    <3>1. CASE q = p
      BY <1>1, <1>8, <2>1, <2>4, <3>1 DEF TypeOK
    <3>2. CASE q # p
      <4>1. q \in Parts \ ctodo /\ Integrating
        BY <2>1, <2>4, <3>2 DEF Integrating, Integrate
      <4>2. settled' = settled
        BY <4>1 DEF Integrating, Integrate
      <4> QED
        BY <1>1, <2>1, <2>4, <3>2, <4>1, <4>2 DEF WindowInv, TypeOK
    <3> QED
      BY <3>1, <3>2
  <2>5. WindowInv'
    BY <1>8, <1>9, <2>1, <2>2, <2>3, <2>4 DEF WindowInv, LastOnTarget
  <2>6. WindowForgetsStart'
    BY <2>1 DEF WindowForgetsStart
  <2> QED
    BY <1>6, <1>7, <2>5, <2>6 DEF IInv
<1> QED
  BY <1>10, <1>11

\* The reads of comparepositionerror and of the proportional terms.
LEMMA ReadPreserves ==
  ASSUME LengthAssumption, IInv, NEW p \in Parts, Compare(p) \/ Multiply(p)
  PROVE  IInv'
<1>1. TypeOK /\ EInv /\ WindowInv
  BY DEF IInv
<1>2. read' = read \cup {p_error[p]} /\ read' \subseteq Bases
  BY <1>1 DEF Compare, Multiply, TypeOK
<1>3. ctodo' \subseteq Parts /\ cpc' \in {"compare", "multiply", "publish"}
  BY <1>1 DEF Compare, Multiply, CopyInController, TypeOK
<1>4. UNCHANGED <<shared, evars, window, column, tau, settled>>
  BY DEF Compare, Multiply
<1>5. TypeOK'
  BY <1>1, <1>2, <1>3, <1>4 DEF TypeOK, shared, evars
<1>6. EInv'
  BY <1>1, <1>4, EstimatorUntouched
<1>7. ~Integrating /\ ~Integrating'
  BY <1>3 DEF Compare, Multiply, Integrating
<1>8. WindowInv'
  BY <1>1, <1>2, <1>3, <1>4, <1>7 DEF WindowInv, LastOnTarget, shared
<1>9. WindowForgetsStart'
  BY <1>3 DEF WindowForgetsStart
<1> QED
  BY <1>5, <1>6, <1>8, <1>9 DEF IInv

\* A window that is all on target makes a force that is, too.
LEMMA PublishForcePreserves ==
  ASSUME LengthAssumption, IInv, PublishForce
  PROVE  IInv'
<1>1. TypeOK /\ EInv /\ WindowInv
  BY DEF IInv
<1>2. tau' \subseteq Bases
  BY <1>1 DEF PublishForce, TypeOK
<1>3. TypeOK'
  BY <1>1, <1>2 DEF PublishForce, TypeOK, shared, evars
<1>4. EInv'
  BY <1>1, EstimatorUntouched DEF PublishForce
<1>5. ~Integrating /\ ~Integrating'
  BY DEF PublishForce, Integrating
<1>6. WindowInv'
  BY <1>1, <1>5 DEF PublishForce, WindowInv, LastOnTarget, shared
<1>7. ASSUME settled = L PROVE tau' = {"target"}
  <2>1. read \subseteq {"target"}
    BY <1>1, <1>7 DEF WindowInv, LengthAssumption
  <2>2. \A i \in 1 .. L : \A p \in Parts : window[i][p] = "target"
    BY <1>1, <1>5, <1>7 DEF WindowInv, LastOnTarget, LengthAssumption
  <2>3. \A i \in 1 .. L : {window[i][p] : p \in Parts} = {"target"}
    BY <2>2 DEF Parts
  <2>4. 1 \in 1 .. L
    BY DEF LengthAssumption
  <2>5. UNION {{window[i][p] : p \in Parts} : i \in 1 .. L} = {"target"}
    BY <2>3, <2>4
  <2> QED
    BY <2>1, <2>5 DEF PublishForce
<1>8. WindowForgetsStart'
  BY <1>7 DEF PublishForce, WindowForgetsStart
<1> QED
  BY <1>3, <1>4, <1>6, <1>8 DEF IInv

-----------------------------------------------------------------------------
(* The estimator.                                                          *)

\* The controller's part of the invariant, in a step of the estimator that takes
\* nothing away from an error that refers to the target.
LEMMA ControllerUntouched ==
  ASSUME WindowInv, WindowForgetsStart, UNCHANGED cvars,
         \A p \in Parts : p_error[p] = "target" => p_error'[p] = "target"
  PROVE  WindowInv' /\ WindowForgetsStart'
<1>1. WindowForgetsStart'
  BY DEF WindowForgetsStart, cvars
<1>2. Integrating' <=> Integrating
  BY DEF Integrating, cvars
<1>3. WindowInv'
  BY <1>2 DEF WindowInv, LastOnTarget, cvars
<1> QED
  BY <1>1, <1>3

\* A new frame of the estimator.
LEMMA estimatestatePreserves ==
  ASSUME IInv, estimatestate
  PROVE  IInv'
<1>1. TypeOK /\ EInv /\ WindowInv /\ WindowForgetsStart
  BY DEF IInv
<1>2. TypeOK'
  BY <1>1 DEF TypeOK, estimatestate, shared, cvars, Parts
<1>3. SeenIsThere' /\ OneLateError'
  BY <1>1 DEF EInv, SeenIsThere, OneLateError, estimatestate, shared
<1>4. TargetIsBasis'
  BY <1>1 DEF EInv, SeenIsThere, TargetIsBasis, Basis, estimatestate, shared
<1>5. LateOnce'
  BY <1>1 DEF EInv, LateOnce, estimatestate, shared, Parts
<1>6. WindowInv' /\ WindowForgetsStart'
  BY <1>1, ControllerUntouched DEF estimatestate, shared
<1> QED
  BY <1>2, <1>3, <1>4, <1>5, <1>6 DEF IInv, EInv

\* The estimator reads one part of the setpoint.
LEMMA estimateerrorPreserves ==
  ASSUME IInv, NEW p \in Parts, estimateerror(p)
  PROVE  IInv'
<1>1. TypeOK /\ EInv /\ WindowInv /\ WindowForgetsStart
  BY DEF IInv
<1>2. /\ seen' \in [Parts -> {"origin", "target"}]
      /\ \A q \in Parts : seen'[q] = IF q = p THEN setpoint[p] ELSE seen[q]
  BY <1>1 DEF TypeOK, estimateerror
<1>3. /\ etodo' \subseteq Parts /\ epc' \in {"estimateerror", "publish"}
      /\ epc' = "estimateerror" => etodo' = etodo \ {p}
      /\ epc' = "publish" => etodo = {p}
  BY <1>1 DEF TypeOK, estimateerror, CopyInEstimator
<1>4. UNCHANGED <<shared, cvars, frame, late>> /\ epc = "estimateerror"
  BY DEF estimateerror
<1>5. TypeOK'
  BY <1>1, <1>2, <1>3, <1>4 DEF TypeOK, shared, cvars
<1>6. SeenIsThere' /\ OneLateError'
  BY <1>1, <1>2, <1>4 DEF EInv, SeenIsThere, OneLateError, shared
<1>7. TargetIsBasis'
  BY <1>1, <1>2, <1>4 DEF EInv, SeenIsThere, TargetIsBasis, Basis, shared
<1>8. LateOnce'
  <2>1. ASSUME late = 1, NEW q \in Parts \ etodo' PROVE epc' = "estimateerror" => seen'[q] = "target"
    BY <1>1, <1>2, <1>3, <1>4, <2>1 DEF EInv, LateOnce
  <2>2. ASSUME late = 1, NEW q \in Parts PROVE epc' = "publish" => seen'[q] = "target"
    BY <1>1, <1>2, <1>3, <1>4, <2>2 DEF EInv, LateOnce
  <2> QED
    BY <1>1, <1>3, <1>4, <2>1, <2>2 DEF EInv, LateOnce, shared
<1>9. WindowInv' /\ WindowForgetsStart'
  BY <1>1, <1>4, ControllerUntouched DEF shared
<1> QED
  BY <1>5, <1>6, <1>7, <1>8, <1>9 DEF IInv, EInv

\* An error on target is published again as one.
LEMMA BasisStays ==
  ASSUME TypeOK, TargetIsBasis, NEW p \in Parts, PublishError(p)
  PROVE  \A q \in Parts : p_error[q] = "target" => p_error'[q] = "target"
BY DEF TypeOK, TargetIsBasis, PublishError

\* The estimator writes one part of the error.
LEMMA PublishErrorPreserves ==
  ASSUME LengthAssumption, IInv, NEW p \in Parts, PublishError(p)
  PROVE  IInv'
<1>1. TypeOK /\ EInv /\ WindowInv /\ WindowForgetsStart
  BY DEF IInv
<1>2. UNCHANGED <<setpoint, cvars, frame, seen>> /\ epc = "publish"
  BY DEF PublishError
<1>3. /\ p_error' \in [Parts -> Bases]
      /\ \A q \in Parts : p_error'[q] = IF q = p THEN Basis(p) ELSE p_error[q]
  BY <1>1 DEF TypeOK, PublishError, Basis, Bases
<1>4. /\ etodo' \subseteq Parts /\ epc' \in {"estimatestate", "publish"}
      /\ epc' = "estimatestate" => etodo' = Parts /\ etodo = {p}
      /\ etodo = {p} => epc' = "estimatestate"
  BY <1>1 DEF TypeOK, PublishError, CopyInEstimator
<1>5. late = 0 \/ late = 1
  BY <1>1 DEF TypeOK, EInv, OneLateError
\* After a late publication there is nothing but the target.
<1>6. late = 1 => \A q \in Parts : Basis(q) = "target"
  BY <1>1, <1>2 DEF EInv, LateOnce, Basis
<1>7. \/ late' = late
      \/ /\ late = 0 /\ late' = 1 /\ etodo = {p} /\ setpoint = All("target")
  <2>1. CASE late = 1
    BY <1>6, <2>1 DEF PublishError
  <2>2. CASE late = 0
    BY <2>2 DEF PublishError
  <2> QED
    BY <1>5, <2>1, <2>2
<1>8. OneLateError' /\ late' \in 0 .. 2
  BY <1>5, <1>7 DEF OneLateError
<1>9. TypeOK'
  BY <1>1, <1>2, <1>3, <1>4, <1>8 DEF TypeOK, cvars
<1>10. SeenIsThere'
  BY <1>1, <1>2 DEF EInv, SeenIsThere
<1>11. TargetIsBasis'
  BY <1>1, <1>2, <1>3 DEF EInv, TargetIsBasis, Basis
<1>12. LateOnce'
  <2>1. CASE late' = late
    BY <1>1, <1>2, <1>4, <2>1 DEF EInv, LateOnce
  <2>2. CASE late' = 1 /\ etodo = {p} /\ setpoint = All("target")
    BY <1>2, <1>4, <2>2 DEF LateOnce, All
  <2> QED
    BY <1>7, <2>1, <2>2
<1>13. WindowInv' /\ WindowForgetsStart'
  BY <1>1, <1>2, BasisStays, ControllerUntouched DEF EInv
<1> QED
  BY <1>8, <1>9, <1>10, <1>11, <1>12, <1>13 DEF IInv, EInv

-----------------------------------------------------------------------------

\* IInv is an inductive invariant of the two threads.
THEOREM Inductive == Spec => []IInv
<1> USE LengthAssumption
<1>1. Init => IInv
  <2> SUFFICES ASSUME Init PROVE IInv
    OBVIOUS
  <2>1. TypeOK
    BY DEF Init, TypeOK, All, Bases, LengthAssumption
  <2>2. EInv
    BY DEF Init, EInv, SeenIsThere, TargetIsBasis, OneLateError, LateOnce, All
  <2>3. WindowInv /\ WindowForgetsStart
    BY DEF Init, WindowInv, WindowForgetsStart, LastOnTarget, LengthAssumption
  <2> QED
    BY <2>1, <2>2, <2>3 DEF IInv
<1>2. IInv /\ [Next]_vars => IInv'
  <2> SUFFICES ASSUME IInv, [Next]_vars PROVE IInv'
    OBVIOUS
  <2>1. ASSUME NEW p \in Parts,
               SetTarget(p) \/ Integrate(p) \/ Compare(p) \/ Multiply(p)
        PROVE  IInv'
    BY <2>1, SetTargetPreserves, IntegratePreserves, ReadPreserves
  <2>2. CASE PublishForce
    BY <2>2, PublishForcePreserves
  <2>3. CASE estimatestate
    BY <2>3, estimatestatePreserves
  <2>4. ASSUME NEW p \in Parts, estimateerror(p) \/ PublishError(p)
        PROVE  IInv'
    BY <2>4, estimateerrorPreserves, PublishErrorPreserves
  <2>5. CASE UNCHANGED vars
    <3>1. TypeOK' /\ WindowForgetsStart'
      BY <2>5 DEF vars, shared, cvars, evars, IInv, TypeOK, WindowForgetsStart
    <3>2. EInv'
      BY <2>5, EstimatorUntouched DEF vars, IInv
    <3>3. WindowInv'
      BY <2>5, ControllerUntouched DEF vars, shared, IInv
    <3> QED
      BY <3>1, <3>2, <3>3 DEF IInv
  <2> QED
    BY <2>1, <2>2, <2>3, <2>4, <2>5 DEF Next, controllerloop, estimatorloop
<1> QED
  BY <1>1, <1>2, PTL DEF Spec

\* Type correctness of the two threads and the structs they share.
THEOREM TypeCorrect == Spec => []TypeOK
<1>1. IInv => TypeOK
  BY DEF IInv
<1> QED
  BY <1>1, Inductive, PTL

\* At most one publication of the estimator after the setpoint was written is
\* relative to the origin (estimatorloop), in every interleaving.
THEOREM LateCorrect == Spec => []OneLateError
<1>1. IInv => OneLateError
  BY DEF IInv, EInv
<1> QED
  BY <1>1, Inductive, PTL

\* An error that refers to the target is never replaced by one that does not,
\* although the setpoint is written in every step (controllerloop).
THEOREM ErrorsCorrect == Spec => ErrorsStayOnTarget
<1>1. IInv /\ [Next]_vars
        => [\A p \in Parts : p_error[p] = "target" => p_error'[p] = "target"]_vars
  <2> SUFFICES ASSUME IInv, Next, NEW p \in Parts, p_error[p] = "target"
               PROVE  p_error'[p] = "target"
    BY DEF vars
  <2>1. CASE UNCHANGED p_error
    BY <2>1
  <2>2. ASSUME NEW q \in Parts, PublishError(q)
        PROVE  p_error'[p] = "target"
    BY <2>2, BasisStays DEF IInv, EInv
  <2>3. UNCHANGED p_error \/ \E q \in Parts : PublishError(q)
    BY DEF Next, controllerloop, estimatorloop, SetTarget, Integrate, Compare,
           Multiply, PublishForce, estimatestate, estimateerror, shared
  <2> QED
    BY <2>1, <2>2, <2>3
<1> QED
  BY <1>1, Inductive, PTL DEF Spec, ErrorsStayOnTarget

\* For a window of any length L: after L steps that have begun on target the
\* force holds nothing of the start-up (updatepositionIntegralMatrix).
THEOREM WindowCorrect == Spec => []WindowForgetsStart
<1>1. IInv => WindowForgetsStart
  BY DEF IInv
<1> QED
  BY <1>1, Inductive, PTL
=============================================================================
