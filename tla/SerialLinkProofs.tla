-------------------------- MODULE SerialLinkProofs --------------------------
(***************************************************************************)
(* The hysteresis of the STM32 link, for every sequence of frames.         *)
(*                                                                         *)
(* The status is judged from the count before the frame of the step, so    *)
(* the invariant ties all three together: each failure in a row has taken  *)
(* one off the count, every frame it has left was good, and the status is  *)
(* never better than what the count was.                                   *)
(***************************************************************************)
EXTENDS SerialLink, TLAPS

\* After m failures in a row the count is at most ten less m; a count of the link
\* has been earned since it was last given up, but for what was earned after the
\* check of that step.
CountFollowsFrames ==
  /\ misses <= 10 => connection_count <= 10 - misses
  /\ misses > 10 => connection_count = 0
  /\ linkstatus = "CONNECTED" => misses <= 3
  /\ linkstatus # "DISCONNECTED" => misses <= 9
  /\ connection_count <= earned + 1

IInv == TypeOK /\ CountFollowsFrames

\* The bounds of the link to the STM32 board.
LEMMA Stm32Constants ==
  ASSUME Link = "stm32"
  PROVE  Top = 10 /\ Bound = 11
BY DEF Top, Bound

\* What a step of the link does to the status and the histories before its frame
\* is counted.
LEMMA CheckedStatus ==
  ASSUME Link = "stm32", IInv, checkconnection
  PROVE  /\ linkstatus' \in {"DISCONNECTED", "CONNECTING", "CONNECTED"}
         /\ linkstatus' = "CONNECTED" <=> connection_count >= 8
         /\ linkstatus' = "DISCONNECTED" <=> connection_count < 2
         /\ EarnedBefore \in 0 .. 11
         /\ connection_count <= EarnedBefore + 1
<1>1. connection_count \in 0 .. 10 /\ earned \in 0 .. 11
  BY Stm32Constants DEF IInv, TypeOK
<1>2. /\ linkstatus' \in {"DISCONNECTED", "CONNECTING", "CONNECTED"}
      /\ linkstatus' = "CONNECTED" <=> connection_count >= 8
      /\ linkstatus' = "DISCONNECTED" <=> connection_count < 2
  BY <1>1 DEF checkconnection, Stm32Status
<1>3. connection_count <= earned + 1
  BY DEF IInv, CountFollowsFrames
<1> QED
  BY <1>1, <1>2, <1>3 DEF EarnedBefore

\* A frame that is parsed.
LEMMA ParsedPreserves ==
  ASSUME Link = "stm32", IInv, Parsed
  PROVE  IInv'
<1> USE Stm32Constants
<1>1. connection_count \in 0 .. 10
  BY DEF IInv, TypeOK
<1>2. checkconnection
  BY DEF Parsed
<1>3. /\ linkstatus' \in {"DISCONNECTED", "CONNECTING", "CONNECTED"}
      /\ EarnedBefore \in 0 .. 11
      /\ connection_count <= EarnedBefore + 1
  BY <1>2, CheckedStatus
<1>4. /\ connection_count' = IF connection_count = 10 THEN 10 ELSE connection_count + 1
      /\ misses' = 0
      /\ earned' = IF EarnedBefore = 11 THEN 11 ELSE EarnedBefore + 1
  BY <1>1, <1>3 DEF Parsed, Counted, Smaller
<1>5. TypeOK'
  BY <1>1, <1>3, <1>4 DEF TypeOK
<1> QED
  BY <1>1, <1>3, <1>4, <1>5 DEF IInv, CountFollowsFrames

\* A frame that is not.
LEMMA FailedPreserves ==
  ASSUME Link = "stm32", IInv, Failed
  PROVE  IInv'
<1> USE Stm32Constants
<1>1. connection_count \in 0 .. 10 /\ misses \in 0 .. 11
  BY DEF IInv, TypeOK
<1>2. checkconnection
  BY DEF Failed
<1>3. /\ linkstatus' \in {"DISCONNECTED", "CONNECTING", "CONNECTED"}
      /\ linkstatus' = "CONNECTED" <=> connection_count >= 8
      /\ linkstatus' = "DISCONNECTED" <=> connection_count < 2
      /\ EarnedBefore \in 0 .. 11
      /\ connection_count <= EarnedBefore + 1
  BY <1>2, CheckedStatus
<1>4. /\ connection_count' = IF connection_count = 0 THEN 0 ELSE connection_count - 1
      /\ misses' = IF misses = 11 THEN 11 ELSE misses + 1
      /\ earned' = EarnedBefore
  BY <1>1 DEF Failed, Larger, Smaller
<1>5. TypeOK'
  BY <1>1, <1>3, <1>4 DEF TypeOK
<1>6. /\ misses <= 10 => connection_count <= 10 - misses
      /\ misses > 10 => connection_count = 0
  BY DEF IInv, CountFollowsFrames
<1>7. CountFollowsFrames'
  BY <1>1, <1>3, <1>4, <1>6 DEF CountFollowsFrames
<1> QED
  BY <1>5, <1>7 DEF IInv

\* IInv is an inductive invariant of the STM32 link.
THEOREM Inductive ==
  ASSUME Link = "stm32"
  PROVE  Spec => []IInv
<1>1. Init => IInv
  BY Stm32Constants DEF Init, IInv, TypeOK, CountFollowsFrames
<1>2. IInv /\ [Next]_vars => IInv'
  <2> SUFFICES ASSUME IInv, [Next]_vars PROVE IInv'
    OBVIOUS
  <2>1. CASE Parsed
    BY <2>1, ParsedPreserves
  <2>2. CASE Failed
    BY <2>2, FailedPreserves
  <2>3. CASE UNCHANGED vars
    BY <2>3 DEF vars, IInv, TypeOK, CountFollowsFrames, Top, Bound
  <2> QED
    BY <2>1, <2>2, <2>3 DEF Next
<1> QED
  BY <1>1, <1>2, PTL DEF Spec

\* Type correctness of the STM32 link: the count keeps to its limits.
THEOREM TypeCorrect ==
  ASSUME Link = "stm32"
  PROVE  Spec => []TypeOK
<1>1. IInv => TypeOK
  BY DEF IInv
<1> QED
  BY <1>1, Inductive, PTL

\* A silent link is not connected after four failures and disconnected after ten,
\* whatever came before (stm32onestep).
THEOREM SilenceCorrect ==
  ASSUME Link = "stm32"
  PROVE  Spec => []SilenceIsNoticed
<1>1. IInv => SilenceIsNoticed
  BY Stm32Constants DEF IInv, TypeOK, CountFollowsFrames, SilenceIsNoticed
<1> QED
  BY <1>1, Inductive, PTL

\* The status becomes or stays CONNECTED only on seven good frames
\* (checkconnection).
THEOREM ConnectionCorrect ==
  ASSUME Link = "stm32"
  PROVE  Spec => ConnectionIsEarned
<1>1. IInv /\ [Next]_vars => [linkstatus' = "CONNECTED" => earned >= 7]_vars
  <2> SUFFICES ASSUME IInv, Next, linkstatus' = "CONNECTED" PROVE earned >= 7
    OBVIOUS
  <2>1. checkconnection
    BY DEF Next, Parsed, Failed
  <2>2. connection_count >= 8
    BY <2>1, CheckedStatus
  <2> QED
    BY <2>2, Stm32Constants DEF IInv, TypeOK, CountFollowsFrames
<1> QED
  BY <1>1, Inductive, PTL DEF Spec, ConnectionIsEarned
=============================================================================
