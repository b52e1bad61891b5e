----------------------------- MODULE SerialLink -----------------------------
(***************************************************************************)
(* The serial links to the STM32 board (modules/messages/stm32/include/    *)
(* stm32_link.h) and to the GUI (modules/messages/GUILink/include/         *)
(* guilink.h): how they judge the connection from the frames that arrive.  *)
(* A frame is good if its checksum is; a lost, late, cut or garbled one    *)
(* fails to parse.                                                         *)
(***************************************************************************)
EXTENDS Naturals

CONSTANT Link  \* "stm32" or "gui"

ASSUME LinkAssumption == Link \in {"stm32", "gui"}

VARIABLES
  connection_count,  \* gui_connetion_failure_count in guilink.h
  linkstatus,
  misses,            \* history: frames that have failed in a row
  earned             \* history: good frames since it was last disconnected

vars == <<connection_count, linkstatus, misses, earned>>

Top == IF Link = "stm32" THEN 10 ELSE 20
Bound == Top + 1  \* of the histories

Smaller(x, y) == IF x < y THEN x ELSE y
Larger(x, y) == IF x < y THEN y ELSE x

-----------------------------------------------------------------------------

\* The caller gives the first status, whatever it is; the test of the STM32
\* link starts with CONNECTED.
Init ==
  /\ connection_count = 0
  /\ linkstatus \in {"DISCONNECTED", "CONNECTED"}
  /\ misses = 0 /\ earned = 0

Stm32Status(c) ==
  CASE c < 2             -> "DISCONNECTED"
    [] 2 <= c /\ c < 8   -> "CONNECTING"
    [] OTHER             -> "CONNECTED"

GuiStatus(c) == IF c > 20 THEN "DISCONNECTED" ELSE "CONNECTED"

checkconnection ==
  linkstatus' = IF Link = "stm32" THEN Stm32Status(connection_count)
                                  ELSE GuiStatus(connection_count)

\* Seeded fault: no limit, so that a long connection takes as long to be lost.
CountedUnlimited == connection_count + 1

Counted == Smaller(connection_count + 1, Top)

\* The good frames since the check of this step, or since an earlier one.
EarnedBefore == IF linkstatus' = "DISCONNECTED" THEN 0 ELSE earned

\* Seeded faults: every frame counts; a failure only stops the count.
ParsedAtOnce ==
  /\ checkconnection
  /\ connection_count' = Top
  /\ misses' = 0
  /\ earned' = Smaller(EarnedBefore + 1, Bound)

FailedWithoutCount ==
  /\ checkconnection
  /\ UNCHANGED connection_count
  /\ misses' = Smaller(misses + 1, Bound)
  /\ earned' = EarnedBefore

\* One step of the link: the status first, from the frames before this one.
Parsed ==
  /\ checkconnection
  /\ connection_count' = Counted
  /\ misses' = 0
  /\ earned' = Smaller(EarnedBefore + 1, Bound)

Failed ==
  /\ checkconnection
  /\ connection_count' = Larger(connection_count - 1, 0)
  /\ misses' = Smaller(misses + 1, Bound)
  /\ earned' = EarnedBefore

Next == Parsed \/ Failed

Spec == Init /\ [][Next]_vars

-----------------------------------------------------------------------------
(* Properties.                                                             *)

TypeOK ==
  /\ connection_count \in 0 .. Top
  /\ linkstatus \in {"DISCONNECTED", "CONNECTING", "CONNECTED"}
  /\ misses \in 0 .. Bound /\ earned \in 0 .. Bound

\* A link on which nothing intelligible arrives any more is soon not reported as
\* connected, and then as disconnected, however long it had been up: what the
\* count of failures in a row is for.
SilenceIsNoticed ==
  /\ misses >= 4 => linkstatus # "CONNECTED"
  /\ misses >= 10 => linkstatus = "DISCONNECTED"

\* A link that was given up is not connected again before seven good frames.
ConnectionIsEarned ==
  [][linkstatus' = "CONNECTED" => earned >= 7]_vars

\* The GUI link reports the loss of its peer at all.
GuiSilenceIsNoticed == misses > 20 => linkstatus = "DISCONNECTED"
=============================================================================
