---------------------------- MODULE MotorClient ----------------------------
(***************************************************************************)
(* The client of the motors' PLC (modules/messages/PLC/Yaskawa/include/    *)
(* motorclient.h): it starts the servos up and then commands and reads     *)
(* them in turn over one TCP connection, which it makes anew when it is    *)
(* lost.                                                                   *)
(*                                                                         *)
(* A request is told apart by its kind (read, write, or move: a write of   *)
(* the angle) and a response also by its serial number and by the alarm    *)
(* and reset information it reports.  TCP is a stream of bytes: a response *)
(* is two pieces, and recv returns some of the pieces that have come.      *)
(* Angles are counted in parts of half a turn; one azimuth is followed.    *)
(* The PLC is external: it does and answers what it is sent, in order, as  *)
(* long as the connection lasts.                                           *)
(***************************************************************************)
EXTENDS Integers, Sequences

CONSTANTS
  Half,        \* half a turn
  Infos,       \* values of feedback_allinfo: 0 is ready, 2 resetting
  MaxFaults    \* bound: lost connections and responses that come split

ASSUME MotorAssumption ==
  /\ Half \in Nat \ {0} /\ MaxFaults \in Nat
  /\ 0 \in Infos

Exchanges == {"reset on", "reset off", "zero", "check", "confirm", "run on",
              "run off", "command", "read"}

VARIABLES
  exchange,        \* the exchange the client is at
  awaiting,        \* it has sent its request, and waits in recv
  sockfd,          \* "open", "broken" or "silent" (the peer's doing), or "closed"
  requests,        \* sent, not answered yet
  stream,          \* pieces of responses that have not been received
  serial,          \* read_buf[1], to its parity
  feedback_allinfo,
  last_position,
  crashed,
  motor,           \* external: the angle the PLC has last been sent
  faults,          \* history: number of faults
  answered,        \* history: the last readPLC has succeeded
  current,         \* history: what it took is the response to its own request
  missed           \* history: an angle was lost, after the last that the PLC got

vars == <<exchange, awaiting, sockfd, requests, stream, serial, feedback_allinfo,
          last_position, crashed, motor, faults, answered, current, missed>>

Abs(k) == IF k < 0 THEN -k ELSE k

Reads == {"check", "confirm", "read"}

\* The exchanges that write the angle of the motor.
Moves == {"zero", "command"}

\* The exchanges of resetPLC and runPLC, whose failures have no consequence.
Lenient == {"reset on", "reset off", "zero", "run on", "run off"}

-----------------------------------------------------------------------------

\* The exchange after this one, when the feedback is info.
After(info) ==
  CASE exchange = "reset on"  -> "reset off"
    [] exchange = "reset off" -> "zero"
    [] exchange = "zero"      -> "check"
    [] exchange = "check"     -> IF info = 0 THEN "confirm" ELSE "check"
    [] exchange = "confirm"   -> IF info = 0 THEN "run on" ELSE "check"
    [] exchange = "run on"    -> "run off"
    [] exchange = "run off"   -> "command"
    [] exchange = "command"   -> "read"
    [] OTHER                  -> "command"

Proceed(info) == exchange' = After(info) /\ awaiting' = FALSE

\* Seeded fault: the other direction is forgotten.
min_positionOneWay(alpha) ==
  LET delta == alpha - last_position
  IN  last_position + (IF delta > Half THEN delta - 2 * Half ELSE delta)

\* The position the motor is sent to for an angle: by the shorter way, if one
\* turn is enough to find it.
min_position(alpha) ==
  LET delta == alpha - last_position
  IN  last_position + (CASE delta > Half  -> delta - 2 * Half
                         [] delta < -Half -> delta + 2 * Half
                         [] OTHER         -> delta)

\* The test does not initialise the data: the feedback may be anything.  The
\* first connection may be refused as well.  The PLC has the angle of an earlier
\* session, of which last_position knows nothing.
Init ==
  /\ exchange = "reset on" /\ awaiting = FALSE
  /\ sockfd = "open" /\ requests = << >> /\ stream = << >>
  /\ serial = 0 /\ feedback_allinfo \in Infos
  /\ last_position = 0
  /\ crashed \in BOOLEAN
  /\ motor \in -3 * Half .. 3 * Half
  /\ faults = 0 /\ answered = FALSE /\ current = TRUE /\ missed = TRUE

\* What is on its way to the PLC is lost.
Drop ==
  /\ requests' = << >>
  /\ missed' = (\/ missed
                \/ ~awaiting /\ exchange \in Moves
                \/ \E i \in DOMAIN requests : requests[i].kind = "move")

Close == sockfd' = "closed" /\ Drop /\ stream' = << >>

Fault == faults < MaxFaults /\ faults' = faults + 1

\* socketconnection.  When it is refused, p is NULL, and read nevertheless.
Connected ==
  /\ sockfd' = "open" /\ Drop /\ stream' = << >>
  /\ UNCHANGED crashed

Refused == Close /\ crashed' = TRUE

\* Seeded fault: what commandPLC and readPLC return is not looked at.
FailedKeepsClosed == Proceed(feedback_allinfo) /\ Close /\ UNCHANGED crashed

\* An exchange that has failed: it closes the socket.  Only PLCcommunication
\* looks at what commandPLC and readPLC return, and connects again.
Failed ==
  /\ Proceed(feedback_allinfo)
  /\ IF exchange \in {"command", "read"} THEN Connected \/ Refused
                                         ELSE Close /\ UNCHANGED crashed

\* commandPLC, before it sends: the azimuth of the command.
Aim ==
  IF exchange = "command"
  THEN \E alpha \in -Half .. Half : last_position' = min_position(alpha)
  ELSE UNCHANGED last_position

Older(q) == [i \in DOMAIN q |-> [q[i] EXCEPT !.own = FALSE]]

\* command_buf holds zero until commandPLC has written the angle into it.
Request == [kind |-> IF exchange \in Reads THEN "read"
                     ELSE IF exchange \in Moves THEN "move" ELSE "write",
            to |-> IF exchange = "command" THEN last_position' ELSE 0,
            serial |-> serial, own |-> TRUE]

\* send puts the request on its way, to a peer that may be gone: when nothing
\* acknowledges it, TCP gives the connection up in the end.
Send ==
  /\ ~crashed /\ ~awaiting /\ sockfd # "closed"
  /\ Aim
  /\ awaiting' = TRUE /\ answered' = FALSE
  /\ IF sockfd = "open"
     THEN requests' = Append(Older(requests), Request) /\ UNCHANGED missed
     ELSE Drop
  /\ sockfd' \in {sockfd} \cup (IF sockfd = "silent" THEN {"broken"} ELSE {})
  /\ stream' = Older(stream)
  /\ UNCHANGED <<exchange, serial, feedback_allinfo, crashed, motor, faults, current>>

\* send fails: resetPLC and runPLC go on to recv on the closed socket.
SendFails ==
  /\ ~crashed /\ ~awaiting /\ sockfd \in {"broken", "closed"}
  /\ Aim
  /\ answered' = FALSE
  /\ IF exchange \in Lenient
     THEN Close /\ awaiting' = TRUE /\ UNCHANGED <<exchange, crashed>>
     ELSE Failed
  /\ UNCHANGED <<serial, feedback_allinfo, motor, faults, current>>

\* recv returns 0 or -1.  It has no time limit: it never returns on a connection
\* that is open but silent.
ReceiveFails ==
  /\ ~crashed /\ awaiting /\ sockfd \in {"broken", "closed"}
  /\ Failed
  /\ UNCHANGED <<serial, feedback_allinfo, last_position, motor, faults, answered,
                 current>>

\* Seeded fault: the length is not checked; rbuf holds the end of an older one.
AcceptedOfAnyLength(got) ==
  got[1].part = 1 /\ got[1].kind = "read" /\ got[1].serial = serial

\* chk_parse_command_data: a whole response to a read with this serial number.
Accepted(got) ==
  /\ Len(got) = 2
  /\ got[1].part = 1 /\ got[1].kind = "read" /\ got[1].serial = serial

\* recv returns the first k pieces; all of them, unless a response is split.
Receive(k) ==
  /\ ~crashed /\ awaiting /\ sockfd # "closed"
  /\ k \in 1 .. Len(stream)
  /\ IF k < Len(stream) THEN Fault ELSE UNCHANGED faults

\* resetPLC, runPLC and commandPLC do not look at the response.
ReceiveWrite(k) ==
  /\ exchange \notin Reads
  /\ Receive(k)
  /\ stream' = SubSeq(stream, k + 1, Len(stream))
  /\ Proceed(feedback_allinfo)
  /\ UNCHANGED <<sockfd, requests, serial, feedback_allinfo, last_position, crashed,
                 motor, answered, current, missed>>

\* Seeded fault: the number goes on past the end of its byte.
NextSerialUnlimited == serial + 1

NextSerial == (serial + 1) % 2

\* readPLC takes the feedback.
ReceiveRead(k) ==
  /\ exchange \in Reads
  /\ Receive(k)
  /\ LET got == SubSeq(stream, 1, k)
     IN  /\ Accepted(got)
         /\ feedback_allinfo' = got[1].info
         /\ current' = (k = 2 /\ \A i \in 1 .. k : got[i].own)
  /\ stream' = SubSeq(stream, k + 1, Len(stream))
  /\ serial' = NextSerial
  /\ answered' = TRUE
  /\ Proceed(feedback_allinfo')
  /\ UNCHANGED <<sockfd, requests, last_position, crashed, motor, missed>>

\* It refuses what does not look like its response, and closes the socket.
RefuseRead(k) ==
  /\ exchange \in Reads
  /\ Receive(k)
  /\ ~Accepted(SubSeq(stream, 1, k))
  /\ Failed
  /\ UNCHANGED <<serial, feedback_allinfo, last_position, motor, answered, current>>

Client ==
  \/ Send \/ SendFails \/ ReceiveFails
  \/ \E k \in 1 .. Len(stream) : ReceiveWrite(k) \/ ReceiveRead(k) \/ RefuseRead(k)

\* External: the PLC does and answers the first request it has not answered.
Answer ==
  /\ sockfd = "open" /\ requests # << >>
  /\ \E info \in Infos :
       LET piece(part) == [part |-> part, kind |-> Head(requests).kind,
                           serial |-> Head(requests).serial, info |-> info,
                           own |-> Head(requests).own]
       IN  stream' = stream \o <<piece(1), piece(2)>>
  /\ requests' = Tail(requests)
  /\ IF Head(requests).kind = "move"
     THEN motor' = Head(requests).to /\ missed' = FALSE
     ELSE UNCHANGED <<motor, missed>>
  /\ UNCHANGED <<exchange, awaiting, sockfd, serial, feedback_allinfo, last_position,
                 crashed, faults, answered, current>>

\* External: the connection is lost, with or without what was on its way.  The
\* client hears of it, or not: a cable, the power of the PLC or its program.
Lose ==
  /\ ~crashed /\ sockfd = "open" /\ Fault
  /\ sockfd' \in {"broken", "silent"} /\ Drop
  /\ stream' \in {stream, << >>}
  /\ UNCHANGED <<exchange, awaiting, serial, feedback_allinfo, last_position, crashed,
                 motor, answered, current>>

Next == Client \/ Answer \/ Lose

Spec == Init /\ [][Next]_vars

\* The client's thread runs, and a PLC that is connected answers.
FairSpec == Spec /\ WF_vars(Client) /\ WF_vars(Answer)

-----------------------------------------------------------------------------

Angle == -3 * Half .. 3 * Half

RequestType == [kind : {"read", "write", "move"}, to : Angle, serial : 0 .. 1,
                own : BOOLEAN]

Piece == [part : 1 .. 2, kind : {"read", "write", "move"}, serial : 0 .. 1,
          info : Infos, own : BOOLEAN]

\* The serial number keeps to its byte, every piece and request is well formed, and
\* the motor is never wound up by more than a turn and a half; a socket that is not
\* open has no request under way.
TypeOK ==
  /\ exchange \in Exchanges /\ awaiting \in BOOLEAN
  /\ sockfd \in {"open", "broken", "silent", "closed"}
  /\ requests \in Seq(RequestType) /\ stream \in Seq(Piece)
  /\ sockfd # "open" => requests = << >>
  /\ serial \in 0 .. 1 /\ feedback_allinfo \in Infos
  /\ last_position \in Angle /\ motor \in Angle
  /\ crashed \in BOOLEAN /\ faults \in 0 .. MaxFaults
  /\ answered \in BOOLEAN /\ current \in BOOLEAN /\ missed \in BOOLEAN

\* What readPLC takes for the feedback is the whole response to the read it has
\* just sent, though responses to writes, which nobody checks, may have been
\* split and be left in the stream (chk_parse_command_data).
FeedbackIsCurrent == current

\* The motor is sent to an angle by the shorter way from the one it has; it swings
\* by more than half a turn only to unwind from beyond a turn, or when an angle
\* before has been lost: last_position is written before the command is sent, and
\* min_position then reckons from where the motor never went.  A response that a
\* split one has delayed does not make it reckon from the wrong angle.
LongSwingsUnwind ==
  [][ Abs(motor' - motor) > Half
      => \/ missed
         \/ Abs(motor) > 2 * Half /\ Abs(motor') < Abs(motor) ]_motor

\* The PLC has gone silent on a request: readPLC and commandPLC are in recv, which
\* "does not end when the slave controller sends no data".
Unanswered == awaiting /\ sockfd = "silent" /\ stream = << >>

\* PLCcommunication comes to a read that is answered again, whatever responses were
\* split and whatever connections were lost; only two things end it, that the PLC
\* refuses a connection (it crashes) and that it goes silent on a request.
LoopRecovers == exchange \in {"command", "read"} ~> answered \/ crashed \/ Unanswered

=============================================================================
