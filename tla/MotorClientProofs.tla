------------------------- MODULE MotorClientProofs -------------------------
(***************************************************************************)
(* Type correctness of the motors' client, how far a motor may swing, and  *)
(* that the feedback is current, for any division of the turn and any      *)
(* number of faults.  That an angle is unwound by one turn at most is only *)
(* safe because the controller gives angles within half a turn.  That the  *)
(* feedback is current, and that an angle is reckoned from where the motor *)
(* is, are invariants of everything that is on its way.                    *)
(***************************************************************************)
EXTENDS MotorClient, SequenceTheorems, TLAPS

\* From an angle a to an angle b by the shorter way, or unwinding.
Unwinds(a, b) == Abs(b - a) > Half => Abs(a) > 2 * Half /\ Abs(b) < Abs(a)

\* The shorter way is longer than half a turn only from beyond a turn, and leads
\* back; it never leads beyond a turn and a half.
LEMMA ShorterWay ==
  ASSUME MotorAssumption, last_position \in Angle, NEW alpha \in -Half .. Half
  PROVE  min_position(alpha) \in Angle /\ Unwinds(last_position, min_position(alpha))
<1> USE DEF MotorAssumption, Angle, Unwinds
<1>1. CASE alpha - last_position > Half
  BY <1>1 DEF Abs, min_position
<1>2. CASE alpha - last_position < -Half
  BY <1>2 DEF Abs, min_position
<1>3. CASE ~(alpha - last_position > Half) /\ ~(alpha - last_position < -Half)
  BY <1>3 DEF Abs, min_position
<1> QED
  BY <1>1, <1>2, <1>3

\* Which way an angle has been reckoned.
LEMMA AimType ==
  ASSUME MotorAssumption, last_position \in Angle, Aim
  PROVE  /\ last_position' \in Angle
         /\ Unwinds(last_position, last_position')
<1>1. CASE exchange = "command"
  <2>1. PICK alpha \in -Half .. Half : last_position' = min_position(alpha)
    BY <1>1 DEF Aim
  <2> QED
    BY <2>1, ShorterWay
<1>2. CASE exchange # "command"
  BY <1>2 DEF Aim, Unwinds, Abs, Angle, MotorAssumption
<1> QED
  BY <1>1, <1>2

\* Every exchange is followed by one.
LEMMA AfterType ==
  ASSUME exchange \in Exchanges, NEW info
  PROVE  After(info) \in Exchanges
BY DEF Exchanges, After

\* What was sent or has come before keeps its form.
LEMMA OlderType ==
  ASSUME NEW S, NEW q \in Seq(S), \A e \in S : [e EXCEPT !.own = FALSE] \in S
  PROVE  Older(q) \in Seq(S)
<1>1. Len(q) \in Nat /\ DOMAIN q = 1 .. Len(q)
  OBVIOUS
<1>2. \A i \in 1 .. Len(q) : [q[i] EXCEPT !.own = FALSE] \in S
  OBVIOUS
<1>3. Older(q) \in [1 .. Len(q) -> S]
  BY <1>1, <1>2 DEF Older
<1> QED
  BY <1>1, <1>3

\* What is lost leaves nothing on its way.
LEMMA DropType ==
  ASSUME Drop
  PROVE  requests' = << >> /\ missed' \in BOOLEAN
BY DEF Drop

\* What a failed exchange leaves.
LEMMA FailedType ==
  ASSUME TypeOK, Failed
  PROVE  /\ exchange' \in Exchanges /\ awaiting' \in BOOLEAN
         /\ sockfd' \in {"open", "closed"}
         /\ requests' = << >> /\ stream' = << >>
         /\ crashed' \in BOOLEAN /\ missed' \in BOOLEAN
<1>1. exchange' \in Exchanges /\ awaiting' \in BOOLEAN
  BY AfterType DEF TypeOK, Failed, Proceed
<1>2. CASE Close /\ UNCHANGED crashed
  BY <1>1, <1>2, DropType DEF TypeOK, Close
<1>3. CASE Connected
  BY <1>1, <1>3, DropType DEF TypeOK, Connected
<1>4. CASE Refused
  BY <1>1, <1>4, DropType DEF Refused, Close
<1> QED
  BY <1>2, <1>3, <1>4 DEF Failed

-----------------------------------------------------------------------------
(* One lemma for every step of the client and of what is external.         *)

Requests == Seq(RequestType)

\* A connection that was closed holds nothing.
LEMMA EmptyType == << >> \in Requests /\ << >> \in Seq(Piece)
BY EmptySeq DEF Requests

\* The client sends a request.
LEMMA SendType ==
  ASSUME MotorAssumption, TypeOK, Send
  PROVE  TypeOK'
<1>1. Older(requests) \in Requests
  <2>1. \A e \in RequestType : [e EXCEPT !.own = FALSE] \in RequestType
    BY DEF RequestType
  <2> QED
    BY <2>1, OlderType DEF TypeOK, Requests
<1>2. Older(stream) \in Seq(Piece)
  <2>1. \A e \in Piece : [e EXCEPT !.own = FALSE] \in Piece
    BY DEF Piece
  <2> QED
    BY <2>1, OlderType DEF TypeOK
<1>3. last_position' \in Angle
  BY AimType DEF Send, TypeOK
<1>4. Request \in RequestType
  <2>1. 0 \in Angle
    BY DEF Angle, MotorAssumption
  <2> QED
    BY <1>3, <2>1 DEF TypeOK, Request, RequestType
<1>5. Append(Older(requests), Request) \in Requests
  BY <1>1, <1>4, AppendProperties DEF Requests
<1>6. /\ requests' \in Requests /\ (sockfd' # "open" => requests' = << >>)
      /\ missed' \in BOOLEAN /\ sockfd' \in {"open", "broken", "silent", "closed"}
  BY <1>5, DropType, EmptyType DEF Send, TypeOK
<1> QED
  BY <1>2, <1>3, <1>6 DEF Send, TypeOK, Requests

\* The client cannot send one.
LEMMA SendFailsType ==
  ASSUME MotorAssumption, TypeOK, SendFails
  PROVE  TypeOK'
<1>1. last_position' \in Angle
  BY AimType DEF SendFails, TypeOK
<1>2. CASE exchange \in Lenient
  BY <1>1, <1>2, EmptyType, DropType DEF SendFails, Close, TypeOK, Requests
<1>3. CASE exchange \notin Lenient
  BY <1>1, <1>3, EmptyType, FailedType DEF SendFails, TypeOK, Requests
<1> QED
  BY <1>2, <1>3

\* The client receives nothing.
LEMMA ReceiveFailsType ==
  ASSUME MotorAssumption, TypeOK, ReceiveFails
  PROVE  TypeOK'
BY EmptyType, FailedType DEF ReceiveFails, TypeOK, Requests

\* What every way to receive k pieces has in common.
LEMMA ReceivedType ==
  ASSUME MotorAssumption, TypeOK, NEW k \in 1 .. Len(stream), Receive(k)
  PROVE  /\ SubSeq(stream, k + 1, Len(stream)) \in Seq(Piece)
         /\ SubSeq(stream, 1, k)[1] \in Piece
         /\ faults' \in 0 .. MaxFaults
<1>1. stream \in Seq(Piece) /\ Len(stream) \in Nat
  BY DEF TypeOK
<1>2. \A i \in k + 1 .. Len(stream) : stream[i] \in Piece
  BY <1>1
<1>3. SubSeq(stream, k + 1, Len(stream)) \in Seq(Piece)
  BY <1>1, <1>2, SubSeqProperties
<1>4. SubSeq(stream, 1, k)[1] \in Piece
  BY <1>1
<1>5. faults' \in 0 .. MaxFaults
  BY DEF Receive, Fault, TypeOK, MotorAssumption
<1> QED
  BY <1>3, <1>4, <1>5

\* The client receives the response to a write.
LEMMA ReceiveWriteType ==
  ASSUME MotorAssumption, TypeOK, NEW k \in 1 .. Len(stream), ReceiveWrite(k)
  PROVE  TypeOK'
<1>1. Receive(k)
  BY DEF ReceiveWrite
<1>2. /\ SubSeq(stream, k + 1, Len(stream)) \in Seq(Piece)
      /\ faults' \in 0 .. MaxFaults
  BY <1>1, ReceivedType
<1>3. exchange' \in Exchanges /\ awaiting' \in BOOLEAN
  BY AfterType DEF ReceiveWrite, Proceed, TypeOK
<1> QED
  BY <1>2, <1>3 DEF ReceiveWrite, TypeOK

\* The client receives the response to a read.
LEMMA ReceiveReadType ==
  ASSUME MotorAssumption, TypeOK, NEW k \in 1 .. Len(stream), ReceiveRead(k)
  PROVE  TypeOK'
<1>1. Receive(k)
  BY DEF ReceiveRead
<1>2. /\ SubSeq(stream, k + 1, Len(stream)) \in Seq(Piece)
      /\ SubSeq(stream, 1, k)[1] \in Piece
      /\ faults' \in 0 .. MaxFaults
  BY <1>1, ReceivedType
<1>3. feedback_allinfo' \in Infos /\ current' \in BOOLEAN
  BY <1>2 DEF ReceiveRead, Piece
<1>4. exchange' \in Exchanges /\ awaiting' \in BOOLEAN
  BY AfterType DEF ReceiveRead, Proceed, TypeOK
<1>5. serial' \in 0 .. 1
  BY DEF ReceiveRead, NextSerial, TypeOK
<1> QED
  BY <1>2, <1>3, <1>4, <1>5 DEF ReceiveRead, TypeOK

\* The client refuses what it has received.
LEMMA RefuseReadType ==
  ASSUME MotorAssumption, TypeOK, NEW k \in 1 .. Len(stream), RefuseRead(k)
  PROVE  TypeOK'
<1>1. Receive(k) /\ Failed
  BY DEF RefuseRead
<1>2. faults' \in 0 .. MaxFaults
  BY <1>1, ReceivedType
<1> QED
  BY <1>1, <1>2, EmptyType, FailedType DEF RefuseRead, TypeOK, Requests

\* The PLC answers.
LEMMA AnswerType ==
  ASSUME MotorAssumption, TypeOK, Answer
  PROVE  TypeOK'
<1>1. requests \in Requests /\ requests # << >>
  BY DEF TypeOK, Answer, Requests
<1>2. Head(requests) \in RequestType /\ Tail(requests) \in Requests
  BY <1>1, HeadTailProperties DEF Requests
<1>3. PICK info \in Infos :
        stream' = stream \o
          <<[part |-> 1, kind |-> Head(requests).kind,
             serial |-> Head(requests).serial, info |-> info,
             own |-> Head(requests).own],
            [part |-> 2, kind |-> Head(requests).kind,
             serial |-> Head(requests).serial, info |-> info,
             own |-> Head(requests).own]>>
  BY DEF Answer
<1>4. <<[part |-> 1, kind |-> Head(requests).kind,
         serial |-> Head(requests).serial, info |-> info,
         own |-> Head(requests).own],
        [part |-> 2, kind |-> Head(requests).kind,
         serial |-> Head(requests).serial, info |-> info,
         own |-> Head(requests).own]>> \in Seq(Piece)
  BY <1>2 DEF Piece, RequestType
<1>5. stream' \in Seq(Piece)
  BY <1>3, <1>4, ConcatProperties DEF TypeOK
<1>6. motor' \in Angle /\ missed' \in BOOLEAN
  BY <1>2 DEF Answer, TypeOK, RequestType
<1> QED
  BY <1>2, <1>5, <1>6 DEF Answer, TypeOK, Requests

\* The connection is lost.
LEMMA LoseType ==
  ASSUME MotorAssumption, TypeOK, Lose
  PROVE  TypeOK'
<1>1. stream' \in Seq(Piece)
  BY EmptyType DEF Lose, TypeOK
<1>2. faults' \in 0 .. MaxFaults
  BY DEF Lose, Fault, TypeOK, MotorAssumption
<1> QED
  BY <1>1, <1>2, EmptyType, DropType DEF Lose, TypeOK, Requests

-----------------------------------------------------------------------------

\* Before the first exchange.
LEMMA InitType == Init => TypeOK
<1> SUFFICES ASSUME Init PROVE TypeOK
  OBVIOUS
<1>1. faults = 0 /\ last_position = 0 /\ serial = 0
  BY DEF Init
<1>2. /\ faults \in 0 .. MaxFaults /\ serial \in 0 .. 1
      /\ last_position \in Angle /\ motor \in Angle
  <2>1. faults \in 0 .. MaxFaults /\ serial \in 0 .. 1
    BY <1>1, MotorAssumption DEF MotorAssumption
  <2>2. last_position \in Angle
    BY <1>1, MotorAssumption DEF MotorAssumption, Angle
  <2>3. motor \in Angle
    BY DEF Init, Angle
  <2> QED
    BY <2>1, <2>2, <2>3
<1>3. requests \in Requests /\ requests = << >> /\ stream \in Seq(Piece)
  BY EmptyType DEF Init
<1>4. exchange \in Exchanges
  BY DEF Init, Exchanges
<1> QED
  BY <1>2, <1>3, <1>4 DEF Init, TypeOK, Requests

\* Every step of the client, of the PLC and of the network.
LEMMA StepType == TypeOK /\ [Next]_vars => TypeOK'
<1> SUFFICES ASSUME TypeOK, [Next]_vars PROVE TypeOK'
  OBVIOUS
<1>1. CASE Send
  BY <1>1, SendType, MotorAssumption
<1>2. CASE SendFails
  BY <1>2, SendFailsType, MotorAssumption
<1>3. CASE ReceiveFails
  BY <1>3, ReceiveFailsType, MotorAssumption
<1>4. ASSUME NEW k \in 1 .. Len(stream),
             ReceiveWrite(k) \/ ReceiveRead(k) \/ RefuseRead(k)
      PROVE  TypeOK'
  BY <1>4, ReceiveWriteType, ReceiveReadType, RefuseReadType, MotorAssumption
<1>5. CASE Answer
  BY <1>5, AnswerType, MotorAssumption
<1>6. CASE Lose
  BY <1>6, LoseType, MotorAssumption
<1>7. CASE UNCHANGED vars
  BY <1>7 DEF vars, TypeOK
<1> QED
  BY <1>1, <1>2, <1>3, <1>4, <1>5, <1>6, <1>7 DEF Next, Client

\* Type correctness of the client: the serial number keeps to its byte, and a
\* socket that is not open has no request under way.
THEOREM TypeCorrect == Spec => []TypeOK
BY InitType, StepType, PTL DEF Spec

-----------------------------------------------------------------------------
(* That the feedback is current: responses to reads do not outlive their     *)
(* exchange, whatever responses to writes may still be on their way.         *)

\* Requests to read, and responses to them, belong to the exchange that waits; its
\* request is the last, and its response, once it has come, ends the stream.
ReadsAreOwn ==
  /\ \A i \in DOMAIN requests : requests[i].kind = "read" =>
       /\ requests[i].own /\ i = Len(requests)
       /\ awaiting /\ exchange \in Reads
  /\ \A i \in DOMAIN stream : stream[i].kind = "read" =>
       /\ stream[i].own /\ requests = << >>
       /\ awaiting /\ exchange \in Reads
       /\ stream[i].part = 1 => i + 1 = Len(stream) /\ stream[i + 1].own

IInv == TypeOK /\ ReadsAreOwn /\ FeedbackIsCurrent

\* There is no response to a read where nothing is on its way.
LEMMA NothingToRead ==
  ASSUME requests' = << >>, stream' = << >>
  PROVE  ReadsAreOwn'
BY DEF ReadsAreOwn

\* While no read waits for its response, nothing that is on its way is one.
LEMMA OnlyWrites ==
  ASSUME ReadsAreOwn, ~(awaiting /\ exchange \in Reads)
  PROVE  /\ \A i \in DOMAIN requests : requests[i].kind # "read"
         /\ \A i \in DOMAIN stream : stream[i].kind # "read"
BY DEF ReadsAreOwn

\* Nor is it after steps that let nothing but writes be on their way.
LEMMA OnlyWritesNext ==
  ASSUME \A i \in DOMAIN requests' : requests'[i].kind # "read",
         \A i \in DOMAIN stream' : stream'[i].kind # "read"
  PROVE  ReadsAreOwn'
BY DEF ReadsAreOwn

\* Older responses stay what they are, but for whose they are.
LEMMA OlderKind ==
  ASSUME NEW S, NEW q \in Seq(S)
  PROVE  /\ DOMAIN Older(q) = 1 .. Len(q) /\ Len(q) \in Nat
         /\ \A i \in 1 .. Len(q) : Older(q)[i] = [q[i] EXCEPT !.own = FALSE]
<1>1. DOMAIN q = 1 .. Len(q) /\ Len(q) \in Nat
  OBVIOUS
<1> QED
  BY <1>1 DEF Older

\* A request goes on its way: what is there already was sent for writes.
LEMMA SendCurrent ==
  ASSUME IInv, Send
  PROVE  ReadsAreOwn'
<1>1. /\ ~awaiting /\ awaiting' /\ exchange' = exchange
      /\ requests' = IF sockfd = "open" THEN Append(Older(requests), Request) ELSE << >>
      /\ stream' = Older(stream)
  BY DropType DEF Send
<1>2. /\ requests \in Requests /\ stream \in Seq(Piece)
  BY DEF IInv, TypeOK, Requests
<1>3. /\ \A i \in DOMAIN requests : requests[i].kind # "read"
      /\ \A i \in DOMAIN stream : stream[i].kind # "read"
  BY <1>1, OnlyWrites DEF IInv
<1>4. \A i \in DOMAIN stream' : stream'[i].kind # "read"
  <2>1. /\ DOMAIN Older(stream) = 1 .. Len(stream) /\ DOMAIN stream = 1 .. Len(stream)
        /\ \A i \in 1 .. Len(stream) :
             Older(stream)[i] = [stream[i] EXCEPT !.own = FALSE] /\ stream[i] \in Piece
    BY <1>2, OlderKind
  <2>2. \A e \in Piece : [e EXCEPT !.own = FALSE].kind = e.kind
    BY DEF Piece
  <2>3. \A i \in 1 .. Len(stream) : Older(stream)[i].kind # "read"
    BY <1>3, <2>1, <2>2
  <2> QED
    BY <1>1, <2>1, <2>3
<1>5. CASE sockfd # "open"
  BY <1>1, <1>4, <1>5, OnlyWritesNext
<1>6. CASE sockfd = "open"
  <2> DEFINE q == Older(requests)
             R == RequestType
  <2>1. /\ DOMAIN q = 1 .. Len(requests) /\ DOMAIN requests = 1 .. Len(requests)
        /\ \A i \in 1 .. Len(requests) :
             q[i] = [requests[i] EXCEPT !.own = FALSE] /\ requests[i] \in R
    <3>1. requests \in Seq(R)
      BY <1>2 DEF Requests
    <3> HIDE DEF R
    <3>2. /\ DOMAIN q = 1 .. Len(requests)
          /\ \A i \in 1 .. Len(requests) : q[i] = [requests[i] EXCEPT !.own = FALSE]
      BY <3>1, OlderKind
    <3>3. DOMAIN requests = 1 .. Len(requests)
          /\ \A i \in 1 .. Len(requests) : requests[i] \in R
      BY <3>1
    <3> QED
      BY <3>2, <3>3
  <2>2. \A e \in R : [e EXCEPT !.own = FALSE] \in R /\ [e EXCEPT !.own = FALSE].kind = e.kind
    BY DEF RequestType
  <2>3. q \in Seq(R)
    BY <1>2, <2>2, OlderType DEF Requests
  <2>4. \A i \in 1 .. Len(q) : q[i].kind # "read"
    <3>1. DOMAIN q = 1 .. Len(q)
      BY <2>3
    <3> QED
      BY <1>3, <2>1, <2>2, <3>1
  <2>5. Request \in R /\ Request.own
    <3>1. last_position' \in Angle /\ 0 \in Angle
      BY AimType, MotorAssumption DEF Send, IInv, TypeOK, Angle, MotorAssumption
    <3> QED
      BY <3>1 DEF Request, RequestType, IInv, TypeOK
  <2>6. /\ requests' = Append(q, Request) /\ Len(requests') = Len(q) + 1
        /\ DOMAIN requests' = 1 .. Len(q) + 1
        /\ requests'[Len(q) + 1] = Request
        /\ \A i \in 1 .. Len(q) : requests'[i] = q[i]
        /\ Len(q) \in Nat
    <3> HIDE DEF q
    <3> QED
      BY <1>1, <1>6, <2>3, <2>5, AppendProperties DEF q
  <2>7. \A i \in DOMAIN requests' : requests'[i].kind = "read" =>
          requests'[i].own /\ i = Len(requests') /\ awaiting' /\ exchange' \in Reads
    <3> HIDE DEF q
    <3>1. Request.kind = "read" => exchange \in Reads
      BY DEF Request
    <3>2. SUFFICES ASSUME NEW i \in 1 .. Len(q) + 1, requests'[i].kind = "read"
                   PROVE  requests'[i].own /\ i = Len(requests') /\ exchange \in Reads
      BY <1>1, <2>6
    <3>3. i = Len(q) + 1
      BY <2>4, <2>6, <3>2
    <3> QED
      BY <2>5, <2>6, <3>1, <3>2, <3>3
  <2> QED
    BY <1>4, <2>7 DEF ReadsAreOwn
<1> QED
  BY <1>5, <1>6

\* Some pieces are received for a write: none of them is a read's.
LEMMA ReceiveWriteCurrent ==
  ASSUME IInv, NEW k \in 1 .. Len(stream), ReceiveWrite(k)
  PROVE  ReadsAreOwn'
<1>1. /\ exchange \notin Reads /\ requests' = requests
      /\ stream' = SubSeq(stream, k + 1, Len(stream))
  BY DEF ReceiveWrite
<1>2. /\ \A i \in DOMAIN requests : requests[i].kind # "read"
      /\ \A i \in DOMAIN stream : stream[i].kind # "read"
  BY <1>1, OnlyWrites DEF IInv
<1>3. stream \in Seq(Piece) /\ Len(stream) \in Nat /\ DOMAIN stream = 1 .. Len(stream)
  BY DEF IInv, TypeOK
<1>4. \A i \in DOMAIN stream' : i \in Nat /\ i + k \in DOMAIN stream
                                /\ stream'[i] = stream[i + k]
  BY <1>1, <1>3
<1> QED
  BY <1>1, <1>2, <1>4, OnlyWritesNext

\* What readPLC takes begins with its own response, which nothing follows.
LEMMA ReceiveReadEmpties ==
  ASSUME IInv, NEW k \in 1 .. Len(stream), ReceiveRead(k)
  PROVE  stream' = << >> /\ requests' = << >> /\ current'
<1> DEFINE got == SubSeq(stream, 1, k)
<1>1. /\ Accepted(got) /\ requests' = requests
      /\ stream' = SubSeq(stream, k + 1, Len(stream))
      /\ current' = (k = 2 /\ \A i \in 1 .. k : got[i].own)
  BY DEF ReceiveRead
<1>2. stream \in Seq(Piece) /\ Len(stream) \in Nat /\ DOMAIN stream = 1 .. Len(stream)
  BY DEF IInv, TypeOK
<1>3. Len(got) = k /\ \A i \in 1 .. k : got[i] = stream[i]
  BY <1>2
<1>4. k = 2 /\ stream[1].kind = "read" /\ stream[1].part = 1 /\ 1 \in DOMAIN stream
  <2>1. k = 2
    BY <1>1, <1>3 DEF Accepted
  <2>2. got[1] = stream[1]
    BY <1>3, <2>1
  <2> HIDE DEF got
  <2> QED
    BY <1>1, <1>2, <2>1, <2>2 DEF Accepted
<1>5. stream[1].own /\ stream[2].own /\ Len(stream) = 2 /\ requests = << >>
  <2>1. /\ stream[1].own /\ requests = << >>
        /\ stream[1].part = 1 => 1 + 1 = Len(stream) /\ stream[1 + 1].own
    BY <1>4 DEF IInv, ReadsAreOwn
  <2> QED
    BY <1>4, <2>1
<1>6. stream' = << >> /\ requests' = << >>
  <2>1. SubSeq(stream, 3, 2) = << >>
    BY <1>2, SubSeqProperties
  <2> QED
    BY <1>1, <1>4, <1>5, <2>1
<1>7. current'
  <2>1. \A i \in 1 .. k : got[i].own
    <3>1. \A i \in 1 .. k : i = 1 \/ i = 2
      BY <1>4
    <3>2. \A i \in 1 .. k : got[i] = stream[i]
      BY <1>3
    <3> HIDE DEF got
    <3> QED
      BY <1>5, <3>1, <3>2
  <2> HIDE DEF got
  <2> QED
    BY <1>1, <1>4, <2>1, Zenon
<1> QED
  BY <1>6, <1>7

\* So there is nothing left that could be taken for the response to another one.
LEMMA ReceiveReadCurrent ==
  ASSUME IInv, NEW k \in 1 .. Len(stream), ReceiveRead(k)
  PROVE  ReadsAreOwn' /\ FeedbackIsCurrent'
BY ReceiveReadEmpties, NothingToRead DEF FeedbackIsCurrent

\* A read is answered when all that came before it has been.
LEMMA AnswerCurrent ==
  ASSUME IInv, Answer
  PROVE  ReadsAreOwn'
<1> DEFINE r == Head(requests)
           piece(part, info) == [part |-> part, kind |-> r.kind, serial |-> r.serial,
                                 info |-> info, own |-> r.own]
<1>1. PICK info \in Infos : stream' = stream \o <<piece(1, info), piece(2, info)>>
  BY DEF Answer
<1>2. /\ requests # << >> /\ requests' = Tail(requests)
      /\ exchange' = exchange /\ awaiting' = awaiting
  BY DEF Answer
<1>3. /\ requests \in Requests /\ stream \in Seq(Piece)
      /\ Len(stream) \in Nat /\ DOMAIN stream = 1 .. Len(stream)
  BY DEF IInv, TypeOK, Requests
<1>4. /\ r = requests[1] /\ 1 \in DOMAIN requests
      /\ Len(requests') = Len(requests) - 1 /\ Len(requests) \in Nat
      /\ DOMAIN requests' = 1 .. Len(requests) - 1
      /\ \A i \in 1 .. Len(requests) - 1 : /\ requests'[i] = requests[i + 1]
                                            /\ i + 1 \in DOMAIN requests
  BY <1>2, <1>3 DEF Requests
<1>5. /\ Len(stream') = Len(stream) + 2 /\ DOMAIN stream' = 1 .. Len(stream) + 2
      /\ \A i \in 1 .. Len(stream) : stream'[i] = stream[i]
      /\ stream'[Len(stream) + 1] = piece(1, info)
      /\ stream'[Len(stream) + 2] = piece(2, info)
  <2> HIDE DEF piece
  <2> QED
    BY <1>1, <1>3
<1>6. \A i \in DOMAIN stream : stream[i].kind # "read"
  BY <1>2 DEF IInv, ReadsAreOwn
<1>7. \A i \in DOMAIN requests' : requests'[i].kind = "read" =>
        requests'[i].own /\ i = Len(requests') /\ awaiting' /\ exchange' \in Reads
  BY <1>2, <1>4 DEF IInv, ReadsAreOwn
<1>8. ASSUME NEW i \in DOMAIN stream', stream'[i].kind = "read"
      PROVE  /\ stream'[i].own /\ requests' = << >>
             /\ awaiting' /\ exchange' \in Reads
             /\ stream'[i].part = 1 => i + 1 = Len(stream') /\ stream'[i + 1].own
  <2>1. i \in {Len(stream) + 1, Len(stream) + 2}
    BY <1>3, <1>5, <1>6, <1>8
  <2>2. r.kind = "read"
    BY <1>5, <1>8, <2>1
  <2>3. r.own /\ Len(requests) = 1 /\ awaiting /\ exchange \in Reads
    BY <1>4, <2>2 DEF IInv, ReadsAreOwn
  <2>4. requests' = << >>
    BY <1>2, <1>3, <2>3 DEF Requests
  <2>5. piece(1, info).own /\ piece(2, info).own /\ piece(2, info).part = 2
    BY <2>3
  <2> HIDE DEF piece, r
  <2> QED
    BY <1>2, <1>3, <1>5, <2>1, <2>3, <2>4, <2>5
<1> QED
  BY <1>7, <1>8 DEF ReadsAreOwn

\* The invariant is inductive: with the types, whose the responses on their way are.
THEOREM Inductive == Spec => []IInv
<1>1. Init => IInv
  <2> SUFFICES ASSUME Init PROVE ReadsAreOwn /\ FeedbackIsCurrent
    BY InitType DEF IInv
  <2>1. requests = << >> /\ stream = << >> /\ current
    BY DEF Init
  <2> QED
    BY <2>1 DEF ReadsAreOwn, FeedbackIsCurrent
<1>2. IInv /\ [Next]_vars => IInv'
  <2> SUFFICES ASSUME IInv, [Next]_vars PROVE ReadsAreOwn' /\ FeedbackIsCurrent'
    BY StepType DEF IInv
  <2>1. CASE Send
    BY <2>1, SendCurrent DEF Send, IInv, FeedbackIsCurrent
  <2>2. CASE SendFails
    <3>1. requests' = << >> /\ stream' = << >> /\ current' = current
      BY <2>2, FailedType, DropType DEF SendFails, Close, IInv
    <3> QED
      BY <3>1, NothingToRead DEF IInv, FeedbackIsCurrent
  <2>3. CASE ReceiveFails
    <3>1. requests' = << >> /\ stream' = << >> /\ current' = current
      BY <2>3, FailedType, DropType DEF ReceiveFails, Close, IInv
    <3> QED
      BY <3>1, NothingToRead DEF IInv, FeedbackIsCurrent
  <2>4. ASSUME NEW k \in 1 .. Len(stream), ReceiveWrite(k)
        PROVE  ReadsAreOwn' /\ FeedbackIsCurrent'
    BY <2>4, ReceiveWriteCurrent DEF ReceiveWrite, IInv, FeedbackIsCurrent
  <2>5. ASSUME NEW k \in 1 .. Len(stream), ReceiveRead(k)
        PROVE  ReadsAreOwn' /\ FeedbackIsCurrent'
    BY <2>5, ReceiveReadCurrent
  <2>6. ASSUME NEW k \in 1 .. Len(stream), RefuseRead(k)
        PROVE  ReadsAreOwn' /\ FeedbackIsCurrent'
    <3>1. requests' = << >> /\ stream' = << >> /\ current' = current
      BY <2>6, FailedType DEF RefuseRead, IInv
    <3> QED
      BY <3>1, NothingToRead DEF IInv, FeedbackIsCurrent
  <2>7. CASE Answer
    BY <2>7, AnswerCurrent DEF Answer, IInv, FeedbackIsCurrent
  <2>8. CASE Lose
    <3>1. /\ requests' = << >> /\ awaiting' = awaiting /\ exchange' = exchange
          /\ stream' = stream \/ stream' = << >>
          /\ current' = current
      BY <2>8, DropType DEF Lose
    <3> QED
      BY <3>1 DEF IInv, ReadsAreOwn, FeedbackIsCurrent
  <2>9. CASE UNCHANGED vars
    BY <2>9 DEF vars, IInv, ReadsAreOwn, FeedbackIsCurrent
  <2> QED
    BY <2>1, <2>2, <2>3, <2>4, <2>5, <2>6, <2>7, <2>8, <2>9 DEF Next, Client
<1> QED
  BY <1>1, <1>2, PTL DEF Spec

\* What readPLC takes for the feedback is the whole response to the read it has
\* just sent, with any number of faults, of responses to writes left over and of
\* requests under way.
THEOREM FeedbackCorrect == Spec => []FeedbackIsCurrent
<1>1. IInv => FeedbackIsCurrent
  BY DEF IInv
<1> QED
  BY <1>1, Inductive, PTL

-----------------------------------------------------------------------------
(* How far a motor swings: the client knows where it is, unless an angle was *)
(* lost, and sends one angle at a time.                                      *)

\* What is said of one angle that is on its way: it is the last one, it has been
\* reckoned from where the motor is, and the client waits for the response to it, or
\* takes what comes to its next read for one.
OnItsWay(r) ==
  /\ r.to = last_position
  /\ missed \/ Unwinds(motor, r.to)
  /\ exchange \in {"check", "read"} \/ (awaiting /\ exchange \in Moves)

\* An angle that neither is on its way nor was lost has reached the motor.
PositionKnown ==
  /\ \A i \in DOMAIN requests : requests[i].kind = "move" =>
       /\ OnItsWay(requests[i])
       /\ \A j \in DOMAIN requests : requests[j].kind = "move" => i = j
  /\ (\A i \in DOMAIN requests : requests[i].kind # "move") =>
       missed \/ motor = last_position
  /\ exchange \notin {"command", "read"} => last_position = 0

\* No exchange of the startup follows those of the loop.
LEMMA LoopStays ==
  ASSUME NEW info, exchange' = After(info), exchange \in Exchanges,
         exchange' \notin {"command", "read"}
  PROVE  exchange \notin {"command", "read"}
BY DEF After, Exchanges

\* Whatever is lost, an angle that was on its way, or was to be sent, is missed.
LEMMA DropKnown ==
  ASSUME PositionKnown, Drop, motor' = motor,
         last_position' = last_position \/ (~awaiting /\ exchange \in Moves),
         exchange' \notin {"command", "read"} => last_position' = 0
  PROVE  PositionKnown'
<1>1. requests' = << >>
  BY DropType
<1>2. CASE missed \/ (~awaiting /\ exchange \in Moves)
           \/ \E i \in DOMAIN requests : requests[i].kind = "move"
  BY <1>1, <1>2 DEF Drop, PositionKnown
<1>3. CASE ~(missed \/ (~awaiting /\ exchange \in Moves)
             \/ \E i \in DOMAIN requests : requests[i].kind = "move")
  BY <1>1, <1>3 DEF PositionKnown
<1> QED
  BY <1>2, <1>3

\* An exchange fails.
LEMMA FailedKnown ==
  ASSUME TypeOK, PositionKnown, Failed, motor' = motor,
         last_position' = last_position \/ (~awaiting /\ exchange \in Moves),
         last_position' = last_position \/ exchange = "command"
  PROVE  PositionKnown'
<1>1. Drop
  BY DEF Failed, Close, Connected, Refused
<1>2. exchange' \notin {"command", "read"} => last_position' = 0
  BY LoopStays DEF Failed, Proceed, TypeOK, PositionKnown
<1> QED
  BY <1>1, <1>2, DropKnown

\* An angle is sent where the last one has arrived.
LEMMA SendKnown ==
  ASSUME IInv, PositionKnown, Send
  PROVE  PositionKnown'
<1>1. /\ ~awaiting /\ awaiting' /\ exchange' = exchange /\ motor' = motor /\ Aim
      /\ exchange # "command" => last_position' = last_position
  BY DEF Send, Aim
<1>2. exchange' \notin {"command", "read"} => last_position' = 0
  BY <1>1 DEF PositionKnown
<1>3. CASE sockfd # "open"
  <2>1. Drop
    BY <1>3 DEF Send
  <2> QED
    BY <1>1, <1>2, <2>1, DropKnown DEF Moves
<1>4. CASE sockfd = "open"
  <2> DEFINE q == Older(requests)
  <2>1. requests' = Append(q, Request) /\ missed' = missed
    BY <1>4 DEF Send
  <2>2. /\ requests \in Requests /\ exchange \in Exchanges
        /\ last_position \in Angle /\ motor \in Angle /\ MotorAssumption
    BY MotorAssumption DEF IInv, TypeOK, Requests
  <2>3. last_position' \in Angle /\ Unwinds(last_position, last_position')
    BY <1>1, <2>2, AimType
  <2>4. \A e \in RequestType : /\ [e EXCEPT !.own = FALSE] \in RequestType
                              /\ [e EXCEPT !.own = FALSE].kind = e.kind
                              /\ [e EXCEPT !.own = FALSE].to = e.to
    BY DEF RequestType
  <2>5. /\ q \in Seq(RequestType) /\ Len(q) = Len(requests) /\ Len(q) \in Nat
        /\ DOMAIN requests = 1 .. Len(q)
        /\ \A i \in 1 .. Len(q) : q[i].kind = requests[i].kind /\ q[i].to = requests[i].to
    <3>1. q \in Seq(RequestType)
      BY <2>2, <2>4, OlderType DEF Requests
    <3>2. requests \in Seq(RequestType)
      BY <2>2 DEF Requests
    <3>3. /\ DOMAIN q = 1 .. Len(requests) /\ Len(requests) \in Nat
          /\ \A i \in 1 .. Len(requests) : q[i] = [requests[i] EXCEPT !.own = FALSE]
      BY <3>2, OlderKind
    <3>4. /\ DOMAIN requests = 1 .. Len(requests) /\ DOMAIN q = 1 .. Len(q)
          /\ Len(q) \in Nat /\ \A i \in 1 .. Len(requests) : requests[i] \in RequestType
      BY <3>1, <3>2
    <3> HIDE DEF q
    <3>5. Len(q) = Len(requests)
      BY <3>3, <3>4
    <3> QED
      BY <2>4, <3>1, <3>3, <3>4, <3>5
  <2>6. Request \in RequestType
    BY <2>2, <2>3 DEF Request, RequestType, IInv, TypeOK, Angle, MotorAssumption
  <2>7. /\ DOMAIN requests' = 1 .. Len(q) + 1 /\ requests'[Len(q) + 1] = Request
        /\ \A i \in 1 .. Len(q) : requests'[i] = q[i]
    <3> HIDE DEF q
    <3> QED
      BY <2>1, <2>5, <2>6, AppendProperties
  <2> HIDE DEF q
  <2>8. CASE exchange \in Moves
    <3>1. \A i \in DOMAIN requests : requests[i].kind # "move"
      BY <1>1, <2>8 DEF PositionKnown, OnItsWay, Moves
    <3>2. missed \/ motor = last_position
      BY <3>1 DEF PositionKnown
    <3>3. Request.kind = "move" /\ Request.to = last_position'
      BY <1>1, <1>2, <2>8 DEF Request, Moves, Reads
    <3>4. missed \/ Unwinds(motor, Request.to)
      BY <2>3, <3>2, <3>3
    <3>5. \A i \in DOMAIN requests' : requests'[i].kind = "move" => i = Len(q) + 1
      BY <2>5, <2>7, <3>1
    <3>6. /\ missed' \/ Unwinds(motor', Request.to)
          /\ awaiting' /\ exchange' \in Moves
      BY <1>1, <2>1, <2>8, <3>3, <3>4
    <3> QED
      BY <1>2, <2>5, <2>7, <3>3, <3>5, <3>6 DEF PositionKnown, OnItsWay
  <2>9. CASE exchange \notin Moves
    <3>1. Request.kind # "move" /\ last_position' = last_position
      BY <1>1, <2>9 DEF Request, Moves
    <3>2. \A i \in DOMAIN requests' : requests'[i].kind = "move" =>
            /\ i \in DOMAIN requests /\ requests[i].kind = "move"
            /\ requests'[i].to = requests[i].to
      BY <2>5, <2>7, <3>1
    <3>3. \A i \in DOMAIN requests : requests[i].kind = "move" =>
            i \in DOMAIN requests' /\ requests'[i].kind = "move"
      BY <2>5, <2>7
    <3>4. \A i \in DOMAIN requests' : requests'[i].kind = "move" =>
            /\ requests'[i].to = last_position'
            /\ missed' \/ Unwinds(motor', requests'[i].to)
            /\ exchange' \in {"check", "read"} \/ (awaiting' /\ exchange' \in Moves)
            /\ \A j \in DOMAIN requests' : requests'[j].kind = "move" => i = j
      BY <1>1, <2>1, <3>1, <3>2 DEF PositionKnown, OnItsWay
    <3>5. (\A i \in DOMAIN requests' : requests'[i].kind # "move") =>
            missed' \/ motor' = last_position'
      BY <1>1, <2>1, <3>1, <3>3 DEF PositionKnown
    <3> QED
      BY <1>2, <3>4, <3>5 DEF PositionKnown, OnItsWay
  <2> QED
    BY <2>8, <2>9
<1> QED
  BY <1>3, <1>4

\* The response to an angle, or what is taken for it, has come.
LEMMA ReceiveWriteKnown ==
  ASSUME IInv, PositionKnown, NEW k \in 1 .. Len(stream), ReceiveWrite(k)
  PROVE  PositionKnown'
<1>1. /\ exchange \in Exchanges /\ exchange \notin Reads
      /\ exchange' = After(feedback_allinfo)
      /\ requests' = requests /\ last_position' = last_position /\ motor' = motor
      /\ missed' = missed
  BY DEF ReceiveWrite, Proceed, IInv, TypeOK
<1>2. exchange' \notin {"command", "read"} => last_position' = 0
  BY <1>1, LoopStays DEF PositionKnown
<1>3. exchange \in Moves => exchange' \in {"check", "read"}
  BY <1>1 DEF Moves, After
<1> QED
  BY <1>1, <1>2, <1>3 DEF PositionKnown, OnItsWay, Reads

\* A read that is answered leaves no angle on its way.
LEMMA ReceiveReadKnown ==
  ASSUME IInv, PositionKnown, NEW k \in 1 .. Len(stream), ReceiveRead(k)
  PROVE  PositionKnown'
<1>1. /\ requests' = << >>
      /\ exchange \in Exchanges /\ exchange' = After(feedback_allinfo')
      /\ last_position' = last_position /\ motor' = motor /\ missed' = missed
  BY ReceiveReadEmpties DEF ReceiveRead, Proceed, IInv, TypeOK
<1>2. exchange' \notin {"command", "read"} => last_position' = 0
  BY <1>1, LoopStays DEF PositionKnown
<1>3. \A i \in DOMAIN requests : requests[i].kind # "move"
  BY <1>1 DEF ReceiveRead
<1> QED
  BY <1>1, <1>2, <1>3 DEF PositionKnown

\* The PLC gets an angle, or answers something else.
LEMMA AnswerKnown ==
  ASSUME IInv, PositionKnown, Answer
  PROVE  PositionKnown'
<1>1. /\ requests \in Requests /\ requests # << >> /\ requests' = Tail(requests)
      /\ exchange' = exchange /\ awaiting' = awaiting /\ last_position' = last_position
  BY DEF Answer, IInv, TypeOK, Requests
<1>2. /\ Head(requests) = requests[1] /\ 1 \in DOMAIN requests
      /\ DOMAIN requests = 1 .. Len(requests) /\ Len(requests) \in Nat
      /\ DOMAIN requests' = 1 .. Len(requests) - 1
      /\ \A i \in 1 .. Len(requests) - 1 : requests'[i] = requests[i + 1]
  BY <1>1 DEF Requests
<1>3. exchange' \notin {"command", "read"} => last_position' = 0
  BY <1>1 DEF PositionKnown
<1>4. CASE requests[1].kind = "move"
  <2>1. \A i \in DOMAIN requests' : requests'[i].kind # "move"
    BY <1>2, <1>4 DEF PositionKnown
  <2>2. motor' = requests[1].to /\ requests[1].to = last_position
    BY <1>2, <1>4 DEF Answer, PositionKnown, OnItsWay
  <2> QED
    BY <1>1, <1>3, <2>1, <2>2 DEF PositionKnown
<1>5. CASE requests[1].kind # "move"
  <2>1. motor' = motor /\ missed' = missed
    BY <1>2, <1>5 DEF Answer
  <2>2. \A i \in DOMAIN requests' : i + 1 \in DOMAIN requests
                                   /\ requests'[i] = requests[i + 1]
    BY <1>2
  <2>3. \A i \in DOMAIN requests' : requests'[i].kind = "move" =>
          /\ requests'[i].to = last_position'
          /\ missed' \/ Unwinds(motor', requests'[i].to)
          /\ exchange' \in {"check", "read"} \/ (awaiting' /\ exchange' \in Moves)
          /\ \A j \in DOMAIN requests' : requests'[j].kind = "move" => i = j
    <3>1. \A i \in DOMAIN requests' : requests'[i].kind = "move" =>
            /\ requests'[i].to = last_position'
            /\ missed' \/ Unwinds(motor', requests'[i].to)
            /\ exchange' \in {"check", "read"} \/ (awaiting' /\ exchange' \in Moves)
      BY <1>1, <2>1, <2>2 DEF PositionKnown, OnItsWay
    <3>2. ASSUME NEW i \in DOMAIN requests', NEW j \in DOMAIN requests',
                 requests'[i].kind = "move", requests'[j].kind = "move"
          PROVE  i = j
      <4>1. i + 1 = j + 1
        BY <2>2, <3>2 DEF PositionKnown
      <4> QED
        BY <1>2, <4>1
    <3> QED
      BY <3>1, <3>2
  <2>4. (\A i \in DOMAIN requests' : requests'[i].kind # "move") =>
          missed' \/ motor' = last_position'
    <3>1. \A i \in DOMAIN requests : i = 1 \/ i - 1 \in 1 .. Len(requests) - 1
      BY <1>2
    <3>2. \A i \in DOMAIN requests : i = 1 \/ requests'[i - 1] = requests[i]
      BY <1>2, <3>1
    <3>3. (\A i \in DOMAIN requests' : requests'[i].kind # "move") =>
            \A i \in DOMAIN requests : requests[i].kind # "move"
      BY <1>2, <1>5, <3>1, <3>2
    <3> QED
      BY <1>1, <2>1, <3>3 DEF PositionKnown
  <2> QED
    BY <1>3, <2>3, <2>4 DEF PositionKnown, OnItsWay
<1> QED
  BY <1>4, <1>5

\* The client knows where the motor is.
LEMMA Known == Spec => []PositionKnown
<1>1. Init => PositionKnown
  <2> SUFFICES ASSUME Init PROVE PositionKnown
    OBVIOUS
  <2>1. requests = << >> /\ missed /\ last_position = 0
    BY DEF Init
  <2> QED
    BY <2>1 DEF PositionKnown
<1>2. IInv /\ PositionKnown /\ [Next]_vars => PositionKnown'
  <2> SUFFICES ASSUME IInv, PositionKnown, [Next]_vars PROVE PositionKnown'
    OBVIOUS
  <2> USE DEF IInv
  <2>1. CASE Send
    BY <2>1, SendKnown
  <2>2. CASE SendFails
    <3>1. /\ ~awaiting /\ motor' = motor
          /\ last_position' = last_position \/ exchange = "command"
          /\ exchange \in Lenient => Close /\ exchange' = exchange
          /\ exchange \notin Lenient => Failed
      BY <2>2 DEF SendFails, Aim
    <3>2. CASE exchange \in Lenient
      <4>1. last_position' = last_position /\ exchange' = exchange /\ Drop
        BY <3>1, <3>2 DEF Lenient, Close
      <4>2. exchange' \notin {"command", "read"} => last_position' = 0
        BY <4>1 DEF PositionKnown
      <4> QED
        BY <3>1, <4>1, <4>2, DropKnown
    <3>3. CASE exchange \notin Lenient
      BY <3>1, <3>3, FailedKnown DEF Moves
    <3> QED
      BY <3>2, <3>3
  <2>3. CASE ReceiveFails
    BY <2>3, FailedKnown DEF ReceiveFails
  <2>4. ASSUME NEW k \in 1 .. Len(stream), ReceiveWrite(k)
        PROVE  PositionKnown'
    BY <2>4, ReceiveWriteKnown
  <2>5. ASSUME NEW k \in 1 .. Len(stream), ReceiveRead(k)
        PROVE  PositionKnown'
    BY <2>5, ReceiveReadKnown
  <2>6. ASSUME NEW k \in 1 .. Len(stream), RefuseRead(k)
        PROVE  PositionKnown'
    BY <2>6, FailedKnown DEF RefuseRead
  <2>7. CASE Answer
    BY <2>7, AnswerKnown
  <2>8. CASE Lose
    <3>1. /\ Drop /\ motor' = motor /\ exchange' = exchange
          /\ last_position' = last_position
      BY <2>8 DEF Lose
    <3>2. exchange' \notin {"command", "read"} => last_position' = 0
      BY <3>1 DEF PositionKnown
    <3> QED
      BY <3>1, <3>2, DropKnown
  <2>9. CASE UNCHANGED vars
    BY <2>9 DEF vars, PositionKnown, OnItsWay
  <2> QED
    BY <2>1, <2>2, <2>3, <2>4, <2>5, <2>6, <2>7, <2>8, <2>9 DEF Next, Client
<1> QED
  BY <1>1, <1>2, Inductive, PTL DEF Spec

\* A motor that has got every angle swings by more than half a turn only to come back
\* from beyond a turn, whatever responses are late, split or lost; after an angle
\* that was lost min_position reckons from the wrong one, and it may swing farther.
THEOREM SwingsCorrect == Spec => LongSwingsUnwind
<1>1. IInv /\ PositionKnown /\ [Next]_vars =>
        [ Abs(motor' - motor) > Half
            => \/ missed
               \/ Abs(motor) > 2 * Half /\ Abs(motor') < Abs(motor) ]_motor
  <2> SUFFICES ASSUME IInv, PositionKnown, Next, motor' # motor,
                      Abs(motor' - motor) > Half
               PROVE  \/ missed
                      \/ Abs(motor) > 2 * Half /\ Abs(motor') < Abs(motor)
    BY DEF vars
  <2>1. Answer
    BY DEF Next, Client, Send, SendFails, ReceiveFails, ReceiveWrite, ReceiveRead,
           RefuseRead, Lose
  <2>2. Head(requests).kind = "move" /\ motor' = Head(requests).to
    BY <2>1 DEF Answer
  <2>3. Head(requests) = requests[1] /\ 1 \in DOMAIN requests
    BY <2>1 DEF Answer, IInv, TypeOK
  <2>4. missed \/ Unwinds(motor, motor')
    BY <2>2, <2>3 DEF PositionKnown, OnItsWay
  <2> QED
    BY <2>4 DEF Unwinds
<1> QED
  BY <1>1, Inductive, Known, PTL DEF Spec, LongSwingsUnwind
=============================================================================
