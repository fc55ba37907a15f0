-------------------------- MODULE TcpServerProofs --------------------------
(***************************************************************************)
(* What TcpServer promises, for any connections, requests and limits.       *)
(* Every action changes one connection to a record built by Connected,      *)
(* Acknowledged, Sent and Unused: the lemmas about these are the proof.      *)
(***************************************************************************)
EXTENDS TcpServer, TLAPS

Answers == Requests \cup {Nothing}
Messages == Requests \cup {Scan, Foreign}

\* What holds of a connection while the buffer is b and the port flag is s.
Sound(k, b, s) ==
    /\ k.open \/ k.len = 0
    /\ k.heard => k.len > 0
    /\ k.len > 0 => b # Nothing
    /\ k.open /\ s => (k.len = 0 <=> k.textlen = 0)
    /\ k.len > 0 /\ k.owed \in Requests
          => k.first = [data |-> k.owed, text |-> Length(k.owed)]

IInv == TypeOK /\ \A c \in Conns : Sound(conn[c], sendbuf, served)

----------------------------------------------------------------------------
(* The operators the actions are built from.                               *)

\* An answer has a length, and only an answer has one above 0.
LEMMA LengthOfAnswer ==
  ASSUME NEW a \in Answers
  PROVE  Length(a) \in Nat /\ (Length(a) = 0 <=> a = Nothing)
<1>1. CASE a = Nothing
  BY <1>1 DEF Length
<1>2. CASE a # Nothing
  <2>1. a \in Requests /\ a.n \in Nat
    BY <1>2, ServerAssumption DEF Answers, Requests
  <2> QED BY <1>2, <2>1 DEF Length
<1> QED BY <1>1, <1>2

\* What every request leaves in the buffer is an answer.
LEMMA BuiltAnswer ==
  ASSUME TypeOK, NEW q \in Messages
  PROVE  Built(q) \in Answers /\ (sendbuf # Nothing => Built(q) # Nothing)
BY ServerAssumption DEF TypeOK, Messages, Built, Answers

\* A connection that is not in use is sound whatever it has left.
LEMMA UnusedSound ==
  ASSUME NEW n \in Nat, NEW b, NEW s
  PROVE  Unused(n) \in Connection /\ Sound(Unused(n), b, s)
BY ServerAssumption DEF Unused, Connection, Sound, Answers

\* Opening a connection that was not in use.
LEMMA ConnectedSound ==
  ASSUME TypeOK, NEW k \in Connection, ~k.open, Sound(k, sendbuf, served)
  PROVE  /\ Connected(k) \in Connection /\ Sound(Connected(k), sendbuf, served)
         /\ Connected(k).len = 0 /\ Connected(k).open
BY DEF Connected, Connection, Sound, TypeOK

\* The acknowledgement of everything that was outstanding.
LEMMA AcknowledgedSound ==
  ASSUME TypeOK, NEW k \in Connection, Sound(k, sendbuf, served)
  PROVE  /\ Acknowledged(k) \in Connection /\ Sound(Acknowledged(k), sendbuf, served)
         /\ Acknowledged(k).len = 0 /\ Acknowledged(k).open = k.open
<1>1. /\ 0 \in 0..MaxRtx /\ 0 \in 0..Hurry
      /\ (IF served THEN 0 ELSE k.textlen) \in Nat
  BY ServerAssumption DEF Connection
<1>2. Acknowledged(k) \in Connection
  BY <1>1 DEF Acknowledged, Connection
<1>3. /\ Acknowledged(k).len = 0 /\ Acknowledged(k).open = k.open
      /\ (served => Acknowledged(k).textlen = 0) /\ ~Acknowledged(k).heard
  BY DEF Acknowledged, Connection
<1> QED BY <1>2, <1>3 DEF Sound

\* Sending what the connection has left of the buffer changes nothing that counts.
LEMMA ResentSound ==
  ASSUME TypeOK, served, NEW k \in Connection, k.open, Sound(k, sendbuf, served)
  PROVE  LET r == Sent(k, sendbuf, k.textlen)
         IN  r \in Connection /\ Sound(r, sendbuf, served)
BY DEF Sent, Connection, Sound, TypeOK, Segments

\* A request: the answer is sent, or what was outstanding is sent again.
LEMMA AnsweredSound ==
  ASSUME TypeOK, served, NEW k \in Connection, k.open, Sound(k, sendbuf, served),
         NEW q \in Messages
  PROVE  Answered(k, q) \in Connection /\ Sound(Answered(k, q), Built(q), served)
<1> DEFINE o == IF k.len = 0 THEN q ELSE k.owed
           j == [k EXCEPT !.nrtx = 0, !.owed = o]
           t == TextAfter(k, q)
           b == Built(q)
<1>1. b \in Answers /\ (sendbuf # Nothing => b # Nothing)
  BY BuiltAnswer
<1>2. Length(b) \in Nat /\ (Length(b) = 0 <=> b = Nothing)
  BY <1>1, LengthOfAnswer
<1>3. t \in Nat
  BY <1>2 DEF TextAfter, Connection
<1>4. /\ j \in Connection /\ j.open /\ j.len = k.len /\ j.owed = o /\ j.first = k.first
      /\ j.heard = k.heard
  <2>1. 0 \in 0..MaxRtx /\ o \in Requests \cup {Scan, Foreign, Nothing}
    BY ServerAssumption DEF Connection, Messages
  <2> HIDE DEF o
  <2> QED BY <2>1 DEF Connection
<1>5. t = 0 => k.len = 0
  <2>1. k.len \in Nat /\ k.textlen \in Nat
    BY DEF Connection
  <2>2. CASE q = Foreign
    BY <2>1, <2>2 DEF TextAfter, Sound
  <2>3. CASE q # Foreign
    BY <2>1, <2>3, <1>1, <1>2 DEF TextAfter, Sound
  <2> QED BY <2>2, <2>3
<1>6. t > 0 => b # Nothing
  BY <1>1, <1>2 DEF TextAfter, Sound, Connection
<1>7. q \in Requests => b = q /\ t = Length(q)
  BY ServerAssumption DEF TextAfter, Built
<1> HIDE DEF o, j, t, b
<1>8. Sent(j, b, t) \in Connection
  BY <1>1, <1>3, <1>4 DEF Sent, Connection, Segments, Answers
<1>9. Sound(Sent(j, b, t), b, served)
  <2>1. CASE k.len = 0 /\ t > 0
    BY <2>1, <1>3, <1>4, <1>6, <1>7 DEF Sent, Sound, Connection, o
  <2>2. CASE k.len = 0 /\ t = 0
    BY <2>2, <1>3, <1>4 DEF Sent, Sound, Connection
  <2>3. CASE k.len > 0
    BY <2>3, <1>1, <1>3, <1>4, <1>5 DEF Sent, Sound, Connection, o
  <2>4. (k.len = 0 \/ k.len > 0) /\ (t = 0 \/ t > 0)
    BY <1>3 DEF Connection
  <2> QED BY <2>1, <2>2, <2>3, <2>4
<1> QED BY <1>8, <1>9 DEF Answered, o, j, t, b

\* A request, also one that came to a port that has been moved.
LEMMA HandledSound ==
  ASSUME TypeOK, NEW k \in Connection, k.open, Sound(k, sendbuf, served),
         NEW q \in Messages, Executed(q)
  PROVE  /\ Handled(k, q) \in Connection /\ Sound(Handled(k, q), sendbuf', served')
         /\ sendbuf' \in Answers /\ served' \in BOOLEAN /\ (served' => served)
         /\ (sendbuf # Nothing => sendbuf' # Nothing)
<1>1. /\ sendbuf' \in Answers /\ served' \in BOOLEAN /\ (served' => served)
      /\ (sendbuf # Nothing => sendbuf' # Nothing)
  BY BuiltAnswer DEF Executed, TypeOK, Answers
<1>2. CASE served
  <2>1. Answered(k, q) \in Connection /\ Sound(Answered(k, q), Built(q), served)
    BY <1>2, AnsweredSound
  <2>2. sendbuf' = Built(q)
    BY <1>2 DEF Executed
  <2>3. Sound(Answered(k, q), sendbuf', served')
    BY <1>1, <1>2, <2>1, <2>2 DEF Sound
  <2> QED BY <1>1, <1>2, <2>1, <2>3 DEF Handled
<1>3. CASE ~served
  BY <1>1, <1>3, ServerAssumption DEF Handled, Sound, Connection
<1> QED BY <1>2, <1>3 DEF TypeOK

----------------------------------------------------------------------------
(* The steps.                                                              *)

\* A step that leaves one connection sound leaves the others so: the buffer
\* may get another answer, but is not emptied, and the port is not moved back.
LEMMA OneConnection ==
  ASSUME IInv, NEW c \in Conns, NEW r \in Connection,
         conn' = [conn EXCEPT ![c] = r], Sound(r, sendbuf', served'),
         sendbuf' \in Answers, served' \in BOOLEAN, served' => served,
         sendbuf # Nothing => sendbuf' # Nothing
  PROVE  IInv'
<1>1. TypeOK'
  BY DEF IInv, TypeOK, Answers
<1>2. ASSUME NEW d \in Conns
      PROVE  Sound(conn'[d], sendbuf', served')
  <2>1. CASE d = c
    BY <2>1 DEF IInv, TypeOK
  <2>2. CASE d # c
    BY <2>2 DEF IInv, TypeOK, Sound
  <2> QED BY <2>1, <2>2
<1> QED BY <1>1, <1>2 DEF IInv

\* The connection before the step.
LEMMA Before ==
  ASSUME IInv, NEW c \in Conns
  PROVE  /\ conn[c] \in Connection /\ Sound(conn[c], sendbuf, served)
         /\ TypeOK /\ sendbuf \in Answers /\ served \in BOOLEAN
BY DEF IInv, TypeOK, Answers

\* Opening a connection, with or without a request.
LEMMA ConnectStep ==
  ASSUME IInv, NEW c \in Conns, Connect(c) \/ ConnectAsking(c)
  PROVE  IInv'
<1> PICK k \in Connection : k = conn[c]
  BY Before
<1>1. /\ TypeOK /\ Sound(k, sendbuf, served) /\ sendbuf \in Answers /\ served \in BOOLEAN
      /\ ~k.open
  BY Before DEF Connect, ConnectAsking
<1>2. PICK r \in Connection : /\ r = Connected(k) /\ Sound(r, sendbuf, served)
                              /\ r.len = 0 /\ r.open
  BY <1>1, ConnectedSound
<1>3. CASE Connect(c)
  BY <1>1, <1>2, <1>3, OneConnection DEF Connect
<1>4. CASE ConnectAsking(c)
  <2>1. PICK q \in From(c) : /\ conn' = [conn EXCEPT ![c] = Handled(r, q)]
                             /\ Executed(q)
    BY <1>2, <1>4 DEF ConnectAsking
  <2>2. q \in Messages
    BY DEF From, Messages
  <2> QED BY <1>1, <1>2, <2>1, <2>2, HandledSound, OneConnection
<1> QED BY <1>3, <1>4

\* A request that acknowledges what was outstanding.
LEMMA AskStep ==
  ASSUME IInv, NEW c \in Conns, Ask(c)
  PROVE  IInv'
<1> PICK k \in Connection : k = conn[c]
  BY Before
<1>1. /\ TypeOK /\ Sound(k, sendbuf, served) /\ sendbuf \in Answers /\ served \in BOOLEAN
      /\ k.open
  BY Before DEF Ask
<1>2. PICK r \in Connection : r = Acknowledged(k) /\ Sound(r, sendbuf, served) /\ r.open
  BY <1>1, AcknowledgedSound
<1>3. PICK q \in From(c) : conn' = [conn EXCEPT ![c] = Handled(r, q)] /\ Executed(q)
  BY <1>2 DEF Ask
<1>4. q \in Messages
  BY DEF From, Messages
<1> QED BY <1>1, <1>2, <1>3, <1>4, HandledSound, OneConnection

\* A request of a master that does not wait.
LEMMA AskAgainStep ==
  ASSUME IInv, NEW c \in Conns, AskAgain(c)
  PROVE  IInv'
<1> PICK k \in Connection : k = conn[c]
  BY Before
<1>1. /\ TypeOK /\ Sound(k, sendbuf, served) /\ sendbuf \in Answers /\ served \in BOOLEAN
      /\ k.open /\ k.hurried < Hurry
  BY Before DEF AskAgain
<1>2. k.hurried + 1 \in 0..Hurry
  BY <1>1, ServerAssumption DEF Connection
<1>3. PICK r \in Connection : r = Hurried(k)
  BY <1>2 DEF Connection, Hurried
<1>4. Sound(r, sendbuf, served) /\ r.open
  BY <1>1, <1>3 DEF Connection, Sound, Hurried
<1>5. PICK q \in From(c) : conn' = [conn EXCEPT ![c] = Handled(r, q)] /\ Executed(q)
  BY <1>3 DEF AskAgain
<1>6. q \in Messages
  BY DEF From, Messages
<1> QED BY <1>1, <1>4, <1>5, <1>6, HandledSound, OneConnection

\* An acknowledgement alone, a poll, a retransmission: what the connection has
\* left is sent, if anything.
LEMMA SendStep ==
  ASSUME IInv, NEW c \in Conns, Acked(c) \/ Poll(c) \/ Rexmit(c)
  PROVE  IInv'
<1> PICK k \in Connection : k = conn[c]
  BY Before
<1>1. TypeOK /\ Sound(k, sendbuf, served) /\ sendbuf \in Answers /\ served \in BOOLEAN
  BY Before
<1> DEFINE Resent(r) == IF served THEN Sent(r, sendbuf, r.textlen) ELSE r
<1>2. ASSUME NEW r \in Connection, Sound(r, sendbuf, served), r.open
      PROVE  Resent(r) \in Connection /\ Sound(Resent(r), sendbuf, served)
  BY <1>1, <1>2, ResentSound
<1>3. ASSUME NEW r \in Connection, Sound(r, sendbuf, served), r.open,
             conn' = [conn EXCEPT ![c] = Resent(r)], UNCHANGED <<sendbuf, served>>
      PROVE  IInv'
  <2> HIDE DEF Resent
  <2> QED BY <1>1, <1>2, <1>3, OneConnection
<1>4. CASE Acked(c)
  <2>1. k.open
    BY <1>1, <1>4 DEF Acked, Sound, Connection
  <2>2. PICK r \in Connection : r = Acknowledged(k) /\ Sound(r, sendbuf, served) /\ r.open
    BY <1>1, <2>1, AcknowledgedSound
  <2>3. conn' = [conn EXCEPT ![c] = Resent(r)] /\ UNCHANGED <<sendbuf, served>>
    BY <1>4, <2>2 DEF Acked
  <2> QED BY <1>3, <2>2, <2>3
<1>5. CASE Poll(c)
  <2>1. k.open /\ served
    BY <1>5 DEF Poll, MayPoll
  <2>2. 0 \in 0..MaxRtx
    BY ServerAssumption
  <2>3. PICK r \in Connection : r = [k EXCEPT !.nrtx = 0]
    BY <2>2 DEF Connection
  <2>4. Sound(r, sendbuf, served) /\ r.open /\ r.textlen = k.textlen
    BY <1>1, <2>1, <2>3 DEF Connection, Sound
  <2>5. /\ conn' = [conn EXCEPT ![c] = Sent([k EXCEPT !.nrtx = 0], sendbuf, k.textlen)]
        /\ UNCHANGED <<sendbuf, served>>
    BY <1>5, Zenon DEF Poll
  <2> QED BY <1>3, <2>1, <2>3, <2>4, <2>5
<1>6. CASE Rexmit(c)
  <2>1. k.open /\ k.nrtx < MaxRtx
    BY <1>1, <1>6 DEF Rexmit, MayRexmit, Sound, Connection
  <2>2. k.nrtx + 1 \in 0..MaxRtx
    BY <2>1, ServerAssumption DEF Connection
  <2>3. PICK r \in Connection : r = Retried(k)
    BY <2>2 DEF Connection, Retried
  <2>4. Sound(r, sendbuf, served) /\ r.open
    BY <1>1, <2>1, <2>3 DEF Connection, Sound, Retried
  <2>5. conn' = [conn EXCEPT ![c] = Resent(r)] /\ UNCHANGED <<sendbuf, served>>
    BY <1>6, <2>3 DEF Rexmit
  <2> QED BY <1>3, <2>4, <2>5
<1> QED BY <1>4, <1>5, <1>6

\* The end of a connection, with or without a last request.
LEMMA EndStep ==
  ASSUME IInv, NEW c \in Conns, TimedOut(c) \/ Abort(c) \/ Close(c) \/ CloseAsking(c)
  PROVE  IInv'
<1> PICK k \in Connection : k = conn[c]
  BY Before
<1>1. TypeOK /\ Sound(k, sendbuf, served) /\ sendbuf \in Answers /\ served \in BOOLEAN
  BY Before
<1>2. PICK r \in Connection : r = Acknowledged(k) /\ Sound(r, sendbuf, served) /\ r.open = k.open
  BY <1>1, AcknowledgedSound
<1>3. ASSUME NEW n \in Nat, conn' = [conn EXCEPT ![c] = Unused(n)],
             sendbuf' \in Answers, served' \in BOOLEAN, served' => served,
             sendbuf # Nothing => sendbuf' # Nothing
      PROVE  IInv'
  BY <1>3, UnusedSound, OneConnection
<1>4. CASE TimedOut(c) \/ Abort(c)
  <2>1. /\ k.textlen \in Nat /\ conn' = [conn EXCEPT ![c] = Unused(k.textlen)]
        /\ sendbuf' = sendbuf /\ served' = served
    BY <1>4 DEF TimedOut, Abort, Connection
  <2> QED BY <1>1, <1>3, <2>1
<1>5. CASE Close(c)
  <2>1. r.textlen \in Nat /\ conn' = [conn EXCEPT ![c] = Unused(r.textlen)]
    BY <1>2, <1>5 DEF Close, Connection
  <2> QED BY <1>1, <1>3, <1>5, <2>1 DEF Close
<1>6. CASE CloseAsking(c)
  <2>1. PICK q \in From(c) : /\ conn' = [conn EXCEPT ![c] = Unused(Handled(r, q).textlen)]
                             /\ Executed(q)
    BY <1>2, <1>6 DEF CloseAsking
  <2>2. q \in Messages /\ r.open
    BY <1>2, <1>6 DEF From, Messages, CloseAsking
  <2>3. /\ Handled(r, q) \in Connection /\ sendbuf' \in Answers /\ served' \in BOOLEAN
        /\ (served' => served) /\ (sendbuf # Nothing => sendbuf' # Nothing)
    BY <1>1, <1>2, <2>1, <2>2, HandledSound
  <2>4. Handled(r, q).textlen \in Nat
    BY <2>3 DEF Connection
  <2> QED BY <1>3, <2>1, <2>3, <2>4
<1> QED BY <1>4, <1>5, <1>6

\* Delivery, a new port, a reset, and no step at all.
LEMMA OtherStep ==
  ASSUME IInv, (\E c \in Conns : Deliver(c)) \/ MovePort \/ Restart \/ UNCHANGED vars
  PROVE  IInv'
<1>1. CASE \E c \in Conns : Deliver(c)
  <2> PICK c \in Conns : Deliver(c)
    BY <1>1
  <2> PICK k \in Connection : k = conn[c]
    BY Before
  <2>1. PICK r \in Connection : r = [k EXCEPT !.heard = TRUE]
    BY DEF Connection
  <2>2. conn' = [conn EXCEPT ![c] = r] /\ UNCHANGED <<sendbuf, served>> /\ k.len > 0
    BY <2>1 DEF Deliver
  <2>3. Sound(r, sendbuf, served)
    BY <2>1, <2>2, Before DEF Sound, Connection
  <2> QED BY <2>2, <2>3, Before, OneConnection
<1>2. CASE MovePort
  BY <1>2 DEF MovePort, IInv, TypeOK, Sound
<1>3. CASE Restart
  <2>1. \A c \in Conns : Unused(0) \in Connection /\ Sound(Unused(0), sendbuf', served')
    BY UnusedSound
  <2> QED BY <1>3, <2>1 DEF Restart, IInv, TypeOK
<1>4. CASE UNCHANGED vars
  BY <1>4 DEF vars, IInv, TypeOK, Sound
<1> QED BY <1>1, <1>2, <1>3, <1>4

\* The invariant holds of every reachable state.
LEMMA Invariance == Spec => []IInv
<1>1. Init => IInv
  <2>1. Unused(0) \in Connection /\ \A b, s : Sound(Unused(0), b, s)
    BY UnusedSound
  <2> QED BY <2>1 DEF Init, IInv, TypeOK
<1>2. IInv /\ [Next]_vars => IInv'
  <2> SUFFICES ASSUME IInv, [Next]_vars PROVE IInv'
    OBVIOUS
  <2>1. ASSUME NEW c \in Conns, Segment(c) \/ Timer(c) \/ Poll(c)
        PROVE  IInv'
    BY <2>1, ConnectStep, AskStep, AskAgainStep, SendStep, EndStep DEF Segment, Timer
  <2> QED BY <2>1, OtherStep DEF Next
<1> QED BY <1>1, <1>2, PTL DEF Spec

----------------------------------------------------------------------------
(* The theorems.                                                           *)

\* Connections, buffer and port keep their types, for any number of
\* connections (tcp_modbus.c:19-67).
THEOREM TypeCorrect == Spec => []TypeOK
BY Invariance, PTL DEF IInv

\* Whatever the connections ask and however their answers overwrite each other
\* in tcp_server_sendbuf, what is sent first is the connection's own answer.
THEOREM FirstAnswerIsOwn == Spec => []FirstIsOwn
<1>1. IInv => FirstIsOwn
  BY DEF IInv, Sound, FirstIsOwn
<1> QED BY <1>1, Invariance, PTL

\* A connection with nothing outstanding is never spoken to unasked.
THEOREM NothingUnasked == Spec => []QuietAtRest
<1>1. IInv => QuietAtRest
  BY DEF IInv, Sound, QuietAtRest
<1> QED BY <1>1, Invariance, PTL

----------------------------------------------------------------------------
(* A master alone.                                                         *)

\* An answer that is sent for a request which finds nothing outstanding stays in
\* the buffer with its length.
LEMMA AnsweredKept ==
  ASSUME TypeOK, NEW r \in Connection, r.len = 0, NEW q \in Messages, Executed(q),
         served', Handled(r, q).len > 0, Handled(r, q).owed \in Requests
  PROVE  sendbuf' = Handled(r, q).owed /\ Handled(r, q).textlen = Handled(r, q).len
<1>1. served
  BY DEF Executed, TypeOK
<1>2. sendbuf' = Built(q)
  BY <1>1 DEF Executed
<1>3. Handled(r, q).owed = q /\ Handled(r, q).textlen = Handled(r, q).len
  <2> DEFINE t == TextAfter(r, q)
             b == Built(q)
  <2>1. Handled(r, q) = Sent([r EXCEPT !.nrtx = 0, !.owed = q], b, t)
    BY <1>1 DEF Handled, Answered
  <2> HIDE DEF t, b
  <2> QED BY <2>1 DEF Sent, Connection
<1> QED BY <1>2, <1>3 DEF Built

\* If a single master is connected and waits for its answers, a retransmission
\* repeats the bytes of the first sending, which uip.h:696-698 asks of the
\* application.  With two masters the buffer holds the other's answer, with
\* one that does not wait its next one (tcp_modbus.c:58-66).
THEOREM AloneResendsTheSame ==
  ASSUME \A c, d \in Conns : c = d, Hurry = 0
  PROVE  Spec => []ResendsSame
<1>1. Init => ResendsSame
  BY DEF Init, ResendsSame, Unused
<1>2. IInv /\ ResendsSame /\ [Next]_vars => ResendsSame'
  <2> SUFFICES ASSUME IInv, ResendsSame, [Next]_vars,
                      NEW c \in Conns, served', conn'[c].len > 0, conn'[c].owed \in Requests
               PROVE  sendbuf' = conn'[c].owed /\ conn'[c].textlen = conn'[c].len
    BY DEF ResendsSame
  <2> PICK k \in Connection : k = conn[c]
    BY Before
  <2>1. TypeOK /\ Sound(k, sendbuf, served) /\ DOMAIN conn = Conns
    BY Before DEF TypeOK
  <2>2. ASSUME NEW r \in Connection, r.len = 0, NEW q \in Messages, Executed(q),
               conn' = [conn EXCEPT ![c] = Handled(r, q)]
        PROVE  sendbuf' = conn'[c].owed /\ conn'[c].textlen = conn'[c].len
    <3>1. conn'[c] = Handled(r, q)
      BY <2>1, <2>2
    <3> QED BY <2>1, <2>2, <3>1, AnsweredKept
  <2>3. CASE ConnectAsking(c)
    <3>1. PICK r \in Connection : r = Connected(k) /\ r.len = 0
      BY <2>1, <2>3, ConnectedSound DEF ConnectAsking
    <3>2. PICK q \in From(c) : conn' = [conn EXCEPT ![c] = Handled(r, q)] /\ Executed(q)
      BY <2>3, <3>1 DEF ConnectAsking
    <3> QED BY <2>2, <3>1, <3>2 DEF From, Messages
  <2>4. CASE Ask(c)
    <3>1. PICK r \in Connection : r = Acknowledged(k) /\ r.len = 0
      BY <2>1, AcknowledgedSound
    <3>2. PICK q \in From(c) : conn' = [conn EXCEPT ![c] = Handled(r, q)] /\ Executed(q)
      BY <2>4, <3>1 DEF Ask
    <3> QED BY <2>2, <3>1, <3>2 DEF From, Messages
  <2>5. ~AskAgain(c)
    BY DEF AskAgain, Connection
  <2>6. CASE Acked(c)
    <3>1. k.open /\ served
      BY <2>1, <2>6 DEF Acked, Sound, Connection
    <3>2. PICK r \in Connection : r = Acknowledged(k) /\ r.len = 0 /\ r.textlen = 0
      BY <2>1, <3>1, AcknowledgedSound DEF Sound
    <3>3. conn'[c] = Sent(r, sendbuf, r.textlen)
      BY <2>1, <2>6, <3>1, <3>2 DEF Acked
    <3> QED BY <3>2, <3>3 DEF Sent, Connection
  <2>7. CASE Poll(c)
    <3>1. k.textlen = 0 /\ k.len = 0
      BY <2>1, <2>7 DEF Poll, MayPoll, Sound
    <3>2. conn'[c] = Sent([k EXCEPT !.nrtx = 0], sendbuf, k.textlen)
      BY <2>1, <2>7 DEF Poll
    <3> QED BY <3>1, <3>2 DEF Sent, Connection
  <2>8. CASE Rexmit(c)
    <3>1. served /\ k.len > 0
      BY <2>8 DEF Rexmit, MayRexmit
    <3>2. conn'[c] = Sent(Retried(k), sendbuf, k.textlen) /\ sendbuf' = sendbuf
      BY <2>1, <2>8, <3>1 DEF Rexmit, Retried, Connection
    <3>3. /\ conn'[c].len = k.len /\ conn'[c].textlen = k.textlen
          /\ conn'[c].owed = k.owed
      BY <3>1, <3>2 DEF Sent, Retried, Connection
    <3> QED BY <3>1, <3>2, <3>3 DEF ResendsSame
  <2>9. CASE Connect(c)
    <3>1. Connected(k).len = 0 /\ conn'[c] = Connected(k)
      BY <2>1, <2>9, ConnectedSound DEF Connect
    <3> QED BY <3>1
  <2>10. CASE TimedOut(c) \/ Abort(c) \/ Close(c) \/ CloseAsking(c) \/ Restart
    <3>1. \A n : Unused(n).len = 0
      BY DEF Unused
    <3>2. \E n : conn'[c] = Unused(n)
      BY <2>1, <2>10, Zenon DEF TimedOut, Abort, Close, CloseAsking, Restart
    <3> QED BY <3>1, <3>2
  <2>11. CASE Deliver(c) \/ MovePort \/ UNCHANGED vars
    BY <2>1, <2>11 DEF Deliver, MovePort, vars, ResendsSame, Connection
  <2> QED BY <2>3, <2>4, <2>5, <2>6, <2>7, <2>8, <2>9, <2>10, <2>11
          DEF Next, Segment, Timer
<1> QED BY <1>1, <1>2, Invariance, PTL DEF Spec

----------------------------------------------------------------------------
(* The abstract server: what each connection has outstanding.              *)

\* A step of one connection, as the abstract server sees it.
LEMMA MappedStep ==
  ASSUME TypeOK, NEW c \in Conns, NEW r \in Connection, conn' = [conn EXCEPT ![c] = r]
  PROVE  /\ ~r.heard => Stream!Becomes(c, r.open, Outstanding(r))
         /\ /\ r.open = conn[c].open /\ r.heard = conn[c].heard
            /\ Outstanding(r) = Outstanding(conn[c])
            => UNCHANGED Stream!vars
<1> DEFINE opens(f) == [d \in Conns |-> f[d].open]
           outs(f) == [d \in Conns |-> Outstanding(f[d])]
           hears(f) == [d \in Conns |-> f[d].heard]
<1>1. \A d \in Conns : conn'[d] = IF d = c THEN r ELSE conn[d]
  BY DEF TypeOK
<1>2. opens(conn') = [opens(conn) EXCEPT ![c] = r.open]
  <2>1. \A d \in Conns : conn'[d].open = IF d = c THEN r.open ELSE conn[d].open
    BY <1>1
  <2> QED BY <2>1
<1>3. hears(conn') = [hears(conn) EXCEPT ![c] = r.heard]
  <2>1. \A d \in Conns : conn'[d].heard = IF d = c THEN r.heard ELSE conn[d].heard
    BY <1>1
  <2> QED BY <2>1
<1>4. outs(conn') = [outs(conn) EXCEPT ![c] = Outstanding(r)]
  <2>1. \A d \in Conns : Outstanding(conn'[d])
                           = IF d = c THEN Outstanding(r) ELSE Outstanding(conn[d])
    BY <1>1
  <2> QED BY <2>1
<1>5. [d \in Conns |-> Outstanding(conn[d])]' = outs(conn')
  BY DEF Outstanding
<1>6. ~r.heard => r.heard = FALSE
  BY DEF Connection
<1>7. ~r.heard => Stream!Becomes(c, r.open, Outstanding(r))
  BY <1>2, <1>3, <1>4, <1>5, <1>6 DEF Stream!Becomes
<1>8. ASSUME r.open = conn[c].open, r.heard = conn[c].heard,
             Outstanding(r) = Outstanding(conn[c])
      PROVE  UNCHANGED Stream!vars
  <2>1. opens(conn') = opens(conn) /\ outs(conn') = outs(conn) /\ hears(conn') = hears(conn)
    BY <1>1, <1>8
  <2> QED BY <2>1, <1>5 DEF Stream!vars
<1> QED BY <1>7, <1>8

\* A request that finds nothing outstanding is answered by a whole answer of its
\* own, by a notice, or not at all.
LEMMA RepliedWhole ==
  ASSUME TypeOK, NEW c \in Conns, NEW r \in Connection, r.open, r.len = 0, ~r.heard,
         Sound(r, sendbuf, served), NEW q \in From(c), Executed(q)
  PROVE  LET h == Handled(r, q)
         IN  /\ h.open /\ ~h.heard
             /\ \/ Outstanding(h) = Nothing
                \/ Outstanding(h) = Scan
                \/ \E p \in {x \in Requests : x.from = c} :
                      Outstanding(h) = [data |-> p, text |-> Length(p)]
<1> DEFINE h == Handled(r, q)
<1>1. h \in Connection /\ Sound(h, sendbuf', served')
  BY HandledSound DEF From, Messages
<1>2. CASE served
  <2> DEFINE t == TextAfter(r, q)
             b == Built(q)
  <2>1. h = Sent([r EXCEPT !.nrtx = 0, !.owed = q], b, t)
    BY <1>2 DEF Handled, Answered
  <2>2. h.open /\ ~h.heard /\ h.owed = q
    <3> HIDE DEF t, b, h
    <3> QED BY <2>1 DEF Sent, Connection
  <2>3. CASE h.len > 0 /\ q \in Requests
    <3>1. q.from = c
      BY <2>3, ServerAssumption DEF From
    <3>2. Outstanding(h) = [data |-> q, text |-> Length(q)]
      <4> HIDE DEF h
      <4> QED BY <1>1, <2>2, <2>3 DEF Sound, Outstanding
    <3> QED BY <2>2, <2>3, <3>1, <3>2
  <2>4. CASE h.len = 0 \/ q \notin Requests
    <3>1. Outstanding(h) = Nothing \/ Outstanding(h) = Scan
      <4> HIDE DEF h
      <4> QED BY <2>2, <2>4 DEF Outstanding
    <3> QED BY <2>2, <3>1
  <2>5. h.len \in Nat
    BY <1>1 DEF Connection
  <2> QED BY <2>3, <2>4, <2>5
<1>3. CASE ~served
  <2>1. h = [r EXCEPT !.nrtx = 0]
    BY <1>3 DEF Handled
  <2> HIDE DEF h
  <2>2. h.open /\ ~h.heard /\ h.len = 0
    BY <2>1 DEF Connection
  <2> QED BY <2>2 DEF Outstanding, h
<1> QED BY <1>2, <1>3 DEF TypeOK

\* What leaves open, len, heard, owed and first alone leaves what is outstanding.
LEMMA SameOutstanding ==
  ASSUME NEW k, NEW r, r.len = k.len, r.owed = k.owed, r.first = k.first
  PROVE  Outstanding(r) = Outstanding(k)
BY DEF Outstanding

\* The request of a connection with nothing outstanding, as the abstract server
\* sees it: a reply, or the connection has nothing outstanding now.
LEMMA RequestMapped ==
  ASSUME IInv, NEW c \in Conns, NEW r \in Connection, r.open, r.len = 0, ~r.heard,
         Sound(r, sendbuf, served), NEW q \in From(c), Executed(q),
         conn' = [conn EXCEPT ![c] = Handled(r, q)]
  PROVE  \/ Stream!Becomes(c, TRUE, Nothing) /\ Outstanding(Handled(r, q)) = Nothing
         \/ conn[c].len = 0 \/ conn[c].heard => Stream!Reply(c)
<1> DEFINE Own == [d \in Conns |-> {[data |-> p, text |-> Length(p)] : p \in
                                        {x \in Requests : x.from = d}}]
<1>1. PICK h \in Connection : h = Handled(r, q)
  BY HandledSound DEF IInv, From, Messages
<1>2. /\ h.open /\ ~h.heard
      /\ \/ Outstanding(h) = Nothing
         \/ Outstanding(h) \in Own[c] \cup {Scan}
  BY <1>1, RepliedWhole DEF IInv
<1>3. Stream!Becomes(c, TRUE, Outstanding(h))
  BY <1>1, <1>2, MappedStep DEF IInv, Connection
<1>4. CASE Outstanding(h) = Nothing
  BY <1>1, <1>3, <1>4
<1>5. CASE Outstanding(h) \in Own[c] \cup {Scan}
  <2>1. conn[c].len = 0 => Outstanding(conn[c]) = Nothing
    BY DEF Outstanding
  <2> QED BY <1>3, <1>5, <2>1 DEF Stream!Reply
<1> QED BY <1>2, <1>4, <1>5

\* A connection that was idle and is idle again: nothing the abstract server sees.
LEMMA IdleAgain ==
  ASSUME TypeOK, NEW c \in Conns, NEW r \in Connection, conn' = [conn EXCEPT ![c] = r],
         conn[c].open, ~conn[c].heard, conn[c].len = 0, r.open, ~r.heard,
         Outstanding(r) = Nothing
  PROVE  UNCHANGED Stream!vars
<1>1. Outstanding(conn[c]) = Nothing
  BY DEF Outstanding
<1>2. conn[c] \in Connection
  BY DEF TypeOK
<1>3. r.open = conn[c].open /\ r.heard = conn[c].heard
  BY <1>2 DEF Connection
<1> QED BY <1>1, <1>3, MappedStep

\* Opening a connection: without an answer, or the answer to its first request.
LEMMA OpenMapped ==
  ASSUME IInv, NEW c \in Conns, Connect(c) \/ ConnectAsking(c)
  PROVE  Stream!Open(c) \/ Stream!Reply(c)
<1> PICK k \in Connection : k = conn[c]
  BY Before
<1>1. /\ TypeOK /\ Sound(k, sendbuf, served) /\ ~k.open /\ k.len = 0
  BY Before DEF Connect, ConnectAsking, Sound
<1>2. PICK r \in Connection : /\ r = Connected(k) /\ Sound(r, sendbuf, served)
                              /\ r.len = 0 /\ r.open
  BY <1>1, ConnectedSound
<1>3. ~r.heard
  BY <1>2 DEF Sound
<1>4. Stream!Becomes(c, TRUE, Nothing) => Stream!Open(c)
  BY <1>1 DEF Stream!Open
<1>5. CASE Connect(c)
  <2>1. conn' = [conn EXCEPT ![c] = r] /\ r.open = TRUE
    BY <1>2, <1>5 DEF Connect, Connection
  <2>2. Outstanding(r) = Nothing
    BY <1>2 DEF Outstanding
  <2> QED BY <1>1, <1>3, <1>4, <2>1, <2>2, MappedStep
<1>6. CASE ConnectAsking(c)
  <2>1. PICK q \in From(c) : /\ conn' = [conn EXCEPT ![c] = Handled(r, q)]
                             /\ Executed(q)
    BY <1>2, <1>6 DEF ConnectAsking
  <2> QED BY <1>1, <1>2, <1>3, <1>4, <2>1, RequestMapped
<1> QED BY <1>5, <1>6

\* A request that acknowledges what was outstanding.
LEMMA AskMapped ==
  ASSUME IInv, NEW c \in Conns, Ask(c)
  PROVE  Stream!Reply(c) \/ Stream!Settle(c) \/ UNCHANGED Stream!vars
<1> PICK k \in Connection : k = conn[c]
  BY Before
<1>1. /\ TypeOK /\ Sound(k, sendbuf, served) /\ k.open /\ (k.len = 0 \/ k.heard)
  BY Before DEF Ask
<1>2. PICK r \in Connection : /\ r = Acknowledged(k) /\ Sound(r, sendbuf, served)
                              /\ r.len = 0 /\ r.open
  BY <1>1, AcknowledgedSound
<1>3. ~r.heard
  BY <1>2 DEF Sound
<1>4. PICK q \in From(c) : conn' = [conn EXCEPT ![c] = Handled(r, q)] /\ Executed(q)
  BY <1>2 DEF Ask
<1>5. CASE Stream!Reply(c)
  BY <1>5
<1>6. CASE Stream!Becomes(c, TRUE, Nothing) /\ Outstanding(Handled(r, q)) = Nothing
  <2>1. CASE k.heard
    BY <1>1, <1>6, <2>1 DEF Stream!Settle
  <2>2. CASE ~k.heard
    <3>1. PICK h \in Connection : h = Handled(r, q) /\ h.open /\ ~h.heard
      BY <1>1, <1>2, <1>3, <1>4, HandledSound, RepliedWhole DEF From, Messages
    <3> QED BY <1>1, <1>4, <1>6, <2>2, <3>1, IdleAgain
  <2> QED BY <2>1, <2>2
<1> QED BY <1>1, <1>2, <1>3, <1>4, <1>5, <1>6, RequestMapped

\* While bytes are outstanding, nothing the server is called for changes them: a
\* request of a master that does not wait, or a retransmission.
LEMMA WaitMapped ==
  ASSUME IInv, NEW c \in Conns, AskAgain(c) \/ Rexmit(c)
  PROVE  UNCHANGED Stream!vars
<1> PICK k \in Connection : k = conn[c]
  BY Before
<1>1. TypeOK /\ Sound(k, sendbuf, served) /\ k.len > 0 /\ k.open
  BY Before DEF AskAgain, Rexmit, MayRexmit, Sound, Connection
<1>2. IInv'
  BY AskAgainStep, SendStep
<1>3. PICK r \in Connection : r = conn'[c]
  BY <1>2, Before, Zenon DEF IInv, TypeOK
<1>4. conn' = [conn EXCEPT ![c] = r]
  BY <1>1, <1>3 DEF AskAgain, Rexmit, TypeOK
<1>5. /\ r.open = k.open /\ r.heard = k.heard /\ r.len = k.len
      /\ r.owed = k.owed /\ r.first = k.first
  <2>1. CASE AskAgain(c)
    <3>1. k.hurried + 1 \in 0..Hurry
      BY <2>1, ServerAssumption DEF AskAgain, Connection
    <3>2. PICK h \in Connection : h = Hurried(k)
      BY <3>1 DEF Connection, Hurried
    <3>3. /\ h.open = k.open /\ h.heard = k.heard /\ h.len = k.len
          /\ h.owed = k.owed /\ h.first = k.first
      BY <3>2 DEF Hurried, Connection
    <3>4. PICK q \in From(c) : r = Handled(h, q)
      BY <1>1, <1>3, <2>1, <3>2 DEF AskAgain, TypeOK
    <3> DEFINE o == IF h.len = 0 THEN q ELSE h.owed
               j == [h EXCEPT !.nrtx = 0, !.owed = o]
               t == TextAfter(h, q)
               b == Built(q)
    <3>5. r = Sent(j, b, t) \/ r = [h EXCEPT !.nrtx = 0]
      BY <3>4 DEF Handled, Answered
    <3>6. o = h.owed
      BY <1>1, <3>3
    <3> HIDE DEF t, b, o
    <3>7. /\ j.open = h.open /\ j.heard = h.heard /\ j.len = h.len
          /\ j.owed = h.owed /\ j.first = h.first
      BY <3>6 DEF Connection
    <3>8. Sent(j, b, t) = [j EXCEPT !.textlen = t]
      BY <1>1, <3>3, <3>7 DEF Sent
    <3>9. CASE r = [j EXCEPT !.textlen = t]
      BY <3>3, <3>6, <3>9 DEF Connection
    <3>10. CASE r = [h EXCEPT !.nrtx = 0]
      BY <3>3, <3>10 DEF Connection
    <3> QED BY <3>5, <3>8, <3>9, <3>10
  <2>2. CASE Rexmit(c)
    <3>1. k.nrtx + 1 \in 0..MaxRtx
      BY <2>2, ServerAssumption DEF Rexmit, MayRexmit, Connection
    <3>2. PICK h \in Connection : h = Retried(k)
      BY <3>1 DEF Connection, Retried
    <3>3. /\ h.open = k.open /\ h.heard = k.heard /\ h.len = k.len
          /\ h.owed = k.owed /\ h.first = k.first
      BY <3>2 DEF Retried, Connection
    <3>4. r = Sent(h, sendbuf, h.textlen) \/ r = h
      BY <1>1, <1>3, <2>2, <3>2 DEF Rexmit, TypeOK
    <3>5. Sent(h, sendbuf, h.textlen) = [h EXCEPT !.textlen = h.textlen]
      BY <1>1, <3>3 DEF Sent
    <3> QED BY <3>3, <3>4, <3>5 DEF Connection
  <2> QED BY <2>1, <2>2
<1> QED BY <1>1, <1>4, <1>5, SameOutstanding, MappedStep

\* What is acknowledged is settled, and a poll of an idle connection is silent:
\* nothing is left to be sent.
LEMMA QuietMapped ==
  ASSUME IInv, NEW c \in Conns, Acked(c) \/ Poll(c)
  PROVE  Stream!Settle(c) \/ UNCHANGED Stream!vars
<1> PICK k \in Connection : k = conn[c]
  BY Before
<1>1. TypeOK /\ Sound(k, sendbuf, served) /\ k.open
  BY Before DEF Acked, Poll, MayPoll, Sound, Connection
<1>2. PICK r \in Connection : r = conn'[c]
  BY SendStep, Zenon DEF IInv, TypeOK
<1>3. conn' = [conn EXCEPT ![c] = r]
  BY <1>1, <1>2 DEF Acked, Poll, TypeOK
<1>4. CASE Acked(c)
  <2>1. PICK a \in Connection : /\ a = Acknowledged(k) /\ Sound(a, sendbuf, served)
                                /\ a.len = 0 /\ a.open
    BY <1>1, AcknowledgedSound
  <2>2. ~a.heard /\ (served => a.textlen = 0)
    BY <2>1 DEF Sound
  <2>3. r = IF served THEN Sent(a, sendbuf, a.textlen) ELSE a
    BY <1>1, <1>2, <1>4, <2>1 DEF Acked, TypeOK
  <2>4. r.open /\ ~r.heard /\ r.len = 0
    BY <2>1, <2>2, <2>3 DEF Sent, Connection
  <2>5. Outstanding(r) = Nothing /\ r.open = TRUE
    BY <2>4 DEF Outstanding, Connection
  <2>6. k.heard
    BY <1>4 DEF Acked
  <2> QED BY <1>1, <1>3, <2>4, <2>5, <2>6, MappedStep DEF Stream!Settle
<1>5. CASE Poll(c)
  <2>1. k.len = 0 /\ k.textlen = 0
    BY <1>1, <1>5 DEF Poll, MayPoll, Sound
  <2>2. r = Sent([k EXCEPT !.nrtx = 0], sendbuf, k.textlen)
    BY <1>1, <1>2, <1>5 DEF Poll, TypeOK
  <2>3. r.open = k.open /\ r.heard = k.heard /\ r.len = k.len
    BY <2>1, <2>2 DEF Sent, Connection
  <2>4. Outstanding(r) = Outstanding(k)
    BY <2>1, <2>3 DEF Outstanding
  <2> QED BY <1>1, <1>3, <2>3, <2>4, MappedStep
<1> QED BY <1>4, <1>5

\* The end of a connection, whoever ends it.
LEMMA EndMapped ==
  ASSUME IInv, NEW c \in Conns, TimedOut(c) \/ Abort(c) \/ Close(c) \/ CloseAsking(c)
  PROVE  Stream!End(c)
<1>1. TypeOK /\ conn[c] \in Connection /\ Sound(conn[c], sendbuf, served)
  BY Before
<1>2. conn[c].open
  BY <1>1 DEF TimedOut, Abort, Close, CloseAsking, Sound, Connection
<1>3. PICK r \in Connection : r = conn'[c]
  BY EndStep, Zenon DEF IInv, TypeOK
<1>4. PICK n : conn' = [conn EXCEPT ![c] = Unused(n)]
  BY Zenon DEF TimedOut, Abort, Close, CloseAsking
<1>5. r = Unused(n)
  BY <1>1, <1>3, <1>4 DEF TypeOK
<1>6. r.open = FALSE /\ ~r.heard /\ Outstanding(r) = Nothing
  BY <1>5 DEF Unused, Outstanding
<1> QED BY <1>1, <1>2, <1>4, <1>5, <1>6, MappedStep DEF Stream!End

\* The master receives the bytes.
LEMMA DeliverMapped ==
  ASSUME IInv, NEW c \in Conns, Deliver(c)
  PROVE  Stream!Hear(c)
<1> PICK k \in Connection : k = conn[c]
  BY Before
<1>1. TypeOK /\ Sound(k, sendbuf, served) /\ k.len > 0
  BY Before DEF Deliver
<1>2. Outstanding(k) # Nothing
  <2>1. CASE k.owed \in Requests
    <3>1. Length(k.owed) \in Nat
      BY <2>1, LengthOfAnswer DEF Answers
    <3>2. Outstanding(k) \in Segments
      BY <1>1, <2>1, <3>1 DEF Outstanding, Sound, Segments
    <3> QED BY <3>2, ServerAssumption
  <2>2. CASE k.owed \notin Requests
    BY <1>1, <2>2, ServerAssumption DEF Outstanding
  <2> QED BY <2>1, <2>2
<1> DEFINE r == [k EXCEPT !.heard = TRUE]
<1>3. conn' = [conn EXCEPT ![c] = r]
  BY DEF Deliver
<1>4. r.open = k.open /\ r.heard = TRUE /\ Outstanding(r) = Outstanding(k)
  BY DEF Connection, Outstanding
<1> HIDE DEF r
<1>5. \A d \in Conns : conn'[d] = IF d = c THEN r ELSE conn[d]
  BY <1>1, <1>3 DEF TypeOK
<1>6. \A d \in Conns : /\ conn'[d].open = conn[d].open
                       /\ Outstanding(conn'[d]) = Outstanding(conn[d])
                       /\ conn'[d].heard = IF d = c THEN TRUE ELSE conn[d].heard
  BY <1>4, <1>5
<1>7. [d \in Conns |-> Outstanding(conn[d])]' = [d \in Conns |-> Outstanding(conn'[d])]
  BY DEF Outstanding
<1>8. [d \in Conns |-> Outstanding(conn[d])]' = [d \in Conns |-> Outstanding(conn[d])]
  BY <1>6, <1>7
<1> QED BY <1>2, <1>6, <1>8 DEF Stream!Hear

\* A new port, a reset, no step.
LEMMA OtherMapped ==
  ASSUME IInv, MovePort \/ Restart \/ UNCHANGED vars
  PROVE  Stream!Restart \/ UNCHANGED Stream!vars
<1>1. CASE MovePort \/ UNCHANGED vars
  <2>1. conn' = conn
    BY <1>1 DEF MovePort, vars
  <2> QED BY <2>1 DEF Stream!vars, Outstanding
<1>2. CASE Restart
  <2>1. conn' = [d \in Conns |-> Unused(0)]
    BY <1>2 DEF Restart
  <2>2. \A d \in Conns : /\ conn'[d].open = FALSE /\ conn'[d].heard = FALSE
                         /\ Outstanding(conn'[d]) = Nothing
    BY <2>1 DEF Unused, Outstanding
  <2>3. [d \in Conns |-> Outstanding(conn[d])]' = [d \in Conns |-> Outstanding(conn'[d])]
    BY DEF Outstanding
  <2> QED BY <2>2, <2>3 DEF Stream!Restart
<1> QED BY <1>1, <1>2

\* For any number of connections, the one buffer they share does not show: each
\* is served one whole answer of its own at a time, until its master has it or the
\* connection ends (tcp_modbus.c:28-66).
THEOREM ServesEachAlone == Spec => ImplementsAnswerStream
<1>1. Init => Stream!Init
  BY DEF Init, Unused, Outstanding, Stream!Init
<1>2. IInv /\ [Next]_vars => [Stream!Next]_(Stream!vars)
  <2> SUFFICES ASSUME IInv, [Next]_vars
               PROVE  Stream!Next \/ UNCHANGED Stream!vars
    OBVIOUS
  <2>1. ASSUME NEW c \in Conns, Segment(c) \/ Timer(c) \/ Poll(c) \/ Deliver(c)
        PROVE  Stream!Next \/ UNCHANGED Stream!vars
    BY <2>1, OpenMapped, AskMapped, WaitMapped, QuietMapped, EndMapped, DeliverMapped
       DEF Segment, Timer, Stream!Next
  <2>2. ASSUME MovePort \/ Restart \/ UNCHANGED vars
        PROVE  Stream!Next \/ UNCHANGED Stream!vars
    BY <2>2, OtherMapped DEF Stream!Next
  <2> QED BY <2>1, <2>2 DEF Next
<1> QED BY <1>1, <1>2, Invariance, PTL DEF Spec, ImplementsAnswerStream, Stream!Spec

----------------------------------------------------------------------------
(* What an answer that stays outstanding comes to.                         *)

\* A step of another connection leaves this one alone.
LEMMA OthersKept ==
  ASSUME TypeOK, NEW c \in Conns, NEW d \in Conns, d # c,
         Segment(d) \/ Timer(d) \/ Poll(d) \/ Deliver(d)
  PROVE  conn'[c] = conn[c]
<1>1. CASE ConnectAsking(d) \/ Ask(d) \/ AskAgain(d) \/ CloseAsking(d)
  <2>1. \E r : conn' = [conn EXCEPT ![d] = r]
    BY <1>1, Zenon DEF ConnectAsking, Ask, AskAgain, CloseAsking
  <2> QED BY <2>1 DEF TypeOK
<1>2. CASE \/ Connect(d) \/ Acked(d) \/ Abort(d) \/ Close(d)
           \/ Timer(d) \/ Poll(d) \/ Deliver(d)
  <2>1. \E r : conn' = [conn EXCEPT ![d] = r]
    BY <1>2, Zenon DEF Connect, Acked, Abort, Close, Timer, Rexmit, TimedOut, Poll, Deliver
  <2> QED BY <2>1 DEF TypeOK
<1> QED BY <1>1, <1>2 DEF Segment

\* A step of the timer that leaves the answer outstanding has counted it.
LEMMA TimerCounts ==
  ASSUME TypeOK, NEW c \in Conns, Timer(c), conn'[c].len > 0
  PROVE  conn'[c].hurried = conn[c].hurried /\ conn'[c].nrtx > conn[c].nrtx
<1> PICK k \in Connection : k = conn[c]
  BY DEF TypeOK
<1>1. ~TimedOut(c)
  BY DEF TimedOut, Unused, TypeOK
<1>2. Rexmit(c)
  BY <1>1 DEF Timer
<1>3. k.nrtx + 1 \in 0..MaxRtx /\ k.len > 0
  BY <1>2, ServerAssumption DEF Rexmit, MayRexmit, Connection
<1>4. PICK h \in Connection : h = Retried(k)
  BY <1>3 DEF Connection, Retried
<1>5. h.hurried = k.hurried /\ h.nrtx = k.nrtx + 1 /\ h.len = k.len
  BY <1>4 DEF Retried, Connection
<1>6. conn'[c] = Sent(h, sendbuf, h.textlen) \/ conn'[c] = h
  BY <1>2, <1>4 DEF Rexmit, TypeOK
<1>7. Sent(h, sendbuf, h.textlen) = [h EXCEPT !.textlen = h.textlen]
  BY <1>3, <1>5 DEF Sent
<1>8. conn'[c].hurried = k.hurried /\ conn'[c].nrtx = k.nrtx + 1
  BY <1>5, <1>6, <1>7 DEF Connection
<1> QED BY <1>8 DEF Connection

\* A request made without waiting is counted.
LEMMA HurryCounts ==
  ASSUME TypeOK, NEW c \in Conns, AskAgain(c)
  PROVE  conn'[c].hurried > conn[c].hurried
<1> PICK k \in Connection : k = conn[c]
  BY DEF TypeOK
<1>1. k.hurried + 1 \in 0..Hurry /\ k.len > 0
  BY ServerAssumption DEF AskAgain, Connection
<1>2. PICK h \in Connection : h = Hurried(k) /\ h.hurried > k.hurried /\ h.len = k.len
  <2>1. PICK h \in Connection : h = Hurried(k)
    BY <1>1 DEF Connection, Hurried
  <2>2. h.hurried = k.hurried + 1 /\ h.len = k.len
    BY <2>1 DEF Connection, Hurried
  <2>3. h.hurried > k.hurried
    BY <2>2 DEF Connection
  <2> QED BY <2>1, <2>2, <2>3
<1>3. PICK q \in From(c) : conn'[c] = Handled(h, q)
  BY <1>2 DEF AskAgain, TypeOK
<1> DEFINE o == IF h.len = 0 THEN q ELSE h.owed
           j == [h EXCEPT !.nrtx = 0, !.owed = o]
           t == TextAfter(h, q)
           b == Built(q)
<1>4. conn'[c] = Sent(j, b, t) \/ conn'[c] = [h EXCEPT !.nrtx = 0]
  BY <1>3 DEF Handled, Answered
<1> HIDE DEF t, b, o
<1>5. j.hurried = h.hurried /\ j.len = h.len
  BY DEF Connection
<1>6. Sent(j, b, t) = [j EXCEPT !.textlen = t]
  BY <1>1, <1>2, <1>5 DEF Sent
<1>7. CASE conn'[c] = [j EXCEPT !.textlen = t]
  BY <1>2, <1>7 DEF Connection
<1>8. CASE conn'[c] = [h EXCEPT !.nrtx = 0]
  BY <1>2, <1>8 DEF Connection
<1> QED BY <1>4, <1>6, <1>7, <1>8

\* A request that acknowledges the answer does not leave it outstanding: the
\* one that is then owed is another one.
LEMMA AskedIsAnother ==
  ASSUME IInv, NEW c \in Conns, Ask(c), conn'[c].len > 0, conn[c].owed \in Requests
  PROVE  conn'[c].owed # conn[c].owed
<1> PICK k \in Connection : k = conn[c]
  BY Before
<1>1. TypeOK /\ Sound(k, sendbuf, served)
  BY Before
<1>2. PICK r \in Connection : r = Acknowledged(k) /\ r.len = 0
  BY <1>1, AcknowledgedSound
<1>3. PICK q \in From(c) : conn'[c] = Handled(r, q) /\ Numbered(k, q)
  BY <1>1, <1>2 DEF Ask, TypeOK
<1> DEFINE t == TextAfter(r, q)
           b == Built(q)
           j == [r EXCEPT !.nrtx = 0, !.owed = q]
<1>4. conn'[c] = Sent(j, b, t) \/ conn'[c] = [r EXCEPT !.nrtx = 0]
  BY <1>2, <1>3 DEF Handled, Answered
<1> HIDE DEF t, b
<1>5. CASE conn'[c] = [r EXCEPT !.nrtx = 0]
  BY <1>2, <1>5 DEF Connection
<1>6. CASE conn'[c] = Sent(j, b, t)
  <2>1. conn'[c].owed = q
    BY <1>6 DEF Sent, Connection
  <2> QED BY <1>3, <2>1 DEF Numbered
<1> QED BY <1>4, <1>5, <1>6

\* An answer stays outstanding only while the retransmissions that are left, or
\* the requests its master may yet make without waiting, become fewer: the part
\* of Settles that needs no fairness.
THEOREM NothingRetriedForEver == Spec => TimerNearsEnd
<1>1. IInv /\ [Next]_vars =>
        [\A c \in Conns :
           LET k == conn[c]
               l == conn'[c]
           IN  k.len > 0 /\ l.len > 0 /\ k.owed \in Requests /\ l.owed = k.owed
                 => \/ l.hurried > k.hurried /\ ~Timer(c)
                    \/ l.hurried = k.hurried /\ l.nrtx > k.nrtx
                    \/ l.hurried = k.hurried /\ l.nrtx = k.nrtx /\ ~Timer(c)]_vars
  <2> SUFFICES ASSUME IInv, [Next]_vars, NEW c \in Conns, conn[c].len > 0,
                      conn'[c].len > 0, conn[c].owed \in Requests,
                      conn'[c].owed = conn[c].owed
               PROVE  \/ conn'[c].hurried > conn[c].hurried /\ ~Timer(c)
                      \/ conn'[c].hurried = conn[c].hurried /\ conn'[c].nrtx > conn[c].nrtx
                      \/ /\ conn'[c].hurried = conn[c].hurried /\ ~Timer(c)
                         /\ conn'[c].nrtx = conn[c].nrtx
    OBVIOUS
  <2> SUFFICES ASSUME ~Timer(c)
               PROVE  \/ conn'[c].hurried > conn[c].hurried
                      \/ conn'[c].hurried = conn[c].hurried /\ conn'[c].nrtx = conn[c].nrtx
    BY TimerCounts DEF IInv
  <2>1. TypeOK /\ conn[c] \in Connection /\ Sound(conn[c], sendbuf, served)
    BY Before
  <2>2. CASE conn'[c] = conn[c]
    BY <2>2
  <2>3. CASE AskAgain(c)
    BY <2>1, <2>3, HurryCounts
  <2>4. ~Ask(c)
    BY AskedIsAnother
  <2>5. ~(Connect(c) \/ ConnectAsking(c) \/ Poll(c))
    BY <2>1 DEF Connect, ConnectAsking, Poll, MayPoll, Sound, Connection
  <2>6. ~(Abort(c) \/ Close(c) \/ CloseAsking(c) \/ Restart)
    <3>1. \A n : ~(Unused(n).len > 0)
      BY DEF Unused
    <3> QED BY <2>1, <3>1 DEF Abort, Close, CloseAsking, Restart, TypeOK
  <2>7. ~Acked(c)
    <3>1. SUFFICES ASSUME Acked(c) PROVE FALSE
      OBVIOUS
    <3>2. PICK a \in Connection : /\ a = Acknowledged(conn[c]) /\ Sound(a, sendbuf, served)
                                  /\ a.len = 0 /\ a.open = conn[c].open
      BY <2>1, AcknowledgedSound
    <3>3. a.open /\ (served => a.textlen = 0)
      BY <2>1, <3>1, <3>2 DEF Acked, Sound, Connection
    <3>4. conn'[c] = IF served THEN Sent(a, sendbuf, a.textlen) ELSE a
      BY <2>1, <3>1, <3>2 DEF Acked, TypeOK
    <3> QED BY <3>2, <3>3, <3>4 DEF Sent, Connection
  <2>8. CASE Deliver(c)
    <3>1. conn'[c] = [conn[c] EXCEPT !.heard = TRUE]
      BY <2>1, <2>8 DEF Deliver, TypeOK
    <3> QED BY <2>1, <3>1 DEF Connection
  <2>9. CASE MovePort \/ UNCHANGED vars
    BY <2>2, <2>9 DEF MovePort, vars
  <2> QED BY <2>1, <2>2, <2>3, <2>4, <2>5, <2>6, <2>7, <2>8, <2>9, OthersKept
          DEF Next, Segment
<1> QED BY <1>1, Invariance, PTL DEF Spec, TimerNearsEnd
=============================================================================
