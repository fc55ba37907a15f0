----------------------------- MODULE TcpServer -----------------------------
(***************************************************************************)
(* The Modbus TCP server: tcp_server_appcall (uIP-APP/tcp_modbus.c) called  *)
(* back by uIP for each event of a connection.  All connections share one   *)
(* tcp_server_sendbuf, to which the textptr of every connection points; each *)
(* has its own textlen.  uIP keeps only the length of what is outstanding and*)
(* calls the application again when it must be retransmitted.               *)
(* An answer is the request it was built for, [from, no, fn, n]; a segment is*)
(* [data, text]: the buffer at the time of sending and how much of it        *)
(* uip_send copied.                                                         *)
(***************************************************************************)
EXTENDS Naturals

CONSTANTS Conns,      \* the connections, uip_conns
          Nos,        \* transaction numbers of a master
          Counts,     \* numbers of registers that are read; the answer fits the buffer
          MaxRtx,     \* UIP_MAXRTX, 8 in the firmware
          Hurry,      \* bound: requests of a master that does not wait for an answer
          Scan,       \* the message ee 10 00 .., or a function without an answer
          Foreign,    \* a request to another station
          Nothing     \* no answer has been built, no request received

\* MULTIPLE_WRITE and WRITE_VARIABLES are "write".
Requests == [from : Conns, no : Nos, fn : {"write", "read"}, n : Counts]

Segments == [data : Requests \cup {Nothing}, text : Nat]

ASSUME ServerAssumption ==
    /\ Counts \subseteq Nat /\ MaxRtx \in Nat /\ Hurry \in Nat
    /\ {Scan, Foreign, Nothing} \cap Requests = {}
    /\ Scan # Foreign /\ Scan # Nothing /\ Foreign # Nothing
    /\ Nothing \notin Segments

VARIABLES conn,       \* [c] : uIP's and the application's state of a connection
          sendbuf,    \* the answer in tcp_server_sendbuf
          served      \* the listening port is the one the connections came to

vars == <<conn, sendbuf, served>>

\* tcp_server_sendlen, which is set with the buffer.
Length(a) == IF a = Nothing THEN 0
             ELSE IF a.fn = "read" THEN 2 * a.n + 3 + 6 ELSE 6 + 6

\* textlen is of the application, len and nrtx of uIP (what is outstanding
\* and how often it was retransmitted); owed is the last request that found
\* nothing outstanding, first the segment in which the outstanding bytes were
\* first sent, heard whether they have reached the master, in this segment or in
\* a later one, hurried how often the master did not wait for an answer.
Connection == [open : BOOLEAN, textlen : Nat, len : Nat, nrtx : 0..MaxRtx,
               owed : Requests \cup {Scan, Foreign, Nothing}, first : Segments \cup {Nothing},
               heard : BOOLEAN, hurried : 0..Hurry]

\* A uip_conn that is not in use; textlen is whatever the last use has left.
Unused(textlen) == [open |-> FALSE, textlen |-> textlen, len |-> 0, nrtx |-> 0,
                    owed |-> Nothing, first |-> Nothing, heard |-> FALSE, hurried |-> 0]

Init ==
    /\ conn = [c \in Conns |-> Unused(0)]
    /\ sendbuf = Nothing
    /\ served = TRUE

----------------------------------------------------------------------------
(* What the callback does to the connection.                               *)

\* Mutant: tcp_server_connected leaves textlen alone.
ConnectedWithText(k) == [k EXCEPT !.open = TRUE]

\* tcp_server_connected.
Connected(k) == [k EXCEPT !.open = TRUE, !.textlen = IF served THEN 0 ELSE @]

\* Mutant: tcp_server_acked leaves textlen alone, the answer is sent once more.
AcknowledgedWithText(k) == [k EXCEPT !.len = 0, !.nrtx = 0, !.first = Nothing,
                                     !.heard = FALSE, !.hurried = 0]

\* uIP finds everything acknowledged, tcp_server_acked.
Acknowledged(k) == [k EXCEPT !.len = 0, !.nrtx = 0, !.first = Nothing,
                             !.heard = FALSE, !.hurried = 0,
                             !.textlen = IF served THEN 0 ELSE @]

\* Mutant: an answer is sent over the one that is outstanding.
SentOver(k, a, text) ==
    IF text > 0
    THEN [k EXCEPT !.textlen = text, !.len = text, !.first = [data |-> a, text |-> text]]
    ELSE [k EXCEPT !.textlen = text]

\* tcp_server_senddata with text bytes of the buffer a, and what uIP makes of
\* it: while bytes are outstanding, a packet as long as these were.
Sent(k, a, text) ==
    IF k.len = 0 /\ text > 0
    THEN [k EXCEPT !.textlen = text, !.len = text, !.first = [data |-> a, text |-> text]]
    ELSE [k EXCEPT !.textlen = text]

\* The buffer after uip_newdata() with request q: only a read or a write
\* of this station has an answer.
Built(q) == IF q \in Requests THEN q ELSE sendbuf

\* Mutant: textlen is taken before responseCmd builds the answer.
TextBefore(k, q) == IF q = Foreign THEN k.textlen ELSE Length(sendbuf)

\* textlen after uip_newdata(): send_flag is set but for a foreign request.
TextAfter(k, q) == IF q = Foreign THEN k.textlen ELSE Length(Built(q))

\* The whole of tcp_server_appcall for new data on connection k.
Answered(k, q) ==
    LET owed == IF k.len = 0 THEN q ELSE k.owed
    IN  Sent([k EXCEPT !.nrtx = 0, !.owed = owed], Built(q), TextAfter(k, q))

\* tcp_appcall compares the port of the connection with modbus.listen_port
\* and does not call the server when that has been moved since.
Handled(k, q) == IF served THEN Answered(k, q) ELSE [k EXCEPT !.nrtx = 0]

\* The effect of a request on buffer and port; a write may move the port.
Executed(q) ==
    /\ sendbuf' = IF served THEN Built(q) ELSE sendbuf
    /\ served' \in IF q \in Requests /\ q.fn = "write" THEN {served, FALSE} ELSE {served}

\* Mutant: UIP_MAXRTX is passed by one.
MayRexmitOneMore(k) == k.len > 0 /\ k.nrtx <= MaxRtx

\* uip_process counts the retransmissions of what is outstanding.
MayRexmit(k) == k.len > 0 /\ k.nrtx < MaxRtx
Retried(k) == [k EXCEPT !.nrtx = @ + 1]

\* Mutant: uIP polls although bytes are outstanding.
MayPollOutstanding(k) == k.open

\* uip_process polls when nothing is outstanding.
MayPoll(k) == k.open /\ k.len = 0

\* Masters number their requests.
Numbered(k, q) == q \in Requests /\ k.owed \in Requests => q.no # k.owed.no
Hurried(k) == [k EXCEPT !.hurried = @ + 1]
From(c) == {q \in Requests : q.from = c} \cup {Scan, Foreign}

----------------------------------------------------------------------------
(* The events of uIP.                                                      *)

Connect(c) ==
    /\ ~conn[c].open
    /\ conn' = [conn EXCEPT ![c] = Connected(@)]
    /\ UNCHANGED <<sendbuf, served>>

\* The acknowledgement that opens the connection carries a request.
ConnectAsking(c) ==
    /\ ~conn[c].open
    /\ \E q \in From(c) :
          /\ conn' = [conn EXCEPT ![c] = Handled(Connected(@), q)]
          /\ Executed(q)

\* A request that acknowledges what was outstanding.
Ask(c) ==
    /\ conn[c].open
    /\ conn[c].len = 0 \/ conn[c].heard
    /\ \E q \in From(c) :
          /\ Numbered(conn[c], q)
          /\ conn' = [conn EXCEPT ![c] = Handled(Acknowledged(@), q)]
          /\ Executed(q)

\* A request sent without waiting for the answer that is outstanding.
AskAgain(c) ==
    /\ conn[c].open /\ conn[c].len > 0 /\ conn[c].hurried < Hurry
    /\ \E q \in From(c) :
          /\ Numbered(conn[c], q)
          /\ conn' = [conn EXCEPT ![c] = Handled(Hurried(@), q)]
          /\ Executed(q)

Deliver(c) ==
    /\ conn[c].len > 0 /\ ~conn[c].heard
    /\ conn' = [conn EXCEPT ![c].heard = TRUE]
    /\ UNCHANGED <<sendbuf, served>>

\* uip_acked() alone: the callback ends in tcp_server_senddata.
Acked(c) ==
    /\ conn[c].heard
    /\ conn' = [conn EXCEPT ![c] =
                  LET k == Acknowledged(@)
                  IN  IF served THEN Sent(k, sendbuf, k.textlen) ELSE k]
    /\ UNCHANGED <<sendbuf, served>>

Poll(c) ==
    /\ MayPoll(conn[c]) /\ served
    /\ conn' = [conn EXCEPT ![c] = Sent([@ EXCEPT !.nrtx = 0], sendbuf, @.textlen)]
    /\ UNCHANGED <<sendbuf, served>>

Rexmit(c) ==
    /\ MayRexmit(conn[c])
    /\ conn' = [conn EXCEPT ![c] =
                  LET k == Retried(@)
                  IN  IF served THEN Sent(k, sendbuf, k.textlen) ELSE k]
    /\ UNCHANGED <<sendbuf, served>>

TimedOut(c) ==
    /\ conn[c].len > 0 /\ conn[c].nrtx = MaxRtx
    /\ conn' = [conn EXCEPT ![c] = Unused(@.textlen)]
    /\ UNCHANGED <<sendbuf, served>>

\* The master resets the connection.
Abort(c) ==
    /\ conn[c].open
    /\ conn' = [conn EXCEPT ![c] = Unused(@.textlen)]
    /\ UNCHANGED <<sendbuf, served>>

\* The master closes it; uIP takes no FIN while bytes are outstanding.
Close(c) ==
    /\ conn[c].open /\ (conn[c].len = 0 \/ conn[c].heard)
    /\ conn' = [conn EXCEPT ![c] = Unused(Acknowledged(@).textlen)]
    /\ UNCHANGED <<sendbuf, served>>

\* A last request in the segment with the FIN is executed, its answer not sent.
CloseAsking(c) ==
    /\ conn[c].open /\ (conn[c].len = 0 \/ conn[c].heard)
    /\ \E q \in From(c) :
          /\ conn' = [conn EXCEPT ![c] = Unused(Handled(Acknowledged(@), q).textlen)]
          /\ Executed(q)

\* COMM writes another listening port.  Bound: it does not write the old one back
\* before the reset; a connection would then be served with the textlen of before.
MovePort ==
    /\ served
    /\ served' = FALSE
    /\ UNCHANGED <<conn, sendbuf>>

\* The reset that follows a new port or a scan, or a power failure.
Restart ==
    /\ conn' = [c \in Conns |-> Unused(0)]
    /\ sendbuf' = Nothing
    /\ served' = TRUE

Timer(c) == Rexmit(c) \/ TimedOut(c)
Segment(c) == \/ Connect(c) \/ ConnectAsking(c) \/ Ask(c) \/ AskAgain(c)
              \/ Acked(c) \/ Abort(c) \/ Close(c) \/ CloseAsking(c)

Next ==
    \/ \E c \in Conns : Segment(c) \/ Timer(c) \/ Poll(c) \/ Deliver(c)
    \/ MovePort \/ Restart

Spec == Init /\ [][Next]_vars
FairSpec == Spec /\ \A c \in Conns : WF_vars(Timer(c))

----------------------------------------------------------------------------
(* Properties.                                                             *)

\* Every connection, the buffer and the port flag keep their types; uIP never
\* retransmits more often than UIP_MAXRTX.
TypeOK ==
    /\ conn \in [Conns -> Connection]
    /\ sendbuf \in Requests \cup {Nothing}
    /\ served \in BOOLEAN

\* Whatever the other connections ask meanwhile, the bytes a master gets on
\* their first sending are the whole answer to the request of this connection
\* that was waiting: tcp_server_appcall builds and sends in one callback
\* (tcp_modbus.c:51-65), and nothing is left over from an earlier answer.
FirstIsOwn ==
    \A c \in Conns :
       LET q == conn[c].owed
       IN  conn[c].len > 0 /\ q \in Requests
              => conn[c].first = [data |-> q, text |-> Length(q)]

\* A connection with nothing outstanding has nothing to send: neither a poll nor
\* an acknowledgement nor a request to another station makes the server speak
\* unasked (tcp_modbus.c:58-66, 98-115), however the connection was used before.
QuietAtRest ==
    \A c \in Conns : conn[c].open /\ served => (conn[c].len = 0 <=> conn[c].textlen = 0)

\* If the answer that is outstanding is lost, the same bytes are sent again, as
\* uip.h:696-698 asks of the application; textptr points into the buffer of all
\* connections (tcp_modbus.c:58-66).
ResendsSame ==
    \A c \in Conns :
       LET k == conn[c]
       IN  served /\ k.len > 0 /\ k.owed \in Requests
              => sendbuf = k.owed /\ k.textlen = k.len

\* An answer does not stay outstanding for ever: it is acknowledged, or the
\* connection ends, or the next request takes its place.
Settles ==
    \A c \in Conns : \A no \in Nos :
       LET Waiting == /\ conn[c].len > 0 /\ conn[c].owed \in Requests
                      /\ conn[c].owed.no = no
       IN  Waiting ~> ~Waiting

\* Whatever happens meanwhile, an answer that stays outstanding comes nearer to
\* its end with every retransmission, and only a request of a master that does
\* not wait sets the count of retransmissions back (uip.c:742-763, 1741): hurried
\* first, then nrtx, both bounded, so that nothing is retransmitted for ever.
TimerNearsEnd ==
    [][\A c \in Conns :
         LET k == conn[c]
             l == conn'[c]
         IN  k.len > 0 /\ l.len > 0 /\ k.owed \in Requests /\ l.owed = k.owed
               => \/ l.hurried > k.hurried /\ ~Timer(c)
                  \/ l.hurried = k.hurried /\ l.nrtx > k.nrtx
                  \/ l.hurried = k.hurried /\ l.nrtx = k.nrtx /\ ~Timer(c)]_vars

\* What a connection has outstanding: a whole answer, or bytes that answer nothing.
Outstanding(k) == IF k.len = 0 THEN Nothing
                  ELSE IF k.owed \in Requests THEN k.first ELSE Scan

\* Each connection is served as if it were alone with the server, but for what is
\* retransmitted: one answer at a time, its own and whole, until the master has it
\* or the connection ends (tcp_modbus.c:28-66).
Stream == INSTANCE AnswerStream WITH
    Own    <- [c \in Conns |-> {[data |-> q, text |-> Length(q)] : q \in
                                   {r \in Requests : r.from = c}}],
    Notice <- Scan,
    None   <- Nothing,
    open   <- [c \in Conns |-> conn[c].open],
    out    <- [c \in Conns |-> Outstanding(conn[c])],
    heard  <- [c \in Conns |-> conn[c].heard]
ImplementsAnswerStream == Stream!Spec
=============================================================================
