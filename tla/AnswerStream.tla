----------------------------- MODULE AnswerStream -----------------------------
(***************************************************************************)
(* What a server promises to each of its connections, whatever it does for *)
(* the others: at most one answer is outstanding, it is a whole answer to  *)
(* a request of this connection or a notice that answers none, and it      *)
(* stays what it is until the master has heard it or the connection ends.  *)
(***************************************************************************)
CONSTANTS
  Conns,   \* the connections
  Own,     \* [c] : the whole answers to requests of c
  Notice,  \* something sent that answers no request
  None     \* nothing is outstanding

VARIABLES
  open,   \* [c] : the connection exists
  out,    \* [c] : what is outstanding
  heard   \* [c] : the master has it

vars == <<open, out, heard>>

Init ==
  /\ open = [c \in Conns |-> FALSE]
  /\ out = [c \in Conns |-> None]
  /\ heard = [c \in Conns |-> FALSE]

Becomes(c, o, a) ==
  /\ open' = [open EXCEPT ![c] = o]
  /\ out' = [out EXCEPT ![c] = a]
  /\ heard' = [heard EXCEPT ![c] = FALSE]

Open(c) == ~open[c] /\ Becomes(c, TRUE, None)

(* A request may be the first thing that arrives. *)
Reply(c) ==
  /\ out[c] = None \/ heard[c]
  /\ \E a \in Own[c] \union {Notice} : Becomes(c, TRUE, a)

Hear(c) ==
  /\ out[c] # None
  /\ heard' = [heard EXCEPT ![c] = TRUE]
  /\ UNCHANGED <<open, out>>

Settle(c) == open[c] /\ heard[c] /\ Becomes(c, TRUE, None)

End(c) == open[c] /\ Becomes(c, FALSE, None)

Restart ==
  /\ open' = [c \in Conns |-> FALSE]
  /\ out' = [c \in Conns |-> None]
  /\ heard' = [c \in Conns |-> FALSE]

Next ==
  \/ \E c \in Conns : Open(c) \/ Reply(c) \/ Hear(c) \/ Settle(c) \/ End(c)
  \/ Restart

Spec == Init /\ [][Next]_vars
=============================================================================
