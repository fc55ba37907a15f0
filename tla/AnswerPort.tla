------------------------------ MODULE AnswerPort ------------------------------
(***************************************************************************)
(* What a station promises the bus it shares with others.  It drives the   *)
(* bus to answer a frame that was whole when it accepted it; in silence,   *)
(* while the write that such a frame asked for sets up the transmitter     *)
(* again; and in silence when it boots.  It hears nothing while it drives. *)
(* An answer begins at its first byte, goes out byte by byte, and with its *)
(* last byte the station listens again with an empty buffer.               *)
(*                                                                         *)
(* It may also let go of the bus in the middle of an answer; then its      *)
(* transmitter is spoilt: it goes on with nobody to hear it, and what it   *)
(* sends next need not be a whole answer.  It is not after a last byte.    *)
(***************************************************************************)
EXTENDS Naturals

CONSTANTS
  Shortest,  \* bytes of the shortest frame there is
  Lengths    \* lengths an answer may have

VARIABLES
  bus,     \* "listen" or "drive"
  stage,   \* what the station is doing with an accepted frame
  heard,   \* bytes received since the last frame
  size,    \* the length of the frame that is being received
  left,    \* bytes the bus has still to hear
  spoilt   \* the transmitter is in the middle of an answer nobody hears

vars == <<bus, stage, heard, size, left, spoilt>>

Parts == UNION {1..n : n \in Lengths}

Init ==
  /\ bus = "drive" /\ stage = "booting"
  /\ heard = 0 /\ size = 0 /\ left = 0 /\ spoilt = FALSE

Booted ==
  /\ stage = "booting" /\ stage' = "idle"
  /\ bus' = "listen"
  /\ UNCHANGED <<heard, size, left, spoilt>>

Hear ==
  /\ bus = "listen"
  /\ heard' = heard + 1
  /\ size' \in Nat
  /\ UNCHANGED <<bus, stage, left, spoilt>>

(* Reception starts over, in the middle of an answer too. *)
Restart ==
  /\ stage # "booting"
  /\ bus' = "listen" /\ heard' = 0 /\ left' = 0
  /\ spoilt' = (spoilt \/ left > 0)
  /\ \/ stage' = stage
     \/ stage \in {"serving", "silent"} /\ stage' = "idle"
  /\ UNCHANGED size

Accept ==
  /\ stage = "idle" /\ stage' = "accepted"
  /\ heard = size /\ size >= Shortest
  /\ UNCHANGED <<bus, heard, size, left, spoilt>>

Drive ==
  /\ stage = "accepted" /\ stage' = "answering"
  /\ bus' = "drive"
  /\ IF spoilt
       THEN left' \in {0} \union Parts /\ spoilt' = (left' = 0)
       ELSE UNCHANGED <<left, spoilt>>
  /\ UNCHANGED <<heard, size>>

Begin ==
  /\ stage = "answering" /\ stage' = "serving"
  /\ \/ /\ bus = "drive"
        /\ left' \in IF left = 0 /\ ~spoilt THEN Lengths ELSE Parts
        /\ spoilt' = FALSE
     \/ /\ bus = "listen"
        /\ spoilt' = TRUE /\ UNCHANGED left
     \/ UNCHANGED <<left, spoilt>>
  /\ UNCHANGED <<bus, heard, size>>

Served ==
  /\ stage = "serving" /\ stage' = "idle"
  /\ UNCHANGED <<bus, heard, size, left, spoilt>>

Send ==
  /\ bus = "drive" /\ left > 1
  /\ left' = left - 1
  /\ UNCHANGED <<bus, stage, heard, size, spoilt>>

SendLast ==
  /\ \/ bus = "drive" /\ left = 1
     \/ bus = "listen" /\ spoilt
  /\ bus' = "listen" /\ heard' = 0 /\ left' = 0 /\ spoilt' = FALSE
  /\ UNCHANGED <<stage, size>>

(* The write sets up the transmitter again, the bus hears nothing. *)
Silence ==
  /\ stage = "serving" /\ stage' = "silent"
  /\ bus' = "drive" /\ left' = 0
  /\ spoilt' \in {spoilt \/ left > 0, FALSE}
  /\ UNCHANGED <<heard, size>>

Reboot ==
  /\ stage = "silent" /\ stage' = "booting"
  /\ heard' = 0 /\ size' = 0 /\ spoilt' = FALSE
  /\ UNCHANGED <<bus, left>>

Next ==
  \/ Booted \/ Hear \/ Restart \/ Accept \/ Drive \/ Begin \/ Served
  \/ Send \/ SendLast \/ Silence \/ Reboot

Spec == Init /\ [][Next]_vars
=============================================================================
