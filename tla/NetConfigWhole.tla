---------------------------- MODULE NetConfigWhole ----------------------------
(***************************************************************************)
(* NetConfig with a history: of each group, the values as a whole that may *)
(* be served.  A request stores the bytes of a group one by one, and the   *)
(* processor may be reset by a count of NET's loop; is half a value ever   *)
(* left?                                                                   *)
(***************************************************************************)
EXTENDS NetConfig

(* The default, what was stored when the group was last asked to change,   *)
(* and what was asked for; after a power failure any value.                *)
VARIABLE promised

wholeVars == <<vars, promised>>

WholeInit == Init /\ promised = [g \in Groups |-> {Default}]

(* The bytes in memory are asked for. *)
Promise(memory) ==
  promised' = [g \in Groups |->
                 IF <<g, 1>> \in DOMAIN memory /\ Of(memory, g) # Of(ram, g)
                   THEN {Default, Of(ee, g), Of(memory, g)}
                   ELSE promised[g]]

WholeNext ==
  \/ \E t \in Tasks : Commit(t) /\ Promise(ghost)
  \/ /\ ChangeAddress \/ \E t \in Tasks : WriteMac(t) \/ WriteMacByte(t)
     /\ Promise(ram')
  \/ /\ \/ \E t \in Tasks :
             \/ Working(t)
             \/ WriteGhost(t) \/ WriteMacEnable(t) \/ MasterReset(t)
        \/ BootDone \/ Loop
     /\ UNCHANGED promised
  \/ PowerFail /\ promised' = [g \in Groups |-> Values]

WholeSpec == WholeInit /\ [][WholeNext]_wholeVars

(* As long as power does not fail, settings changed over the network are   *)
(* whole: a group is served as one master asked for it, as it was before,  *)
(* or as the default, never with bytes of two.  NET alone executes those   *)
(* requests and counts down to the reset (main.c:147-169), so the reset    *)
(* does not cut into them.                                                 *)
NeverTorn == AtRest => \A g \in Groups : Of(ram, g) \in promised[g]
=============================================================================
