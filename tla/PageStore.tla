------------------------------ MODULE PageStore ------------------------------
(***************************************************************************)
(* What the flash store promises for each configuration page: a restart    *)
(* finds either the factory default or an image that was copied, field by  *)
(* field, from RAM; never part of one image and never the image of another *)
(* page.  A page may fall back to the default at any moment.               *)
(***************************************************************************)
CONSTANTS
  Pages,    \* the pages
  Fields,   \* the parts of a page
  Contents, \* what a field may hold
  Default,  \* the factory image of every page
  Blank     \* RAM before it is loaded

VARIABLES
  ram,      \* the working copy of each page
  durable,  \* what a restart would find
  saving,   \* the page being copied
  copied,   \* the fields copied so far
  offer     \* the copy

vars == <<ram, durable, saving, copied, offer>>

Init ==
  /\ ram = [p \in Pages |-> Blank]
  /\ durable = [p \in Pages |-> Default]
  /\ saving \in Pages
  /\ copied = {}
  /\ offer = Blank

Change(p) ==
  /\ \E new \in [Fields -> Contents] : ram' = [ram EXCEPT ![p] = new]
  /\ UNCHANGED <<durable, saving, copied, offer>>

Turn ==
  /\ saving' \in Pages
  /\ copied' = {}
  /\ UNCHANGED <<ram, durable, offer>>

Copy(f) ==
  /\ offer' = [offer EXCEPT ![f] = ram[saving][f]]
  /\ copied' = copied \union {f}
  /\ UNCHANGED <<ram, durable, saving>>

Save ==
  /\ copied = Fields
  /\ durable' = [durable EXCEPT ![saving] = offer]
  /\ UNCHANGED <<ram, saving, copied, offer>>

Forget(p) ==
  /\ durable' = [durable EXCEPT ![p] = Default]
  /\ UNCHANGED <<ram, saving, copied, offer>>

(* A page is loaded by the same task that saves, which then turns to the   *)
(* next page.                                                              *)
Load(p) ==
  /\ ram' = [ram EXCEPT ![p] = durable[p]]
  /\ saving' \in Pages
  /\ copied' = {}
  /\ UNCHANGED <<durable, offer>>

Restart ==
  /\ ram' = [p \in Pages |-> Blank]
  /\ saving' \in Pages
  /\ copied' = {}
  /\ offer' = Blank
  /\ UNCHANGED durable

Next ==
  \/ \E p \in Pages : Change(p) \/ Forget(p) \/ Load(p)
  \/ \E f \in Fields : Copy(f)
  \/ Turn \/ Save \/ Restart

Spec == Init /\ [][Next]_vars
=============================================================================
