----------------------------- MODULE FlashStore -----------------------------
(***************************************************************************)
(* The configuration pages in the processor's flash (baclib/store.c,       *)
(* HARDWARE/STMFLASH/stmflash.c).  Outputs, inputs and variables each have *)
(* a working copy in RAM, a mark write_page_en and a flash page that holds *)
(* an image and a flag half-word: 0xffff erased, 10000 committed.          *)
(*                                                                         *)
(* The LED task loads the pages at boot (mass_flash_init) and then saves   *)
(* the marked ones every 40 ms (Flash_Write_Mass).  Tasks of higher        *)
(* priority (COMM, NET, MSTP) change RAM and set marks between any two of  *)
(* its steps; one of them may also erase everything (reset_to_factory) and *)
(* then reset the processor.  Power may fail between any two steps.        *)
(*                                                                         *)
(* A page is two fields, enough for a copy or an image to be half done.    *)
(* External hardware, assumed: an erase or a half-word written is atomic   *)
(* towards a power failure, and is ignored while the flash is locked.      *)
(* pvPortMalloc succeeds: nothing else allocates once the tasks run.       *)
(***************************************************************************)
EXTENDS Integers, Sequences

CONSTANTS
  Values,       \* what a field may be set to
  DefaultValue, \* what the factory puts in it
  Writable      \* the pages that are changed in this instance

Pages  == {"OUT", "IN", "VAR"}
Fields == {"first", "second"}

ASSUME ConstantsAssumption ==
  /\ DefaultValue \in Values
  /\ "zero" \notin Values /\ "erased" \notin Values
  /\ Writable \subseteq Pages

Contents == Values \union {"zero", "erased"}
Default  == [f \in Fields |-> DefaultValue]
Blank    == [f \in Fields |-> "zero"]    \* RAM after a reset
Erased   == [f \in Fields |-> "erased"]

VARIABLES
  ram,           \* outputs, inputs, var
  write_page_en, \* the pages marked for saving
  flag,          \* the flag half-word of each page
  image,         \* the rest of each page
  lock,          \* FLASH_CR.LOCK: "locked" or "unlocked"
  phase,         \* "boot" in mass_flash_init, then "run"
  at,            \* index of the page the LED task is at
  led,           \* its next step
  tempbuf,
  reset,         \* where reset_to_factory is: "no", the page it erases next,
                 \* "eeprom"
  unmarked       \* history: pages changed without a mark since last copied

flash   == <<flag, image, lock>>
ledTask == <<phase, at, led, tempbuf>>
vars    == <<ram, write_page_en, flash, ledTask, reset, unmarked>>

-----------------------------------------------------------------------------
(* mass_flash_init treats the variables before the inputs,                 *)
(* Flash_Write_Mass after them.                                            *)
PageAt(ph, i) ==
  IF ph = "boot" THEN <<"OUT", "VAR", "IN">>[i] ELSE <<"OUT", "IN", "VAR">>[i]
page == PageAt(phase, at)

LastIndexShort == 2
LastIndexOver == 4
LastIndex == 3

(* After the last page the LED task sleeps, or boot is over. *)
NextPage ==
  /\ at' = IF at < LastIndex THEN at + 1 ELSE 1
  /\ phase' = IF at < LastIndex THEN phase ELSE "run"
  /\ led' = IF at < LastIndex \/ phase = "boot" THEN "open" ELSE "sleep"

(* The order of the steps on one page. *)
FollowingFlagFirst(step) ==
  CASE step = "erase"    -> "copy1"
    [] step = "copy1"    -> "copy2"
    [] step = "copy2"    -> "commit"
    [] step = "commit"   -> "program1"
    [] step = "program1" -> "program2"
    [] step = "program2" -> "close"
Following(step) ==
  CASE step = "erase"    -> "copy1"
    [] step = "copy1"    -> "copy2"
    [] step = "copy2"    -> "program1"
    [] step = "program1" -> "program2"
    [] step = "program2" -> "commit"
    [] step = "commit"   -> "close"

(* The mark of the variables is cleared after the save, the others before. *)
ClearsFirstNone(p) == FALSE
ClearsFirst(p) == p # "VAR"

(* mass_flash_init forgets to unlock the flash for the inputs. *)
Unlocks == phase = "run" \/ page # "IN"

EraseKeepsFlag(p) ==
  IF lock = "locked" THEN UNCHANGED <<flag, image>>
  ELSE image' = [image EXCEPT ![p] = Erased] /\ UNCHANGED flag
ErasePage(p) ==
  IF lock = "locked" THEN UNCHANGED <<flag, image>>
  ELSE /\ flag' = [flag EXCEPT ![p] = "erased"]
       /\ image' = [image EXCEPT ![p] = Erased]

(* A task of lower priority runs only while reset_to_factory waits for the *)
(* EEPROM.                                                                 *)
LedRuns(step) == led = step /\ reset \in {"no", "eeprom"}

(* The processor starts from its reset state. *)
Booted ==
  /\ ram = [p \in Pages |-> Blank]
  /\ write_page_en = {}
  /\ lock = "locked"
  /\ phase = "boot" /\ at = 1 /\ led = "open" /\ tempbuf = Blank
  /\ reset = "no" /\ unmarked = {}

(* A new device: the flash is erased. *)
Init ==
  /\ Booted
  /\ flag = [p \in Pages |-> "erased"]
  /\ image = [p \in Pages |-> Erased]

-----------------------------------------------------------------------------
(* The LED task. *)

(* boot, flag committed: STMFLASH_MUL_Read. *)
BootLoad ==
  /\ LedRuns("open") /\ phase = "boot" /\ flag[page] = "committed"
  /\ ram' = [ram EXCEPT ![page] = image[page]]
  /\ unmarked' = unmarked \ {page}
  /\ NextPage
  /\ UNCHANGED <<write_page_en, flash, tempbuf, reset>>

(* boot, flag erased: the page is erased again and gets the defaults. *)
BootOpen ==
  /\ LedRuns("open") /\ phase = "boot" /\ flag[page] = "erased"
  /\ lock' = IF Unlocks THEN "unlocked" ELSE lock
  /\ led' = "erase"
  /\ UNCHANGED <<ram, write_page_en, flag, image, phase, at, tempbuf, reset,
                 unmarked>>

(* run: a marked page is saved, an unmarked one passed over. *)
OpenPage ==
  /\ LedRuns("open") /\ phase = "run" /\ page \in write_page_en
  /\ write_page_en' = IF ClearsFirst(page) THEN write_page_en \ {page}
                      ELSE write_page_en
  /\ lock' = "unlocked"
  /\ led' = "erase"
  /\ UNCHANGED <<ram, flag, image, phase, at, tempbuf, reset, unmarked>>

PassPage ==
  /\ LedRuns("open") /\ phase = "run" /\ page \notin write_page_en
  /\ NextPage
  /\ UNCHANGED <<ram, write_page_en, flash, tempbuf, reset, unmarked>>

Erase ==
  /\ LedRuns("erase")
  /\ ErasePage(page)
  /\ led' = Following(led)
  /\ IF phase = "boot"
       THEN /\ ram' = [ram EXCEPT ![page] = Default]
            /\ unmarked' = unmarked \ {page}
       ELSE UNCHANGED <<ram, unmarked>>
  /\ UNCHANGED <<write_page_en, lock, phase, at, tempbuf, reset>>

(* memcpy *)
CopyField(step, f) ==
  /\ LedRuns(step)
  /\ tempbuf' = [tempbuf EXCEPT ![f] = ram[page][f]]
  /\ unmarked' = IF phase = "run" /\ f = "first" THEN unmarked \ {page}
                 ELSE unmarked
  /\ led' = Following(led)
  /\ UNCHANGED <<ram, write_page_en, flash, phase, at, reset>>

(* iap_write_appbin *)
ProgramField(step, f) ==
  /\ LedRuns(step)
  /\ image' = IF lock = "unlocked"
                THEN [image EXCEPT ![page][f] = tempbuf[f]] ELSE image
  /\ led' = Following(led)
  /\ UNCHANGED <<ram, write_page_en, flag, lock, phase, at, tempbuf, reset,
                 unmarked>>

(* STMFLASH_WriteHalfWord(..._PAGE_FLAG, 10000) *)
Commit ==
  /\ LedRuns("commit")
  /\ flag' = IF lock = "unlocked"
               THEN [flag EXCEPT ![page] = "committed"] ELSE flag
  /\ led' = Following(led)
  /\ UNCHANGED <<ram, write_page_en, image, lock, phase, at, tempbuf, reset,
                 unmarked>>

(* STMFLASH_Lock, and the late clearing of a mark. *)
Close ==
  /\ LedRuns("close")
  /\ lock' = IF Unlocks THEN "locked" ELSE lock
  /\ write_page_en' = IF phase = "run" /\ ~ClearsFirst(page)
                        THEN write_page_en \ {page} ELSE write_page_en
  /\ NextPage
  /\ UNCHANGED <<ram, flag, image, tempbuf, reset, unmarked>>

Wake ==
  /\ LedRuns("sleep")
  /\ led' = "open"
  /\ UNCHANGED <<ram, write_page_en, flash, phase, at, tempbuf, reset,
                 unmarked>>

-----------------------------------------------------------------------------
(* The other tasks. *)

(* One or more fields of a page change in RAM. *)
Changed(p) ==
  \E fs \in (SUBSET Fields) \ {{}}, v \in Values :
    ram' = [ram EXCEPT ![p] = [f \in Fields |-> IF f \in fs THEN v ELSE @[f]]]

(* Writes of single registers and BACnet properties mark the page.  No task *)
(* of the LED task's priority runs between the change and the mark.        *)
Write(p) ==
  /\ reset \in {"no", "eeprom"}
  /\ Changed(p)
  /\ write_page_en' = write_page_en \union {p}
  /\ UNCHANGED <<flash, ledTask, reset, unmarked>>

(* Block writes do not. *)
WriteBlock(p) ==
  /\ reset \in {"no", "eeprom"}
  /\ Changed(p)
  /\ unmarked' = unmarked \union {p}
  /\ UNCHANGED <<write_page_en, flash, ledTask, reset>>

(* reset_to_factory: STMFLASH_Unlock, then the variables, inputs, outputs. *)
FactoryStart ==
  /\ reset = "no"
  /\ lock' = "unlocked"
  /\ reset' = "VAR"
  /\ UNCHANGED <<ram, write_page_en, flag, image, ledTask, unmarked>>

FactoryErase ==
  /\ reset \in Pages
  /\ ErasePage(reset)
  /\ reset' = CASE reset = "VAR" -> "IN"
                [] reset = "IN"  -> "OUT"
                [] reset = "OUT" -> "eeprom"
  /\ lock' = IF reset = "OUT" THEN "locked" ELSE lock
  /\ UNCHANGED <<ram, write_page_en, ledTask, unmarked>>

Reboot ==
  /\ ram' = [p \in Pages |-> Blank]
  /\ write_page_en' = {}
  /\ lock' = "locked"
  /\ phase' = "boot" /\ at' = 1 /\ led' = "open" /\ tempbuf' = Blank
  /\ reset' = "no" /\ unmarked' = {}
  /\ UNCHANGED <<flag, image>>

(* The station number and the panel name are in the EEPROM; SoftReset. *)
FactoryDone == reset = "eeprom" /\ Reboot

(* Power fails, or a master asks for a reset. *)
Restart == Reboot

-----------------------------------------------------------------------------
Led ==
  \/ BootLoad \/ BootOpen \/ OpenPage \/ PassPage \/ Erase
  \/ CopyField("copy1", "first") \/ CopyField("copy2", "second")
  \/ ProgramField("program1", "first") \/ ProgramField("program2", "second")
  \/ Commit \/ Close \/ Wake

Others ==
  \/ \E p \in Writable : Write(p) \/ WriteBlock(p)
  \/ FactoryStart \/ FactoryErase \/ FactoryDone

Next == Led \/ Others \/ Restart

Spec == Init /\ [][Next]_vars

(* The LED task shares the processor with tasks that sleep most of the     *)
(* time, and reset_to_factory has no wait without an end.                  *)
FairSpec == Spec /\ WF_vars(Led) /\ WF_vars(FactoryErase) /\ WF_vars(FactoryDone)

-----------------------------------------------------------------------------
Steps == {"open", "erase", "copy1", "copy2", "program1", "program2", "commit",
          "close", "sleep"}

TypeOK ==
  /\ ram \in [Pages -> [Fields -> Contents]]
  /\ write_page_en \subseteq Pages
  /\ flag \in [Pages -> {"erased", "committed"}]
  /\ image \in [Pages -> [Fields -> Contents]]
  /\ lock \in {"locked", "unlocked"}
  /\ phase \in {"boot", "run"}
  /\ at \in 1..3
  /\ led \in Steps
  /\ tempbuf \in [Fields -> Contents]
  /\ reset \in {"no", "eeprom"} \union Pages
  /\ unmarked \subseteq Pages

(* What a restart would find. *)
Durable == [p \in Pages |-> IF flag[p] = "committed" THEN image[p] ELSE Default]

(* A committed page holds a whole image of settings: wherever power fails  *)
(* or the factory reset cuts in, mass_flash_init never loads half a page   *)
(* (store.c:33-51, 162-199).                                               *)
CommittedIsWhole ==
  \A p \in Pages : flag[p] = "committed" => image[p] \in [Fields -> Values]

(* The LED task is saving page p. *)
Saving(p) == led \notin {"open", "sleep"} /\ page = p

(* No update of the outputs or inputs is lost: a page without a mark, that *)
(* is not being saved, is in flash as it is in RAM, unless a block write   *)
(* changed it.  The mark is cleared before the copy is taken, so a change  *)
(* that arrives later marks the page again (store.c:35, 55).               *)
UnmarkedIsSaved ==
  phase = "run" /\ reset = "no" =>
    \A p \in {"OUT", "IN"} :
      p \in write_page_en \union unmarked \/ Saving(p) \/ Durable[p] = ram[p]

(* After a factory reset a restart finds the initial values (store.c:269-292). *)
FactoryResetHolds ==
  reset = "eeprom" => \A p \in Pages : Durable[p] = Default

(* A marked page is saved, or the device restarts (store.c:26-87).         *)
MarkedIsSaved == \A p \in Pages : p \in write_page_en ~> p \notin write_page_en

(* How many pages the LED task turns before it takes the mark of page p,   *)
(* and how far it is with the page it is at.                               *)
Index == [p \in Pages |-> CASE p = "OUT" -> 1 [] p = "IN" -> 2 [] p = "VAR" -> 3]
Rank == [sleep |-> 0, open |-> 1, erase |-> 2, copy1 |-> 3, copy2 |-> 4,
         program1 |-> 5, program2 |-> 6, commit |-> 7, close |-> 8]
ToCome(p) ==
  /\ phase = "run"
  /\ \/ at < Index[p]
     \/ at = Index[p] /\ (led \in {"sleep", "open"} \/ ~ClearsFirst(p))
Turns(p) == IF ToCome(p) THEN Index[p] - at ELSE 3 + Index[p] - at

(* A page that stays marked comes nearer to its saving with every step of  *)
(* the LED task, from the boot on and within one round, however often the  *)
(* other pages are marked again meanwhile; nobody sets the task back but a *)
(* restart, which forgets the mark (store.c:26-87).                        *)
SavedInTurn ==
  [][\A p \in write_page_en \intersect write_page_en' :
       \/ Turns(p)' < Turns(p)
       \/ Turns(p)' = Turns(p) /\ Rank[led'] > Rank[led]
       \/ UNCHANGED ledTask /\ ~Led]_vars

(* The pages behave as the abstract store: a restart finds the defaults or *)
(* an image copied from the same page of RAM, whole.                       *)
Store == INSTANCE PageStore WITH
  durable <- Durable,
  saving  <- page,
  copied  <- CASE led = "copy2" -> {"first"}
               [] led \in {"program1", "program2", "commit", "close"} -> Fields
               [] OTHER -> {},
  offer   <- tempbuf
ImplementsPageStore == Store!Spec
=============================================================================
