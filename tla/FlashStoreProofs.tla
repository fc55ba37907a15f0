-------------------------- MODULE FlashStoreProofs --------------------------
(***************************************************************************)
(* Proofs about FlashStore: a committed page is whole, the pages implement *)
(* the abstract store PageStore, and no update of the outputs or inputs is *)
(* lost.                                                                   *)
(***************************************************************************)
EXTENDS FlashStore, TLAPS

Whole == [Fields -> Values]

Copying == {"copy1", "copy2", "program1", "program2", "commit"}

(* While reset_to_factory erases, the flash is unlocked and the pages it   *)
(* has been through stay erased.                                           *)
ResetInv ==
  /\ reset \in Pages => lock = "unlocked"
  /\ reset \in {"IN", "OUT"} => flag["VAR"] = "erased"
  /\ reset = "OUT" => flag["IN"] = "erased"

(* Unless reset_to_factory holds it open, the flash is unlocked only       *)
(* between OpenPage or BootOpen and Close.                                 *)
LockInv ==
  lock = "unlocked" /\ reset \notin Pages =>
    led \in Copying \union {"erase", "close"} /\ Unlocks

(* The page being written is erased; it was erased before if it gets the   *)
(* defaults, or if its erase was ignored because the flash is locked.      *)
ErasedInv ==
  /\ led \in Copying => flag[page] = "erased"
  /\ led = "erase" /\ (lock = "locked" \/ phase = "boot") => flag[page] = "erased"

(* The pages the LED task has loaded or given their defaults.              *)
Loaded ==
  IF phase = "run" THEN Pages
  ELSE {PageAt("boot", i) : i \in 1..(at - 1)}
         \union IF led \in Copying \union {"close"} THEN {page} ELSE {}

RamInv == \A p \in Loaded : ram[p] \in Whole

(* What has been copied, and what has been programmed of it. *)
CopyInv ==
  /\ led = "copy2" => tempbuf["first"] \in Values
  /\ led \in {"program1", "program2", "commit"} => tempbuf \in Whole
ProgramInv ==
  lock = "unlocked" /\ reset \notin Pages =>
    /\ led = "program2" => image[page]["first"] = tempbuf["first"]
    /\ led = "commit" => image[page] = tempbuf

IInv == /\ TypeOK /\ ResetInv /\ LockInv /\ ErasedInv /\ RamInv /\ CopyInv
        /\ ProgramInv /\ CommittedIsWhole

-----------------------------------------------------------------------------
(* The LED task is always at one of the three pages. *)
LEMMA PageIsPage == ASSUME TypeOK PROVE page \in Pages
<1>1. at = 1 \/ at = 2 \/ at = 3
  BY DEF TypeOK
<1> QED
  BY <1>1 DEF page, PageAt, Pages, TypeOK

(* Leaving a page adds at most that page to the loaded ones. *)
LEMMA NextPageLoads ==
  ASSUME TypeOK, NextPage
  PROVE  Loaded' \subseteq Loaded \union {page}
<1>1. at \in 1..3 /\ phase \in {"boot", "run"}
  BY DEF TypeOK
<1>2. CASE phase = "run"
  BY <1>1, <1>2 DEF NextPage, LastIndex, Loaded
<1>3. CASE phase = "boot" /\ at < 3
  <2>1. at' = at + 1 /\ phase' = "boot" /\ led' = "open"
    BY <1>1, <1>3 DEF NextPage, LastIndex
  <2>2. Loaded' = {PageAt("boot", i) : i \in 1..at}
    BY <1>1, <2>1 DEF Loaded, Copying
  <2>3. \A i \in 1..at : i \in 1..(at - 1) \/ i = at
    BY <1>1
  <2> QED
    BY <1>1, <1>3, <2>2, <2>3 DEF Loaded, page
<1>4. CASE phase = "boot" /\ at = 3
  <2>1. 1 \in 1..(at - 1) /\ 2 \in 1..(at - 1)
    BY <1>4
  <2>2. PageAt("boot", 1) \in Loaded /\ PageAt("boot", 2) \in Loaded
    BY <1>4, <2>1 DEF Loaded
  <2>3. PageAt("boot", 1) = "OUT" /\ PageAt("boot", 2) = "VAR"
        /\ PageAt("boot", 3) = "IN"
    BY DEF PageAt
  <2>4. Pages \subseteq Loaded \union {page}
    BY <1>4, <2>2, <2>3 DEF page, Pages
  <2>5. Loaded' = Pages
    BY <1>4 DEF NextPage, LastIndex, Loaded
  <2> QED
    BY <2>4, <2>5
<1> QED
  BY <1>1, <1>2, <1>3, <1>4

(* Init establishes the invariant. *)
LEMMA InitInv == Init => IInv
<1> SUFFICES ASSUME Init PROVE IInv
  OBVIOUS
<1> USE DEF Init, Booted
<1>1. TypeOK
  BY DEF TypeOK, Blank, Erased, Contents, Pages, Fields, Steps
<1>2. Loaded = {}
  BY DEF Loaded, Copying
<1>3. RamInv
  BY <1>2 DEF RamInv
<1>4. ResetInv /\ LockInv /\ ErasedInv
  BY DEF ResetInv, LockInv, ErasedInv, Pages, Copying
<1>5. CopyInv /\ ProgramInv /\ CommittedIsWhole
  BY DEF CopyInv, ProgramInv, CommittedIsWhole
<1> QED
  BY <1>1, <1>3, <1>4, <1>5 DEF IInv

-----------------------------------------------------------------------------
(* Types, step by step. *)

LEMMA LedTypes == ASSUME TypeOK, Led PROVE TypeOK'
<1> USE DEF TypeOK
<1>1. page \in Pages
  BY PageIsPage
<1>2. ASSUME NextPage PROVE at' \in 1..3 /\ phase' \in {"boot", "run"} /\ led' \in Steps
  BY <1>2 DEF NextPage, LastIndex, Steps
<1>3. CASE BootLoad
  BY <1>1, <1>2, <1>3 DEF BootLoad, flash
<1>4. CASE BootOpen
  BY <1>4 DEF BootOpen, Steps
<1>5. CASE OpenPage
  BY <1>5 DEF OpenPage, Steps
<1>6. CASE PassPage
  BY <1>2, <1>6 DEF PassPage, flash
<1>7. CASE Erase
  <2>1. Default \in [Fields -> Contents] /\ Erased \in [Fields -> Contents]
    BY ConstantsAssumption DEF Default, Erased, Contents
  <2>2. ram' \in [Pages -> [Fields -> Contents]]
    BY <1>1, <1>7, <2>1 DEF Erase
  <2>3. /\ image' \in [Pages -> [Fields -> Contents]]
        /\ flag' \in [Pages -> {"erased", "committed"}]
    BY <1>1, <1>7, <2>1 DEF Erase, ErasePage
  <2>4. led' \in Steps /\ unmarked' \subseteq Pages
    BY <1>7 DEF Erase, LedRuns, Following, Steps
  <2> QED
    BY <1>7, <2>2, <2>3, <2>4 DEF Erase
<1>8. CASE CopyField("copy1", "first") \/ CopyField("copy2", "second")
  BY <1>1, <1>8 DEF CopyField, LedRuns, Following, Steps, Fields, flash
<1>9. CASE ProgramField("program1", "first") \/ ProgramField("program2", "second")
  BY <1>1, <1>9 DEF ProgramField, LedRuns, Following, Steps, Fields
<1>10. CASE Commit
  BY <1>1, <1>10 DEF Commit, LedRuns, Following, Steps
<1>11. CASE Close
  BY <1>2, <1>11 DEF Close
<1>12. CASE Wake
  BY <1>12 DEF Wake, Steps, flash
<1> QED
  BY <1>3, <1>4, <1>5, <1>6, <1>7, <1>8, <1>9, <1>10, <1>11, <1>12 DEF Led

(* A change leaves every other page alone and sets fields to values. *)
LEMMA ChangedKeeps ==
  ASSUME TypeOK, NEW p \in Pages, Changed(p)
  PROVE  /\ ram' \in [Pages -> [Fields -> Contents]]
         /\ \A q \in Pages : ram[q] \in Whole => ram'[q] \in Whole
<1>1. PICK fs \in SUBSET Fields, v \in Values :
        ram' = [ram EXCEPT ![p] = [f \in Fields |-> IF f \in fs THEN v ELSE ram[p][f]]]
  BY DEF Changed
<1>2. v \in Contents
  BY DEF Contents
<1>3. ram \in [Pages -> [Fields -> Contents]]
  BY DEF TypeOK
<1>4. [f \in Fields |-> IF f \in fs THEN v ELSE ram[p][f]] \in [Fields -> Contents]
  BY <1>2, <1>3
<1>5. ram[p] \in Whole => [f \in Fields |-> IF f \in fs THEN v ELSE ram[p][f]] \in Whole
  BY DEF Whole
<1> QED
  BY <1>1, <1>3, <1>4, <1>5

LEMMA OthersTypes == ASSUME TypeOK, Others PROVE TypeOK'
<1>1. ASSUME NEW p \in Writable, Write(p) \/ WriteBlock(p) PROVE TypeOK'
  <2>1. p \in Pages /\ Changed(p)
    BY <1>1, ConstantsAssumption DEF Write, WriteBlock
  <2> QED
    BY <1>1, <2>1, ChangedKeeps DEF Write, WriteBlock, TypeOK, flash, ledTask
<1>2. CASE FactoryStart
  BY <1>2 DEF FactoryStart, TypeOK, ledTask, Pages
<1>3. CASE FactoryErase
  BY <1>3 DEF FactoryErase, ErasePage, TypeOK, ledTask, Pages, Erased, Contents
<1>4. CASE FactoryDone
  BY <1>4 DEF FactoryDone, Reboot, TypeOK, Blank, Contents, Steps
<1> QED
  BY <1>1, <1>2, <1>3, <1>4 DEF Others

(* Every variable keeps its type. *)
LEMMA TypesKept == ASSUME TypeOK, [Next]_vars PROVE TypeOK'
<1>1. CASE Restart
  BY <1>1 DEF Restart, Reboot, TypeOK, Blank, Contents, Steps
<1>2. CASE UNCHANGED vars
  BY <1>2 DEF vars, flash, ledTask, TypeOK
<1> QED
  BY <1>1, <1>2, LedTypes, OthersTypes DEF Next

-----------------------------------------------------------------------------
(* The invariant, step by step. *)

(* Turning to another page, or to sleep, disturbs only what is loaded. *)
LEMMA NextPageInv ==
  ASSUME TypeOK, RamInv, NextPage, reset' = reset, flag' = flag,
         image' = image, ram' = ram \/ BootLoad,
         ram'[page] \in Whole,
         lock' = "unlocked" => reset \in Pages,
         ResetInv, CommittedIsWhole, lock' = lock \/ reset \notin Pages
  PROVE  /\ ResetInv' /\ LockInv' /\ ErasedInv' /\ RamInv' /\ CopyInv'
         /\ ProgramInv' /\ CommittedIsWhole'
<1>1. led' \in {"open", "sleep"}
  BY DEF NextPage
<1>2. LockInv' /\ ErasedInv' /\ CopyInv' /\ ProgramInv'
  BY <1>1 DEF LockInv, ErasedInv, CopyInv, ProgramInv, Copying
<1>3. RamInv'
  <2>1. \A p \in Pages \ {page} : ram'[p] = ram[p]
    BY DEF BootLoad, TypeOK
  <2>2. Loaded' \subseteq Loaded \union {page}
    BY NextPageLoads
  <2>3. Loaded \subseteq Pages
    BY PageIsPage DEF Loaded, PageAt, Pages, TypeOK
  <2> QED
    BY <2>1, <2>2, <2>3 DEF RamInv
<1> QED
  BY <1>2, <1>3 DEF ResetInv, CommittedIsWhole

LEMMA BootLoadInv == ASSUME IInv, BootLoad PROVE IInv'
<1>1. TypeOK'
  BY TypesKept DEF IInv, Next, Led
<1>2. page \in Pages
  BY PageIsPage DEF IInv
<1>3. ram'[page] \in Whole
  BY <1>2 DEF BootLoad, IInv, CommittedIsWhole, Whole, TypeOK
<1>4. lock = "unlocked" => reset \in Pages
  BY DEF IInv, LockInv, BootLoad, LedRuns, Copying
<1> QED
  BY <1>1, <1>3, <1>4, NextPageInv DEF IInv, BootLoad, flash

LEMMA PassPageInv == ASSUME IInv, PassPage PROVE IInv'
<1>1. TypeOK'
  BY TypesKept DEF IInv, Next, Led
<1>2. page \in Pages
  BY PageIsPage DEF IInv
<1>3. ram'[page] \in Whole
  BY <1>2 DEF PassPage, IInv, RamInv, Loaded
<1>4. lock = "unlocked" => reset \in Pages
  BY DEF IInv, LockInv, PassPage, LedRuns, Copying
<1> QED
  BY <1>1, <1>3, <1>4, NextPageInv DEF IInv, PassPage, flash

LEMMA CloseInv == ASSUME IInv, Close PROVE IInv'
<1>1. TypeOK'
  BY TypesKept DEF IInv, Next, Led
<1>2. page \in Pages
  BY PageIsPage DEF IInv
<1>3. ram'[page] \in Whole
  BY <1>2 DEF Close, LedRuns, IInv, RamInv, Loaded
<1>4. lock' # "unlocked" /\ reset \notin Pages
  BY DEF IInv, TypeOK, LockInv, Close, LedRuns, Pages
<1> QED
  BY <1>1, <1>3, <1>4, NextPageInv DEF IInv, Close

LEMMA OpenInv == ASSUME IInv, BootOpen \/ OpenPage PROVE IInv'
<1>1. TypeOK'
  BY TypesKept DEF IInv, Next, Led
<1>2. page' = page /\ reset \notin Pages /\ led = "open" /\ led' = "erase"
  BY DEF BootOpen, OpenPage, LedRuns, page, Pages
<1>3. Loaded' = Loaded
  BY <1>2 DEF BootOpen, OpenPage, Loaded, Copying
<1>4. LockInv'
  BY <1>2 DEF IInv, LockInv, BootOpen, OpenPage, Unlocks, Copying
<1>5. ErasedInv'
  BY <1>2 DEF ErasedInv, BootOpen, OpenPage, Copying
<1>6. ResetInv' /\ CopyInv' /\ ProgramInv'
  BY <1>2 DEF IInv, ResetInv, CopyInv, ProgramInv, BootOpen, OpenPage, Pages
<1>7. RamInv' /\ CommittedIsWhole'
  BY <1>3 DEF IInv, RamInv, CommittedIsWhole, BootOpen, OpenPage
<1> QED
  BY <1>1, <1>4, <1>5, <1>6, <1>7 DEF IInv

LEMMA EraseInv == ASSUME IInv, Erase PROVE IInv'
<1>1. TypeOK'
  BY TypesKept DEF IInv, Next, Led
<1>2. page' = page /\ page \in Pages /\ reset \notin Pages
      /\ led = "erase" /\ led' = "copy1"
  BY PageIsPage DEF IInv, Erase, LedRuns, Following, page, Pages
<1>3. flag'[page] = "erased"
  BY <1>2 DEF Erase, ErasePage, IInv, ErasedInv, TypeOK
<1>4. Loaded' \subseteq Loaded \union {page}
  BY <1>2 DEF Erase, Loaded, Copying
<1>5. Loaded \subseteq Pages
  BY <1>2 DEF IInv, Loaded, PageAt, Pages, TypeOK
<1>6. RamInv'
  <2>1. Default \in Whole
    BY ConstantsAssumption DEF Default, Whole
  <2>2. CASE phase = "run"
    BY <2>2, <1>2, <1>4 DEF Erase, IInv, RamInv, Loaded
  <2>3. CASE phase = "boot"
    BY <2>1, <2>3, <1>2, <1>4, <1>5 DEF Erase, IInv, RamInv, TypeOK
  <2> QED
    BY <2>2, <2>3 DEF IInv, TypeOK
<1>7. CommittedIsWhole'
  BY <1>2, <1>3 DEF IInv, CommittedIsWhole, Erase, ErasePage, TypeOK
<1>8. LockInv' /\ ErasedInv'
  BY <1>2, <1>3 DEF IInv, LockInv, ErasedInv, Erase, Unlocks, Copying
<1>9. ResetInv' /\ CopyInv' /\ ProgramInv'
  BY <1>2 DEF IInv, ResetInv, CopyInv, ProgramInv, Erase, Pages
<1> QED
  BY <1>1, <1>6, <1>7, <1>8, <1>9 DEF IInv

LEMMA CopyFieldInv ==
  ASSUME IInv, CopyField("copy1", "first") \/ CopyField("copy2", "second")
  PROVE  IInv'
<1>1. TypeOK'
  BY TypesKept DEF IInv, Next, Led
<1>2. page' = page /\ page \in Pages /\ reset \notin Pages
  BY PageIsPage DEF IInv, CopyField, LedRuns, page, Pages
<1>3. ram[page] \in Whole
  BY <1>2 DEF CopyField, LedRuns, IInv, RamInv, Loaded, Copying
<1>4. Loaded' = Loaded
  BY <1>2 DEF CopyField, LedRuns, Following, Loaded, Copying
<1>5. RamInv' /\ CommittedIsWhole' /\ ResetInv'
  BY <1>4 DEF CopyField, IInv, RamInv, CommittedIsWhole, ResetInv, flash
<1>6. LockInv' /\ ErasedInv'
  BY <1>2 DEF CopyField, LedRuns, Following, IInv, LockInv, ErasedInv,
              Unlocks, Copying, flash
<1>7. CopyInv' /\ ProgramInv'
  <2>1. CASE CopyField("copy1", "first")
    BY <1>3, <2>1 DEF CopyField, LedRuns, Following, CopyInv, ProgramInv,
       Whole, Fields, IInv, TypeOK
  <2>2. CASE CopyField("copy2", "second")
    <3>1. tempbuf' \in Whole
      BY <1>3, <2>2 DEF CopyField, LedRuns, CopyInv, Whole, Fields, IInv, TypeOK
    <3> QED
      BY <2>2, <3>1 DEF CopyField, LedRuns, Following, CopyInv, ProgramInv
  <2> QED
    BY <2>1, <2>2
<1> QED
  BY <1>1, <1>5, <1>6, <1>7 DEF IInv

LEMMA ProgramFieldInv ==
  ASSUME IInv,
         ProgramField("program1", "first") \/ ProgramField("program2", "second")
  PROVE  IInv'
<1>1. TypeOK'
  BY TypesKept DEF IInv, Next, Led
<1>2. page' = page /\ page \in Pages /\ reset \notin Pages
  BY PageIsPage DEF IInv, ProgramField, LedRuns, page, Pages
<1>3. Loaded' = Loaded
  BY <1>2 DEF ProgramField, LedRuns, Following, Loaded, Copying
<1>4. RamInv' /\ ResetInv'
  BY <1>3 DEF ProgramField, IInv, RamInv, ResetInv
<1>5. LockInv' /\ ErasedInv' /\ CopyInv'
  BY <1>2 DEF ProgramField, LedRuns, Following, IInv, LockInv, ErasedInv,
              CopyInv, Unlocks, Copying
<1>6. flag[page] = "erased"
  BY DEF ProgramField, LedRuns, IInv, ErasedInv, Copying
<1>7. CommittedIsWhole'
  BY <1>2, <1>6 DEF ProgramField, IInv, CommittedIsWhole, TypeOK
<1>8. ProgramInv'
  <2>1. CASE ProgramField("program1", "first")
    BY <1>2, <2>1 DEF ProgramField, LedRuns, Following, ProgramInv, IInv,
       TypeOK, Fields
  <2>2. CASE ProgramField("program2", "second")
    <3>1. image \in [Pages -> [Fields -> Contents]]
          /\ tempbuf \in [Fields -> Contents]
      BY DEF IInv, TypeOK
    <3>2. lock = "unlocked" => image[page]["first"] = tempbuf["first"]
      BY <1>2, <2>2 DEF ProgramField, LedRuns, ProgramInv, IInv
    <3>3. lock = "unlocked" => image'[page] = [image[page] EXCEPT !["second"] = tempbuf["second"]]
      BY <1>2, <2>2, <3>1 DEF ProgramField
    <3>4. lock = "unlocked" => image'[page] = tempbuf
      BY <1>2, <3>1, <3>2, <3>3 DEF Fields
    <3> QED
      BY <1>2, <2>2, <3>4 DEF ProgramField, LedRuns, Following, ProgramInv
  <2> QED
    BY <2>1, <2>2
<1> QED
  BY <1>1, <1>4, <1>5, <1>7, <1>8 DEF IInv

LEMMA CommitInv == ASSUME IInv, Commit PROVE IInv'
<1>1. TypeOK'
  BY TypesKept DEF IInv, Next, Led
<1>2. /\ page' = page /\ page \in Pages /\ reset \notin Pages
      /\ led = "commit" /\ led' = "close"
  BY PageIsPage DEF IInv, Commit, LedRuns, Following, page, Pages
<1>3. Loaded' = Loaded
  BY <1>2 DEF Commit, Loaded, Copying
<1>4. RamInv' /\ CopyInv' /\ ProgramInv' /\ ErasedInv'
  BY <1>2, <1>3 DEF Commit, IInv, RamInv, CopyInv, ProgramInv, ErasedInv,
     Copying
<1>5. LockInv' /\ ResetInv'
  BY <1>2 DEF Commit, IInv, LockInv, ResetInv, Unlocks, Copying, Pages
<1>6. CommittedIsWhole'
  <2>1. lock = "unlocked" => image[page] \in Whole
    BY <1>2 DEF IInv, ProgramInv, CopyInv
  <2> QED
    BY <1>2, <2>1 DEF Commit, IInv, CommittedIsWhole, Whole, TypeOK
<1> QED
  BY <1>1, <1>4, <1>5, <1>6 DEF IInv

LEMMA WakeInv == ASSUME IInv, Wake PROVE IInv'
<1>1. TypeOK'
  BY TypesKept DEF IInv, Next, Led
<1>2. Loaded' = Loaded
  BY DEF Wake, LedRuns, Loaded, Copying
<1> QED
  BY <1>1, <1>2
     DEF Wake, LedRuns, IInv, ResetInv, LockInv, ErasedInv, RamInv, CopyInv,
         ProgramInv, CommittedIsWhole, Copying, Unlocks, page, flash

LEMMA WriteInv ==
  ASSUME IInv, NEW p \in Writable, Write(p) \/ WriteBlock(p)
  PROVE  IInv'
<1>1. TypeOK'
  BY TypesKept DEF IInv, Next, Others
<1>2. \A q \in Pages : ram[q] \in Whole => ram'[q] \in Whole
  BY ChangedKeeps, ConstantsAssumption DEF IInv, Write, WriteBlock
<1>3. Loaded' = Loaded /\ page' = page
  BY DEF Write, WriteBlock, Loaded, page, ledTask
<1>4. Loaded \subseteq Pages
  BY PageIsPage DEF IInv, Loaded, PageAt, Pages, TypeOK
<1>5. RamInv'
  BY <1>2, <1>3, <1>4 DEF IInv, RamInv
<1>6. ResetInv' /\ LockInv' /\ ErasedInv' /\ CopyInv' /\ ProgramInv'
      /\ CommittedIsWhole'
  BY <1>3 DEF Write, WriteBlock, IInv, ResetInv, LockInv, ErasedInv, CopyInv,
     ProgramInv, CommittedIsWhole, Unlocks, flash, ledTask
<1> QED
  BY <1>1, <1>5, <1>6 DEF IInv

LEMMA FactoryInv == ASSUME IInv, FactoryStart \/ FactoryErase PROVE IInv'
<1>1. TypeOK'
  BY TypesKept DEF IInv, Next, Others
<1>2. Loaded' = Loaded /\ page' = page /\ page \in Pages
  BY PageIsPage DEF IInv, FactoryStart, FactoryErase, Loaded, page, ledTask
<1>3. RamInv' /\ CopyInv'
  BY <1>2 DEF FactoryStart, FactoryErase, IInv, RamInv, CopyInv, ledTask
<1>4. CASE FactoryStart
  BY <1>1, <1>2, <1>3, <1>4
     DEF FactoryStart, IInv, ResetInv, LockInv, ErasedInv, ProgramInv,
         CommittedIsWhole, Pages, ledTask
<1>5. CASE FactoryErase
  <2>1. /\ lock = "unlocked"
        /\ flag' = [flag EXCEPT ![reset] = "erased"]
        /\ image' = [image EXCEPT ![reset] = Erased]
    BY <1>5 DEF FactoryErase, ErasePage, IInv, ResetInv
  <2>2. ResetInv' /\ LockInv'
    BY <1>5, <2>1 DEF FactoryErase, IInv, ResetInv, LockInv, TypeOK, Pages
  <2>3. lock' = "locked" => \A p \in Pages : flag'[p] = "erased"
    BY <1>5, <2>1 DEF FactoryErase, IInv, ResetInv, TypeOK, Pages
  <2>4. ErasedInv'
    BY <1>2, <1>5, <2>1, <2>3 DEF FactoryErase, IInv, ErasedInv, TypeOK, ledTask
  <2>5. ProgramInv'
    BY <1>5 DEF FactoryErase, ProgramInv, Pages
  <2>6. CommittedIsWhole'
    BY <1>5, <2>1 DEF FactoryErase, IInv, CommittedIsWhole, TypeOK
  <2> QED
    BY <1>1, <1>3, <2>2, <2>4, <2>5, <2>6 DEF IInv
<1> QED
  BY <1>4, <1>5

LEMMA RebootInv == ASSUME IInv, Reboot PROVE IInv'
<1>1. TypeOK'
  BY DEF IInv, Reboot, TypeOK, Blank, Contents, Steps
<1>2. Loaded' = {}
  BY DEF Reboot, Loaded, Copying
<1> QED
  BY <1>1, <1>2
     DEF Reboot, IInv, ResetInv, LockInv, ErasedInv, RamInv, CopyInv,
         ProgramInv, CommittedIsWhole, Copying, Pages

LEMMA StutterInv == ASSUME IInv, UNCHANGED vars PROVE IInv'
BY DEF IInv, TypeOK, ResetInv, LockInv, ErasedInv, RamInv, CopyInv,
       ProgramInv, CommittedIsWhole, Loaded, Unlocks, page, vars, flash, ledTask

(* The inductive invariant is kept by every step. *)
LEMMA InvKept == ASSUME IInv, [Next]_vars PROVE IInv'
<1>1. CASE Led
  BY <1>1, BootLoadInv, PassPageInv, CloseInv, OpenInv, EraseInv,
     CopyFieldInv, ProgramFieldInv, CommitInv, WakeInv DEF Led
<1>2. CASE Others
  BY <1>2, WriteInv, FactoryInv, RebootInv DEF Others, FactoryDone
<1>3. CASE Restart
  BY <1>3, RebootInv DEF Restart
<1> QED
  BY <1>1, <1>2, <1>3, StutterInv DEF Next

-----------------------------------------------------------------------------
(* The inductive invariant holds wherever power fails and the factory      *)
(* reset cuts in (store.c:26-87, 148-292).                                 *)
THEOREM Invariance == Spec => []IInv
BY InitInv, InvKept, PTL DEF Spec

(* Every variable keeps its type; the LED task never leaves the three      *)
(* pages (store.c:26-87).                                                  *)
THEOREM TypeCorrect == Spec => []TypeOK
BY Invariance, PTL DEF IInv

(* A committed page always holds a whole image of settings, for any set of *)
(* values and any pattern of changes (store.c:33-51, 162-199).             *)
THEOREM CommittedPagesAreWhole == Spec => []CommittedIsWhole
BY Invariance, PTL DEF IInv

-----------------------------------------------------------------------------
(* FlashStore implements PageStore.                                        *)

CopiedFields ==
  CASE led = "copy2" -> {"first"}
    [] led \in {"program1", "program2", "commit", "close"} -> Fields
    [] OTHER -> {}

(* What a restart finds depends on the flash alone. *)
LEMMA DurableKept ==
  ASSUME flag' = flag, image' = image PROVE Durable' = Durable
BY DEF Durable

LEMMA InitStore == ASSUME Init PROVE Store!Init
<1>1. Durable = [p \in Pages |-> Default]
  BY DEF Init, Durable
<1>2. page \in Pages
  BY DEF Init, Booted, page, PageAt, Pages
<1> QED
  BY <1>1, <1>2 DEF Init, Booted, Store!Init

LEMMA TurnStore ==
  ASSUME IInv, BootOpen \/ OpenPage \/ PassPage \/ Close \/ Wake
  PROVE  Store!Turn
<1>1. page' \in Pages
  <2>1. TypeOK'
    BY TypesKept DEF IInv, Next, Led
  <2>2. at' = 1 \/ at' = 2 \/ at' = 3
    BY <2>1 DEF TypeOK
  <2> QED
    BY <2>1, <2>2 DEF page, PageAt, Pages, TypeOK
<1>2. led' \in {"open", "sleep", "erase"}
  BY DEF BootOpen, OpenPage, PassPage, Close, Wake, NextPage
<1>3. CopiedFields' = {}
  BY <1>2 DEF CopiedFields
<1>4. ram' = ram /\ tempbuf' = tempbuf /\ Durable' = Durable
  BY DurableKept DEF BootOpen, OpenPage, PassPage, Close, Wake, flash
<1> QED
  BY <1>1, <1>3, <1>4 DEF Store!Turn, CopiedFields

LEMMA BootLoadStore == ASSUME IInv, BootLoad PROVE Store!Load(page)
<1>1. page' \in Pages
  <2>1. TypeOK'
    BY TypesKept DEF IInv, Next, Led
  <2>2. at' = 1 \/ at' = 2 \/ at' = 3
    BY <2>1 DEF TypeOK
  <2> QED
    BY <2>1, <2>2 DEF page, PageAt, Pages, TypeOK
<1>2. led' \in {"open", "sleep"}
  BY DEF BootLoad, NextPage
<1>3. CopiedFields' = {}
  BY <1>2 DEF CopiedFields
<1>4. Durable[page] = image[page]
  BY PageIsPage DEF IInv, Durable, BootLoad
<1>5. ram' = [ram EXCEPT ![page] = Durable[page]] /\ tempbuf' = tempbuf
      /\ Durable' = Durable
  BY <1>4, DurableKept DEF BootLoad, flash
<1> QED
  BY <1>1, <1>3, <1>5 DEF Store!Load, CopiedFields

LEMMA EraseStore ==
  ASSUME IInv, Erase
  PROVE  Store!Load(page) \/ Store!Forget(page)
<1>1. page' = page /\ page \in Pages /\ led = "erase" /\ led' = "copy1"
  BY PageIsPage DEF IInv, Erase, LedRuns, Following, page
<1>2. CopiedFields = {} /\ CopiedFields' = {}
  BY <1>1 DEF CopiedFields
<1>3. /\ flag \in [Pages -> {"erased", "committed"}]
      /\ flag'[page] = "erased"
      /\ \A p \in Pages \ {page} : flag'[p] = flag[p] /\ image'[p] = image[p]
  BY <1>1 DEF Erase, ErasePage, IInv, ErasedInv, TypeOK
<1>4. Durable' = [Durable EXCEPT ![page] = Default]
  BY <1>1, <1>3 DEF Durable
<1>5. CASE phase = "run"
  BY <1>1, <1>2, <1>4, <1>5 DEF Erase, Store!Forget, CopiedFields
<1>6. CASE phase = "boot"
  <2>1. Durable[page] = Default
    BY <1>1, <1>6 DEF Durable, IInv, ErasedInv
  <2>2. Durable' = Durable
    BY <1>1, <1>4, <2>1 DEF Durable
  <2> QED
    BY <1>1, <1>2, <1>6, <2>1, <2>2 DEF Erase, Store!Load, CopiedFields
<1> QED
  BY <1>5, <1>6 DEF IInv, TypeOK

LEMMA CopyFieldStore ==
  ASSUME IInv,
         NEW step, NEW f,
         <<step, f>> \in {<<"copy1", "first">>, <<"copy2", "second">>},
         CopyField(step, f)
  PROVE  f \in Fields /\ Store!Copy(f)
<1>1. page' = page /\ Durable' = Durable
  BY DurableKept DEF CopyField, page, flash
<1>2. CopiedFields' = CopiedFields \union {f} /\ f \in Fields
  BY DEF CopyField, LedRuns, Following, CopiedFields, Fields
<1> QED
  BY <1>1, <1>2 DEF CopyField, Store!Copy, CopiedFields

LEMMA ProgramFieldStore ==
  ASSUME IInv,
         ProgramField("program1", "first") \/ ProgramField("program2", "second")
  PROVE  UNCHANGED Store!vars
<1>1. page' = page /\ page \in Pages /\ led \in {"program1", "program2"}
      /\ led' \in {"program2", "commit"}
  BY PageIsPage DEF IInv, ProgramField, LedRuns, Following, page
<1>2. CopiedFields' = CopiedFields
  BY <1>1 DEF CopiedFields
<1>3. flag[page] = "erased" /\ flag' = flag
  BY <1>1 DEF IInv, ErasedInv, Copying, ProgramField
<1>4. \A p \in Pages \ {page} : image'[p] = image[p]
  BY <1>1 DEF ProgramField, IInv, TypeOK
<1>5. Durable' = Durable
  BY <1>3, <1>4 DEF Durable
<1> QED
  BY <1>1, <1>2, <1>5 DEF ProgramField, Store!vars, CopiedFields

LEMMA CommitStore == ASSUME IInv, Commit PROVE [Store!Save]_(Store!vars)
<1>1. page' = page /\ page \in Pages /\ led = "commit" /\ led' = "close"
      /\ reset \notin Pages
  BY PageIsPage DEF IInv, Commit, LedRuns, Following, page, Pages
<1>2. CopiedFields = Fields /\ CopiedFields' = Fields
  BY <1>1 DEF CopiedFields
<1>3. CASE lock = "unlocked"
  <2>1. image[page] = tempbuf
    BY <1>1, <1>3 DEF IInv, ProgramInv
  <2>2. Durable' = [Durable EXCEPT ![page] = tempbuf]
    BY <1>1, <1>3, <2>1 DEF Commit, Durable, IInv, TypeOK
  <2> QED
    BY <1>1, <1>2, <2>2 DEF Commit, Store!Save, CopiedFields
<1>4. CASE lock # "unlocked"
  <2>1. Durable' = Durable
    BY <1>4, DurableKept DEF Commit
  <2> QED
    BY <1>1, <1>2, <2>1 DEF Commit, Store!vars, CopiedFields
<1> QED
  BY <1>3, <1>4

LEMMA WriteStore ==
  ASSUME IInv, NEW p \in Writable, Write(p) \/ WriteBlock(p)
  PROVE  p \in Pages /\ Store!Change(p)
<1>1. p \in Pages
  BY ConstantsAssumption
<1>2. page' = page /\ Durable' = Durable /\ led' = led /\ tempbuf' = tempbuf
  BY DurableKept DEF Write, WriteBlock, page, flash, ledTask
<1>3. CopiedFields' = CopiedFields
  BY <1>2 DEF CopiedFields
<1>4. \E new \in [Fields -> Contents] : ram' = [ram EXCEPT ![p] = new]
  <2>1. PICK fs \in SUBSET Fields, v \in Values :
          ram' = [ram EXCEPT ![p] = [f \in Fields |-> IF f \in fs THEN v ELSE ram[p][f]]]
    BY DEF Write, WriteBlock, Changed
  <2>2. [f \in Fields |-> IF f \in fs THEN v ELSE ram[p][f]] \in [Fields -> Contents]
    BY <1>1 DEF IInv, TypeOK, Contents
  <2> QED
    BY <2>1, <2>2
<1> QED
  BY <1>1, <1>2, <1>3, <1>4 DEF Store!Change, CopiedFields

LEMMA FactoryEraseStore ==
  ASSUME IInv, FactoryErase PROVE reset \in Pages /\ Store!Forget(reset)
<1>1. page' = page /\ led' = led /\ tempbuf' = tempbuf /\ ram' = ram
      /\ reset \in Pages
  BY DEF FactoryErase, page, ledTask
<1>2. CopiedFields' = CopiedFields
  BY <1>1 DEF CopiedFields
<1>3. /\ flag' = [flag EXCEPT ![reset] = "erased"]
      /\ image' = [image EXCEPT ![reset] = Erased]
  BY DEF FactoryErase, ErasePage, IInv, ResetInv
<1>4. Durable' = [Durable EXCEPT ![reset] = Default]
  BY <1>1, <1>3 DEF Durable, IInv, TypeOK
<1> QED
  BY <1>1, <1>2, <1>4 DEF Store!Forget, CopiedFields

LEMMA RebootStore == ASSUME Reboot PROVE Store!Restart
<1>1. page' \in Pages
  BY DEF Reboot, page, PageAt, Pages
<1>2. CopiedFields' = {}
  BY DEF Reboot, CopiedFields
<1>3. Durable' = Durable
  BY DurableKept DEF Reboot
<1> QED
  BY <1>1, <1>2, <1>3 DEF Reboot, Store!Restart, CopiedFields

LEMMA StutterStore ==
  ASSUME (UNCHANGED vars) \/ FactoryStart PROVE UNCHANGED Store!vars
<1>1. page' = page /\ led' = led /\ tempbuf' = tempbuf /\ ram' = ram
      /\ Durable' = Durable
  BY DurableKept DEF vars, flash, ledTask, FactoryStart, page
<1>2. CopiedFields' = CopiedFields
  BY <1>1 DEF CopiedFields
<1> QED
  BY <1>1, <1>2 DEF Store!vars, CopiedFields

(* Every step of the store is a step of the abstract store or leaves it    *)
(* as it is.                                                               *)
LEMMA StepStore == ASSUME IInv, [Next]_vars PROVE [Store!Next]_(Store!vars)
<1> USE DEF Store!Next
<1>1. CASE Led
  <2>0. page \in Pages
    BY PageIsPage DEF IInv
  <2>1. CASE BootLoad
    BY <2>0, <2>1, BootLoadStore
  <2>2. CASE BootOpen \/ OpenPage \/ PassPage \/ Close \/ Wake
    BY <2>2, TurnStore
  <2>3. CASE Erase
    BY <2>0, <2>3, EraseStore
  <2>4. CASE CopyField("copy1", "first") \/ CopyField("copy2", "second")
    BY <2>4, CopyFieldStore
  <2>5. CASE ProgramField("program1", "first") \/ ProgramField("program2", "second")
    BY <2>5, ProgramFieldStore
  <2>6. CASE Commit
    BY <2>6, CommitStore
  <2> QED
    BY <1>1, <2>1, <2>2, <2>3, <2>4, <2>5, <2>6 DEF Led
<1>2. CASE Others
  <2>1. ASSUME NEW p \in Writable, Write(p) \/ WriteBlock(p) PROVE Store!Next
    BY <2>1, WriteStore
  <2>2. CASE FactoryStart
    BY <2>2, StutterStore
  <2>3. CASE FactoryErase
    BY <2>3, FactoryEraseStore
  <2>4. CASE FactoryDone
    BY <2>4, RebootStore DEF FactoryDone
  <2> QED
    BY <1>2, <2>1, <2>2, <2>3, <2>4 DEF Others
<1>3. CASE Restart
  BY <1>3, RebootStore DEF Restart
<1> QED
  BY <1>1, <1>2, <1>3, StutterStore DEF Next

(* The flash pages implement the abstract store: whatever the values, the  *)
(* changes and the moments power fails, a restart finds the defaults or an *)
(* image copied from the same page of RAM (store.c:26-87, 148-292).        *)
THEOREM Implementation == Spec => ImplementsPageStore
<1>1. Init => Store!Init
  BY InitStore
<1>2. IInv /\ [Next]_vars => [Store!Next]_(Store!vars)
  BY StepStore
<1> QED
  BY <1>1, <1>2, Invariance, PTL DEF Spec, ImplementsPageStore, Store!Spec

-----------------------------------------------------------------------------
(* No update of the outputs or inputs is lost. *)

Saved == {"OUT", "IN"}

(* A save of p is still to come. *)
Noted(p) == p \in write_page_en \union unmarked

(* What RAM holds is in flash, or in the copy the LED task is about to put *)
(* there, or has not been copied yet.  A page whose flash is locked by     *)
(* mistake got the defaults, which is what its erased page stands for.     *)
Caught(p) ==
  IF page = p /\ Unlocks
    THEN /\ led = "copy2" => tempbuf["first"] = ram[p]["first"]
         /\ led \in {"program1", "program2", "commit"} => tempbuf = ram[p]
         /\ led \in {"open", "sleep", "close"} => Durable[p] = ram[p]
    ELSE Durable[p] = ram[p]

UnlockedInv ==
  led \in Copying \union {"erase", "close"} /\ Unlocks => lock = "unlocked"

CaughtInv == \A p \in Saved \cap Loaded : Noted(p) \/ Caught(p)

SaveInv == reset = "no" => UnlockedInv /\ CaughtInv

(* The facts that the steps of the LED task share. *)
LEMMA SaveFacts ==
  ASSUME IInv
  PROVE  /\ page \in Pages /\ Loaded \subseteq Pages /\ Saved \subseteq Pages
         /\ "no" \notin Pages
         /\ phase = "run" => Loaded = Pages
BY PageIsPage DEF IInv, Loaded, PageAt, Pages, Saved, TypeOK

(* The LED task leaves a page that is in flash as it is in RAM. *)
LEMMA NextPageSave ==
  ASSUME IInv, SaveInv, reset = "no", NextPage, NEW old, old = page,
         Noted(old)' \/ Durable'[old] = ram'[old] \/ old \notin Saved,
         \A p \in Pages \ {old} :
           /\ Noted(p) => Noted(p)'
           /\ Durable'[p] = Durable[p] /\ ram'[p] = ram[p]
  PROVE  SaveInv'
<1>1. led' \in {"open", "sleep"}
  BY DEF NextPage
<1>2. UnlockedInv'
  BY <1>1 DEF UnlockedInv, Copying
<1>3. Loaded' \subseteq Loaded \union {page}
  BY NextPageLoads DEF IInv
<1>4. ASSUME NEW p \in Saved \cap Loaded'
      PROVE  Noted(p)' \/ Durable'[p] = ram'[p]
  <2>1. CASE p = old
    BY <1>4, <2>1
  <2>2. CASE p # old
    <3>1. p \in Saved \cap Loaded /\ p \in Pages
      BY <1>3, <1>4, <2>2, SaveFacts
    <3>2. Noted(p) \/ Durable[p] = ram[p]
      BY <2>2, <3>1 DEF SaveInv, CaughtInv, Caught
    <3> QED BY <2>2, <3>1, <3>2
  <2> QED BY <2>1, <2>2
<1>5. CaughtInv'
  BY <1>1, <1>4 DEF CaughtInv, Caught
<1> QED BY <1>2, <1>5 DEF SaveInv

LEMMA BootLoadSave == ASSUME IInv, SaveInv, BootLoad PROVE SaveInv'
<1> SUFFICES ASSUME reset = "no" PROVE SaveInv'
  BY DEF SaveInv, BootLoad
<1>1. page \in Pages /\ Durable' = Durable
  BY SaveFacts, DurableKept DEF BootLoad, flash
<1>2. PICK old : old = page
  OBVIOUS
<1>3. Durable'[old] = ram'[old]
  BY <1>1, <1>2 DEF BootLoad, Durable, IInv, TypeOK
<1>4. ASSUME NEW p \in Pages \ {old}
      PROVE  /\ Noted(p) => Noted(p)'
             /\ Durable'[p] = Durable[p] /\ ram'[p] = ram[p]
  BY <1>1, <1>2 DEF BootLoad, Noted, IInv, TypeOK
<1> QED BY <1>2, <1>3, <1>4, NextPageSave DEF BootLoad

LEMMA PassPageSave == ASSUME IInv, SaveInv, PassPage PROVE SaveInv'
<1> SUFFICES ASSUME reset = "no" PROVE SaveInv'
  BY DEF SaveInv, PassPage
<1>1. page \in Pages /\ Durable' = Durable /\ ram' = ram /\ Loaded = Pages
  BY SaveFacts, DurableKept DEF PassPage, flash
<1>2. PICK old : old = page
  OBVIOUS
<1>3. Noted(old)' \/ Durable'[old] = ram'[old] \/ old \notin Saved
  <2>1. old \in Saved => Noted(old) \/ Caught(old)
    BY <1>1, <1>2 DEF SaveInv, CaughtInv
  <2>2. Caught(old) => Durable[old] = ram[old]
    BY DEF PassPage, LedRuns, Caught
  <2>3. Noted(old) => Noted(old)'
    BY DEF PassPage, Noted
  <2> QED BY <1>1, <2>1, <2>2, <2>3
<1>4. ASSUME NEW p \in Pages \ {old}
      PROVE  /\ Noted(p) => Noted(p)'
             /\ Durable'[p] = Durable[p] /\ ram'[p] = ram[p]
  BY <1>1 DEF PassPage, Noted
<1> QED BY <1>2, <1>3, <1>4, NextPageSave DEF PassPage

LEMMA CloseSave == ASSUME IInv, SaveInv, Close PROVE SaveInv'
<1> SUFFICES ASSUME reset = "no" PROVE SaveInv'
  BY DEF SaveInv, Close
<1>1. /\ page \in Pages /\ Durable' = Durable /\ ram' = ram /\ led = "close"
      /\ page \in Loaded
  BY SaveFacts, DurableKept DEF Close, LedRuns, Loaded
<1>2. PICK old : old = page
  OBVIOUS
<1>3. ASSUME NEW p \in Pages, p # old \/ p \in Saved
      PROVE  Noted(p) => Noted(p)'
  BY <1>2, <1>3 DEF Close, Noted, ClearsFirst, Saved
<1>4. Noted(old)' \/ Durable'[old] = ram'[old] \/ old \notin Saved
  <2>1. old \in Saved => Noted(old) \/ Caught(old)
    BY <1>1, <1>2 DEF SaveInv, CaughtInv
  <2>2. Caught(old) => Durable[old] = ram[old]
    BY <1>1 DEF Caught
  <2> QED BY <1>1, <1>2, <1>3, <2>1, <2>2
<1> QED BY <1>1, <1>2, <1>3, <1>4, NextPageSave DEF Close

(* While the LED task works on its page the others are left alone. *)
LEMMA OthersCaught ==
  ASSUME IInv, SaveInv, reset = "no", page' = page, phase' = phase,
         UnlockedInv', Loaded' \subseteq Loaded \union {page},
         page \in Saved \cap Loaded' => Noted(page)' \/ Caught(page)',
         \A p \in Pages \ {page} :
           /\ Noted(p) => Noted(p)'
           /\ Durable'[p] = Durable[p] /\ ram'[p] = ram[p]
  PROVE  SaveInv'
<1>1. ASSUME NEW p \in Saved \cap Loaded', p # page
      PROVE  Noted(p)' \/ Caught(p)'
  <2>1. Noted(p) \/ Durable[p] = ram[p]
    BY <1>1 DEF SaveInv, CaughtInv, Caught
  <2> QED BY <1>1, <2>1, SaveFacts DEF Caught
<1>2. CaughtInv'
  BY <1>1 DEF CaughtInv
<1> QED BY <1>2 DEF SaveInv

LEMMA OpenSave ==
  ASSUME IInv, SaveInv, BootOpen \/ OpenPage PROVE SaveInv'
<1> SUFFICES ASSUME reset = "no" PROVE SaveInv'
  BY DEF SaveInv, BootOpen, OpenPage
<1>1. /\ page' = page /\ phase' = phase /\ led = "open" /\ led' = "erase"
      /\ ram' = ram /\ Durable' = Durable /\ unmarked' = unmarked
  BY DurableKept DEF BootOpen, OpenPage, LedRuns, page
<1>2. UnlockedInv'
  BY <1>1 DEF BootOpen, OpenPage, UnlockedInv, Unlocks
<1>3. Loaded' = Loaded
  BY <1>1 DEF BootOpen, OpenPage, Loaded, Copying
<1>4. ASSUME page \in Saved \cap Loaded'
      PROVE  Noted(page)' \/ Caught(page)'
  <2>1. CASE OpenPage
    BY <1>1, <2>1 DEF OpenPage, Caught, Unlocks
  <2>2. CASE BootOpen
    <3>1. Noted(page) \/ Caught(page)
      BY <1>3, <1>4 DEF SaveInv, CaughtInv
    <3>2. Noted(page)' <=> Noted(page)
      BY <1>1, <2>2 DEF BootOpen, Noted
    <3>3. Caught(page) => Caught(page)'
      BY <1>1 DEF Caught, Unlocks
    <3> QED BY <3>1, <3>2, <3>3
  <2> QED BY <2>1, <2>2
<1>5. ASSUME NEW p \in Pages \ {page}
      PROVE  Noted(p) => Noted(p)'
  BY <1>1 DEF BootOpen, OpenPage, Noted
<1> QED BY <1>1, <1>2, <1>3, <1>4, <1>5, OthersCaught

LEMMA EraseSave == ASSUME IInv, SaveInv, Erase PROVE SaveInv'
<1> SUFFICES ASSUME reset = "no" PROVE SaveInv'
  BY DEF SaveInv, Erase
<1>1. /\ page' = page /\ phase' = phase /\ page \in Pages
      /\ led = "erase" /\ led' = "copy1" /\ write_page_en' = write_page_en
  BY SaveFacts DEF Erase, LedRuns, Following, page
<1>2. UnlockedInv'
  BY <1>1 DEF Erase, SaveInv, UnlockedInv, Unlocks, Copying
<1>3. Loaded' \subseteq Loaded \union {page}
  BY <1>1 DEF Erase, Loaded, Copying
<1>4. /\ flag \in [Pages -> {"erased", "committed"}]
      /\ flag'[page] = "erased"
      /\ \A p \in Pages \ {page} : flag'[p] = flag[p] /\ image'[p] = image[p]
  BY <1>1 DEF Erase, ErasePage, IInv, ErasedInv, TypeOK
<1>5. Durable'[page] = Default
      /\ \A p \in Pages \ {page} : Durable'[p] = Durable[p]
  BY <1>1, <1>4 DEF Durable
<1>6. Caught(page)'
  <2>1. CASE Unlocks
    BY <1>1, <2>1 DEF Caught, Unlocks
  <2>2. CASE ~Unlocks
    <3>1. phase = "boot"
      BY <2>2 DEF Unlocks, IInv, TypeOK
    <3> QED BY <1>1, <1>5, <2>2, <3>1 DEF Erase, Caught, Unlocks, IInv, TypeOK
  <2> QED BY <2>1, <2>2
<1>7. ASSUME NEW p \in Pages \ {page}
      PROVE  (Noted(p) => Noted(p)') /\ ram'[p] = ram[p]
  BY <1>1 DEF Erase, Noted, IInv, TypeOK
<1> QED BY <1>1, <1>2, <1>3, <1>5, <1>6, <1>7, OthersCaught

LEMMA CopyFieldSave ==
  ASSUME IInv, SaveInv,
         CopyField("copy1", "first") \/ CopyField("copy2", "second")
  PROVE  SaveInv'
<1> SUFFICES ASSUME reset = "no" PROVE SaveInv'
  BY DEF SaveInv, CopyField
<1>1. /\ page' = page /\ phase' = phase /\ page \in Pages
      /\ ram' = ram /\ Durable' = Durable /\ write_page_en' = write_page_en
  BY SaveFacts, DurableKept DEF CopyField, page, flash
<1>2. UnlockedInv'
  BY <1>1 DEF CopyField, LedRuns, SaveInv, UnlockedInv, Unlocks, Copying, flash
<1>3. Loaded' = Loaded
  BY <1>1 DEF CopyField, LedRuns, Following, Loaded, Copying
<1>4. ram[page] \in [Fields -> Contents] /\ tempbuf \in [Fields -> Contents]
  BY <1>1 DEF IInv, TypeOK
<1>5. CASE CopyField("copy1", "first")
  <2>1. led' = "copy2" /\ tempbuf'["first"] = ram[page]["first"]
    BY <1>4, <1>5 DEF CopyField, LedRuns, Following, Fields
  <2>2. Unlocks => Caught(page)'
    BY <1>1, <2>1 DEF Caught, Unlocks
  <2>3. ~Unlocks => Noted(page)' = Noted(page)
    BY <1>1, <1>5 DEF CopyField, Noted, Unlocks, IInv, TypeOK
  <2>4. ASSUME ~Unlocks, Caught(page) PROVE Caught(page)'
    BY <1>1, <2>4 DEF Caught, Unlocks
  <2>5. page \in Saved \cap Loaded' => Noted(page)' \/ Caught(page)'
    BY <1>3, <2>2, <2>3, <2>4 DEF SaveInv, CaughtInv
  <2>6. \A p \in Pages \ {page} : Noted(p) => Noted(p)'
    BY <1>1, <1>5 DEF CopyField, Noted
  <2> QED BY <1>1, <1>2, <1>3, <2>5, <2>6, OthersCaught
<1>6. CASE CopyField("copy2", "second")
  <2>1. /\ led = "copy2" /\ led' = "program1"
        /\ tempbuf' = [tempbuf EXCEPT !["second"] = ram[page]["second"]]
        /\ unmarked' = unmarked
    BY <1>6 DEF CopyField, LedRuns, Following
  <2>2. tempbuf["first"] = ram[page]["first"] => tempbuf' = ram[page]
    BY <1>4, <2>1 DEF Fields
  <2>3. Caught(page) => Caught(page)'
    BY <1>1, <2>1, <2>2 DEF Caught, Unlocks
  <2>4. \A p \in Pages : Noted(p)' = Noted(p)
    BY <1>1, <2>1 DEF Noted
  <2>5. page \in Saved \cap Loaded' => Noted(page)' \/ Caught(page)'
    BY <1>1, <1>3, <2>3, <2>4 DEF SaveInv, CaughtInv
  <2> QED BY <1>1, <1>2, <1>3, <2>4, <2>5, OthersCaught
<1> QED BY <1>5, <1>6

LEMMA ProgramFieldSave ==
  ASSUME IInv, SaveInv,
         ProgramField("program1", "first") \/ ProgramField("program2", "second")
  PROVE  SaveInv'
<1> SUFFICES ASSUME reset = "no" PROVE SaveInv'
  BY DEF SaveInv, ProgramField
<1>1. /\ page' = page /\ phase' = phase /\ page \in Pages
      /\ led \in {"program1", "program2"} /\ led' \in {"program2", "commit"}
      /\ tempbuf' = tempbuf /\ ram' = ram
      /\ write_page_en' = write_page_en /\ unmarked' = unmarked
  BY SaveFacts DEF ProgramField, LedRuns, Following, page
<1>2. Durable' = Durable
  BY ProgramFieldStore DEF Store!vars
<1>3. UnlockedInv'
  BY <1>1 DEF ProgramField, SaveInv, UnlockedInv, Unlocks, Copying
<1>4. Loaded' = Loaded
  BY <1>1 DEF ProgramField, Loaded, Copying
<1>5. Caught(page) => Caught(page)'
  BY <1>1, <1>2 DEF Caught, Unlocks
<1>6. \A p \in Pages : Noted(p)' = Noted(p)
  BY <1>1 DEF Noted
<1>7. page \in Saved \cap Loaded' => Noted(page)' \/ Caught(page)'
  BY <1>1, <1>4, <1>5, <1>6 DEF SaveInv, CaughtInv
<1> QED BY <1>1, <1>2, <1>3, <1>4, <1>6, <1>7, OthersCaught

LEMMA CommitSave == ASSUME IInv, SaveInv, Commit PROVE SaveInv'
<1> SUFFICES ASSUME reset = "no" PROVE SaveInv'
  BY DEF SaveInv, Commit
<1>1. /\ page' = page /\ phase' = phase /\ page \in Pages
      /\ led = "commit" /\ led' = "close" /\ image' = image
      /\ tempbuf' = tempbuf /\ ram' = ram /\ lock' = lock
      /\ write_page_en' = write_page_en /\ unmarked' = unmarked
  BY SaveFacts DEF Commit, LedRuns, Following, page
<1>2. UnlockedInv'
  BY <1>1 DEF SaveInv, UnlockedInv, Unlocks, Copying
<1>3. Loaded' = Loaded
  BY <1>1 DEF Commit, Loaded, Copying
<1>4. flag \in [Pages -> {"erased", "committed"}]
  BY DEF IInv, TypeOK
<1>5. \A p \in Pages \ {page} : Durable'[p] = Durable[p]
  BY <1>1, <1>4 DEF Commit, Durable
<1>6. ASSUME Unlocks, Caught(page)
      PROVE  Caught(page)'
  <2>1. lock = "unlocked" /\ image[page] = tempbuf
    BY <1>1, <1>6, SaveFacts DEF SaveInv, UnlockedInv, Copying, IInv, ProgramInv
  <2>2. Durable'[page] = tempbuf
    BY <1>1, <1>4, <2>1 DEF Commit, Durable
  <2> QED BY <1>1, <1>6, <2>2 DEF Caught, Unlocks
<1>7. ASSUME ~Unlocks, Caught(page)
      PROVE  Caught(page)'
  <2>1. lock # "unlocked"
    BY <1>1, <1>7, SaveFacts DEF IInv, LockInv
  <2>2. Durable' = Durable
    BY <1>1, <2>1, DurableKept DEF Commit
  <2> QED BY <1>1, <1>7, <2>2 DEF Caught, Unlocks
<1>8. \A p \in Pages : Noted(p)' = Noted(p)
  BY <1>1 DEF Noted
<1>9. page \in Saved \cap Loaded' => Noted(page)' \/ Caught(page)'
  BY <1>1, <1>3, <1>6, <1>7, <1>8 DEF SaveInv, CaughtInv
<1> QED BY <1>1, <1>2, <1>3, <1>5, <1>8, <1>9, OthersCaught

LEMMA WakeSave == ASSUME IInv, SaveInv, Wake PROVE SaveInv'
<1>1. /\ page' = page /\ phase' = phase /\ led = "sleep" /\ led' = "open"
      /\ ram' = ram /\ Durable' = Durable /\ reset' = reset
      /\ write_page_en' = write_page_en /\ unmarked' = unmarked
  BY DurableKept DEF Wake, LedRuns, page, flash
<1>2. Loaded' = Loaded /\ UnlockedInv'
  BY <1>1 DEF Wake, Loaded, UnlockedInv, Copying
<1>3. \A p \in Saved : Noted(p)' = Noted(p) /\ (Caught(p) => Caught(p)')
  BY <1>1 DEF Noted, Caught, Unlocks
<1> QED BY <1>1, <1>2, <1>3 DEF SaveInv, CaughtInv

(* A change marks its page, or is remembered as unmarked. *)
LEMMA WriteSave ==
  ASSUME IInv, SaveInv, NEW p \in Writable, Write(p) \/ WriteBlock(p)
  PROVE  SaveInv'
<1>1. /\ page' = page /\ Loaded' = Loaded /\ led' = led /\ lock' = lock
      /\ tempbuf' = tempbuf /\ phase' = phase /\ reset' = reset
      /\ Durable' = Durable
  BY DurableKept DEF Write, WriteBlock, page, Loaded, flash, ledTask
<1>2. /\ Noted(p)'
      /\ \A q \in Pages : Noted(q) => Noted(q)'
  BY DEF Write, WriteBlock, Noted
<1>3. \A q \in Pages \ {p} : ram'[q] = ram[q]
  BY DEF Write, WriteBlock, Changed, IInv, TypeOK
<1>4. ASSUME NEW q \in Pages, q # p, Caught(q)
      PROVE  Caught(q)'
  BY <1>1, <1>3, <1>4 DEF Caught, Unlocks
<1>5. UnlockedInv => UnlockedInv'
  BY <1>1 DEF UnlockedInv, Unlocks
<1>6. CaughtInv => CaughtInv'
  BY <1>1, <1>2, <1>4, SaveFacts DEF CaughtInv
<1> QED BY <1>1, <1>5, <1>6 DEF SaveInv

LEMMA RebootSave == ASSUME Reboot PROVE SaveInv'
<1>1. Loaded' = {} /\ led' = "open"
  BY DEF Reboot, Loaded, Copying
<1> QED BY <1>1 DEF SaveInv, UnlockedInv, CaughtInv, Copying

LEMMA SaveKept ==
  ASSUME IInv, SaveInv, [Next]_vars
  PROVE  SaveInv'
<1>1. CASE Led
  BY <1>1, BootLoadSave, PassPageSave, CloseSave, OpenSave, EraseSave,
     CopyFieldSave, ProgramFieldSave, CommitSave, WakeSave DEF Led
<1>2. CASE Others
  <2>1. CASE FactoryStart \/ FactoryErase
    <3>1. reset' # "no"
      BY <2>1 DEF FactoryStart, FactoryErase, Pages
    <3> QED BY <3>1 DEF SaveInv
  <2>2. CASE FactoryDone
    BY <2>2, RebootSave DEF FactoryDone
  <2> QED BY <1>2, <2>1, <2>2, WriteSave DEF Others
<1>3. CASE Restart
  BY <1>3, RebootSave DEF Restart
<1>4. CASE UNCHANGED vars
  <2>1. /\ page' = page /\ Loaded' = Loaded /\ Durable' = Durable
        /\ UNCHANGED <<ram, tempbuf, led, phase, reset, lock>>
        /\ UNCHANGED <<write_page_en, unmarked>>
    BY <1>4, DurableKept DEF vars, flash, ledTask, page, Loaded
  <2>2. \A p \in Saved : Noted(p)' = Noted(p) /\ (Caught(p) => Caught(p)')
    BY <2>1 DEF Noted, Caught, Unlocks
  <2>3. UnlockedInv => UnlockedInv'
    BY <2>1 DEF UnlockedInv, Unlocks
  <2> QED BY <2>1, <2>2, <2>3 DEF SaveInv, CaughtInv
<1> QED BY <1>1, <1>2, <1>3, <1>4 DEF Next

(* However changes fall between the steps of a save, and wherever power    *)
(* fails, a page of outputs or inputs without a mark is in flash as it is  *)
(* in RAM, but for block writes (store.c:35, 55).                          *)
THEOREM NoUpdateLost == Spec => []UnmarkedIsSaved
<1>1. Init => SaveInv
  <2> SUFFICES ASSUME Init PROVE SaveInv
    OBVIOUS
  <2>1. Loaded = {} /\ led = "open"
    BY DEF Init, Booted, Loaded, Copying
  <2> QED BY <2>1 DEF SaveInv, UnlockedInv, CaughtInv, Copying
<1>2. IInv /\ SaveInv /\ [Next]_vars => SaveInv'
  BY SaveKept
<1>3. IInv /\ SaveInv => UnmarkedIsSaved
  <2> SUFFICES ASSUME IInv, SaveInv, phase = "run", reset = "no",
                      NEW p \in {"OUT", "IN"}, ~Saving(p)
               PROVE  p \in write_page_en \union unmarked \/ Durable[p] = ram[p]
    BY DEF UnmarkedIsSaved
  <2>1. p \in Saved \cap Loaded
    BY SaveFacts DEF Saved
  <2>2. Noted(p) \/ Caught(p)
    BY <2>1 DEF SaveInv, CaughtInv
  <2>3. Caught(p) => Durable[p] = ram[p]
    BY DEF Caught, Saving
  <2> QED BY <2>2, <2>3 DEF Noted
<1> QED BY <1>1, <1>2, <1>3, Invariance, PTL DEF Spec

-----------------------------------------------------------------------------
(* Every page is saved in its turn. *)

LEMMA IndexFacts ==
  /\ Index["OUT"] = 1 /\ Index["IN"] = 2 /\ Index["VAR"] = 3
  /\ \A p \in Pages : Index[p] \in 1..3
BY DEF Index, Pages

(* Turning to another page brings every page nearer whose turn was not now. *)
LEMMA NextPageTurns ==
  ASSUME TypeOK, NextPage, led \notin {"sleep"}, NEW p \in Pages,
         phase = "run" => p # page
  PROVE  Turns(p)' < Turns(p)
<1>1. /\ at \in 1..3 /\ phase \in {"boot", "run"} /\ Index[p] \in 1..3
  BY IndexFacts DEF TypeOK
<1>2. phase = "run" => at # Index[p]
  BY IndexFacts DEF page, PageAt, Pages
<1>3. CASE at < 3
  <2>1. at' = at + 1 /\ phase' = phase /\ led' = "open"
    BY <1>1, <1>3 DEF NextPage, LastIndex
  <2>2. CASE phase = "run" /\ at < Index[p]
    <3>1. ToCome(p)
      BY <2>2 DEF ToCome
    <3>2. ToCome(p)'
      BY <1>1, <2>1, <2>2 DEF ToCome
    <3> QED
      BY <1>1, <2>1, <3>1, <3>2 DEF Turns
  <2>3. CASE phase = "boot" \/ at > Index[p]
    <3>1. ~ToCome(p)
      BY <1>1, <2>3 DEF ToCome
    <3>2. ~ToCome(p)'
      BY <1>1, <2>1, <2>3 DEF ToCome
    <3> QED
      BY <1>1, <2>1, <3>1, <3>2 DEF Turns
  <2> QED
    BY <1>1, <1>2, <2>2, <2>3
<1>4. CASE at = 3
  <2>1. at' = 1 /\ phase' = "run" /\ led' \in {"open", "sleep"}
    BY <1>4 DEF NextPage, LastIndex
  <2>2. ToCome(p)'
    BY <1>1, <2>1 DEF ToCome
  <2>3. ~ToCome(p)
    BY <1>1, <1>2, <1>4 DEF ToCome
  <2> QED
    BY <1>1, <1>4, <2>1, <2>2, <2>3 DEF Turns
<1> QED
  BY <1>1, <1>3, <1>4

(* Working on a page keeps the distance of every page but the one whose    *)
(* mark it has taken, and brings the end of its turn nearer.               *)
LEMMA WorkTurns ==
  ASSUME TypeOK, UNCHANGED <<phase, at>>, NEW p \in Pages,
         \/ led = "open" /\ led' = "erase"
         \/ led \in {"erase"} \union Copying /\ led' = Following(led)
         \/ led = "sleep" /\ led' = "open",
         led = "open" /\ phase = "run" /\ ClearsFirst(page) => p # page
  PROVE  Turns(p)' = Turns(p) /\ Rank[led'] > Rank[led]
<1>1. /\ at \in 1..3 /\ phase \in {"boot", "run"} /\ Index[p] \in 1..3
  BY IndexFacts DEF TypeOK
<1>2. Rank[led'] > Rank[led]
  BY DEF Rank, Following, Copying
<1>3. at = Index[p] /\ phase = "run" => page = p
  BY IndexFacts DEF page, PageAt, Pages
<1>4. ToCome(p)' = ToCome(p)
  <2>1. CASE led = "open"
    BY <1>1, <1>3, <2>1 DEF ToCome, ClearsFirst
  <2>2. CASE led # "open"
    BY <1>1, <2>2 DEF ToCome, ClearsFirst, Following, Copying
  <2> QED
    BY <2>1, <2>2
<1> QED
  BY <1>2, <1>4 DEF Turns

(* Every step of the LED task, for every page that stays marked. *)
LEMMA LedTurns ==
  ASSUME TypeOK, Led, NEW p \in Pages, p \in write_page_en, p \in write_page_en'
  PROVE  \/ Turns(p)' < Turns(p)
         \/ Turns(p)' = Turns(p) /\ Rank[led'] > Rank[led]
<1>1. CASE BootLoad
  BY <1>1, NextPageTurns DEF BootLoad, LedRuns
<1>2. CASE PassPage
  BY <1>2, NextPageTurns DEF PassPage, LedRuns
<1>3. CASE Close
  <2>1. phase = "run" /\ ~ClearsFirst(page) => p # page
    BY <1>3 DEF Close
  <2>2. CASE phase = "run" /\ p = page
    <3>1. ClearsFirst(page)
      BY <2>1, <2>2
    <3>2. at \in 1..3 /\ Index[p] = at /\ at < 3
      BY <2>2, <3>1, IndexFacts DEF TypeOK, page, PageAt, ClearsFirst
    <3>3. at' = at + 1 /\ phase' = "run" /\ led = "close" /\ led' = "open"
      BY <1>3, <2>2, <3>2 DEF Close, LedRuns, NextPage, LastIndex
    <3>4. ~ToCome(p) /\ ~ToCome(p)'
      BY <2>2, <3>1, <3>2, <3>3 DEF ToCome
    <3> QED
      BY <3>2, <3>3, <3>4 DEF Turns
  <2>3. CASE ~(phase = "run" /\ p = page)
    BY <1>3, <2>3, NextPageTurns DEF Close, LedRuns
  <2> QED
    BY <2>2, <2>3
<1>4. CASE BootOpen \/ OpenPage
  <2>1. /\ led = "open" /\ led' = "erase" /\ UNCHANGED <<phase, at>>
        /\ phase = "run" /\ ClearsFirst(page) => p # page
    BY <1>4 DEF BootOpen, OpenPage, LedRuns
  <2> QED
    BY <2>1, WorkTurns
<1>5. CASE \/ Erase \/ Commit
           \/ CopyField("copy1", "first") \/ CopyField("copy2", "second")
           \/ ProgramField("program1", "first")
           \/ ProgramField("program2", "second")
  <2>1. /\ led \in {"erase"} \union Copying /\ led' = Following(led)
        /\ UNCHANGED <<phase, at>>
    BY <1>5 DEF Erase, Commit, CopyField, ProgramField, LedRuns, Copying
  <2>2. led # "open"
    BY <2>1 DEF Copying
  <2> QED
    BY <2>1, <2>2, WorkTurns
<1>6. CASE Wake
  <2>1. led = "sleep" /\ led' = "open" /\ UNCHANGED <<phase, at>>
    BY <1>6 DEF Wake, LedRuns
  <2> QED
    BY <2>1, WorkTurns
<1> QED
  BY <1>1, <1>2, <1>3, <1>4, <1>5, <1>6 DEF Led

(* For any values and any pages that change, a marked page is saved in its *)
(* turn: no page, no block write and no factory reset makes it wait longer *)
(* than a round of the LED task.  This is MarkedIsSaved but for the        *)
(* fairness, that the LED task does go on (store.c:26-87).                 *)
THEOREM NobodyOvertakes == Spec => SavedInTurn
<1>1. TypeOK /\ [Next]_vars =>
        [\A p \in write_page_en \intersect write_page_en' :
           \/ Turns(p)' < Turns(p)
           \/ Turns(p)' = Turns(p) /\ Rank[led'] > Rank[led]
           \/ UNCHANGED ledTask /\ ~Led]_vars
  <2> SUFFICES ASSUME TypeOK, [Next]_vars, ~UNCHANGED vars,
                      NEW p \in write_page_en \intersect write_page_en'
               PROVE  \/ Turns(p)' < Turns(p)
                      \/ Turns(p)' = Turns(p) /\ Rank[led'] > Rank[led]
                      \/ UNCHANGED ledTask /\ ~Led
    OBVIOUS
  <2>1. p \in Pages
    BY DEF TypeOK
  <2>2. ~Reboot
    BY DEF Reboot
  <2>3. Others => UNCHANGED ledTask
    BY <2>2 DEF Others, Write, WriteBlock, FactoryStart, FactoryErase, FactoryDone
  <2> QED
    BY <2>1, <2>2, <2>3, LedTurns DEF Next, Restart
<1> QED
  BY <1>1, TypeCorrect, PTL DEF Spec, SavedInTurn
=============================================================================
