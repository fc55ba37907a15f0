------------------------------ MODULE NetConfig ------------------------------
(***************************************************************************)
(* The network settings: their working copy in RAM (modbus.ip_addr, ...),  *)
(* the ghost registers in which a master prepares new ones, their bytes in *)
(* EEPROM, and the reset that puts them into force.                        *)
(*                                                                         *)
(* EEP_Dat_Init loads them at boot (USER/main.c).  Then two tasks of one   *)
(* priority change them: COMM for serial masters, NET for TCP masters and  *)
(* for UDP discovery.  Every byte stored is a call of the EEPROM that      *)
(* sleeps twice (EepromBus), so the other task runs between any two bytes. *)
(* NET also counts passes of its loop once IP_Change is set and then       *)
(* resets the processor.  Power may fail between any two steps.            *)
(*                                                                         *)
(* A group of settings has two bytes, enough for one to be new and one     *)
(* old.  "mac" is stored byte by byte or as a whole; "ip" stands for the   *)
(* IP address, and for mask and gateway, which are treated alike; "port"   *)
(* is one number of two bytes.  "version" is what EEP_Dat_Init stores each *)
(* time it runs and no master changes; its working copy is a constant of   *)
(* the program.  ip_mode and tcp_server are left out.  A request is taken  *)
(* when COMM or NET executes it.                                           *)
(***************************************************************************)
EXTENDS Naturals, Sequences

CONSTANTS
  Groups,      \* the groups of this instance, among AllGroups
  Bytes,       \* bytes a master may write
  Masters,     \* which masters write: "serial", "tcp", "udp"
  ResetAfter,  \* passes of NET's loop before the reset: 10
  PowerFails,  \* TRUE: power may fail
  SlowChip     \* see EepromBus

AllGroups == {"version", "mac", "ip", "port"}
Tasks     == {"main", "COMM", "NET"}
Octets    == {1, 2}

ASSUME ConstantsAssumption ==
  /\ Groups \subseteq AllGroups
  /\ "none" \notin Bytes
  /\ Masters \subseteq {"serial", "tcp", "udp"}
  /\ ResetAfter \in Nat \ {0}
  /\ PowerFails \in BOOLEAN /\ SlowChip \in BOOLEAN

Contents == Bytes \union {"default", "zero", "ff"}
Values   == [Octets -> Contents]
Cells    == Groups \X Octets
Ghosts   == {c \in Cells : c[1] \in {"ip", "port"}}

Default == [i \in Octets |-> "default"]
Blank   == [i \in Octets |-> "ff"]
Zeroed  == [i \in Octets |-> "zero"]

VARIABLES
  ram, ghost,          \* the working copy and the ghost registers
  ee, wp, call,        \* the EEPROM
  job,                 \* what each task has still to do
  phase,               \* "boot" while main runs, then "run"
  turn,                \* NET's loop: "poll" uIP, then "count"
  IP_Change, count,
  mac_enable

bus    == <<ee, wp, call>>
net    == <<turn, IP_Change, count>>
vars   == <<ram, ghost, bus, job, phase, net, mac_enable>>

Bus == INSTANCE EepromBus WITH Addresses <- Cells

(* kind: "none", a request, or "init" while EEP_Dat_Init runs.             *)
(* left: the bytes still to be stored.  todo, temp: in EEP_Dat_Init, the   *)
(* groups still to be loaded and the value read for the first of them.     *)
Job(kind, left) == [kind |-> kind, left |-> left, todo |-> <<>>, temp |-> <<>>]
NoJob == Job("none", <<>>)

Of(memory, g) == [i \in Octets |-> memory[<<g, i>>]]
With(memory, g, v) ==
  [c \in DOMAIN memory |-> IF c[1] = g THEN v[c[2]] ELSE memory[c]]

BytesOf(g) == IF g \in Groups THEN <<<<g, 1>>, <<g, 2>>>> ELSE <<>>
Listed(g)  == IF g \in Groups THEN <<g>> ELSE <<>>

(* The order in which the settings are loaded, and lie in the EEPROM. *)
InitOrder ==
  Listed("version") \o Listed("mac") \o Listed("ip") \o Listed("port")
EraseOrder ==
  BytesOf("version") \o BytesOf("mac") \o BytesOf("ip") \o BytesOf("port")
InitJob    == [kind |-> "init", left |-> <<>>, todo |-> InitOrder, temp |-> <<>>]

(* The order in which a commit stores them. *)
CommitOrderShort == BytesOf("port") \o <<<<"ip", 1>>>>
CommitOrder == BytesOf("port") \o BytesOf("ip")

MemoryOf(v) == [c \in Cells |-> v[c[2]]]

Init ==
  /\ Bus!BusInit
  /\ ram = MemoryOf(Zeroed) /\ ghost = [c \in Ghosts |-> "zero"]
  /\ job = [t \in Tasks |-> IF t = "main" THEN InitJob ELSE NoJob]
  /\ phase = "boot"
  /\ turn = "poll" /\ IP_Change = FALSE /\ count = 0
  /\ mac_enable = FALSE

(* SoftReset, or power comes back. *)
Reboot ==
  /\ Bus!BusRestart
  /\ ram' = MemoryOf(Zeroed) /\ ghost' = [c \in Ghosts |-> "zero"]
  /\ job' = [t \in Tasks |-> IF t = "main" THEN InitJob ELSE NoJob]
  /\ phase' = "boot"
  /\ turn' = "poll" /\ IP_Change' = FALSE /\ count' = 0
  /\ mac_enable' = FALSE

-----------------------------------------------------------------------------
(* Storing bytes, whatever they are for. *)

Storing(t) == job[t].left # <<>>

(* The bytes of the addresses are copied from the ghosts one at a time,    *)
(* each just before it is stored.                                          *)
StoreByteFirst(t) ==
  LET c == Head(job[t].left) IN
  /\ Storing(t)
  /\ ram' = IF job[t].kind = "commit" /\ c[1] = "ip"
              THEN [ram EXCEPT ![c] = ghost[c]] ELSE ram
  /\ Bus!Open(t, c, CASE job[t].kind = "erase" -> "ff"
                      [] job[t].kind = "init"  -> job[t].temp[c[2]]
                      [] OTHER                 -> ram[c])
  /\ UNCHANGED <<ghost, job, phase, net, mac_enable>>
StoreByte(t) ==
  LET c == Head(job[t].left) IN
  /\ Storing(t)
  /\ ram' = IF job[t].kind = "commit" /\ c[1] = "ip"
              THEN [ram EXCEPT ![c] = ghost[c]] ELSE ram
  /\ Bus!Open(t, c, CASE job[t].kind = "erase" -> "ff"
                      [] job[t].kind = "init"  -> job[t].temp[c[2]]
                      [] OTHER                 -> ram'[c])
  /\ UNCHANGED <<ghost, job, phase, net, mac_enable>>

SendByte(t) ==
  /\ Bus!Send(t)
  /\ UNCHANGED <<ram, ghost, job, phase, net, mac_enable>>

ByteStored(t) ==
  /\ Bus!Return(t)
  /\ job' = [job EXCEPT ![t].left = Tail(@)]
  /\ UNCHANGED <<ram, ghost, phase, net, mac_enable>>

-----------------------------------------------------------------------------
(* EEP_Dat_Init: at boot in main, and after a reset request in its task. *)

Loading(t) == job[t].kind = "init" /\ ~Storing(t)

(* A blank group gets its default, which is stored but for the port.  The  *)
(* version is not read and always stored: its write follows IIC_Init,      *)
(* which raises WP, without a sleep and lowers WP again.                   *)
Defaulted(g, v) == v = Blank \/ g = "version"

ReadGroup(t) ==
  /\ Loading(t) /\ job[t].todo # <<>> /\ job[t].temp = <<>>
  /\ LET g == Head(job[t].todo) IN
     \E v \in Values :
       /\ \A i \in Octets : v[i] \in Bus!Readings(t, <<g, i>>)
       /\ job' = [job EXCEPT
            ![t].temp = IF Defaulted(g, v) THEN Default ELSE v,
            ![t].left = IF Defaulted(g, v) /\ g # "port"
                          THEN BytesOf(g) ELSE <<>>]
  /\ UNCHANGED <<ram, ghost, bus, phase, net, mac_enable>>

LoadGroup(t) ==
  /\ Loading(t) /\ job[t].temp # <<>>
  /\ LET g == Head(job[t].todo) IN
     /\ ram' = With(ram, g, job[t].temp)
     /\ ghost' = With(ghost, g, job[t].temp)
  /\ job' = [job EXCEPT ![t].todo = Tail(@), ![t].temp = <<>>]
  /\ UNCHANGED <<bus, phase, net, mac_enable>>

(* main starts the scheduler. *)
BootDone ==
  /\ Loading("main") /\ job["main"].todo = <<>>
  /\ phase' = "run"
  /\ job' = [job EXCEPT !["main"] = NoJob]
  /\ UNCHANGED <<ram, ghost, bus, net, mac_enable>>

ResetDone(t) ==
  /\ t # "main" /\ Loading(t) /\ job[t].todo = <<>>
  /\ Reboot

-----------------------------------------------------------------------------
(* Requests: a register write or block write that internalDeal executes. *)

(* NET takes a packet when it polls and then goes on to count. *)
Takes(t) ==
  /\ phase = "run" /\ job[t] = NoJob
  /\ \/ t = "COMM" /\ "serial" \in Masters /\ UNCHANGED turn
     \/ t = "NET" /\ "tcp" \in Masters /\ turn = "poll" /\ turn' = "count"

Starts(t, kind, left) == job' = [job EXCEPT ![t] = Job(kind, left)]

(* A ghost register of an address holds a byte, that of the port both. *)
WriteGhost(t) ==
  /\ Takes(t)
  /\ \/ \E c \in Ghosts, b \in Bytes :
          c[1] = "ip" /\ ghost' = [ghost EXCEPT ![c] = b]
     \/ \E v \in [Octets -> Bytes] :
          "port" \in Groups /\ ghost' = With(ghost, "port", v)
  /\ UNCHANGED <<ram, bus, job, phase, IP_Change, count, mac_enable>>

(* write_ghost_system = 1 *)
Commit(t) ==
  /\ Takes(t)
  /\ ram' = [c \in Cells |-> IF c[1] = "port" THEN ghost[c] ELSE ram[c]]
  /\ Starts(t, "commit", CommitOrder)
  /\ UNCHANGED <<ghost, bus, phase, IP_Change, count, mac_enable>>

WriteMacEnable(t) ==
  /\ Takes(t)
  /\ mac_enable' \in BOOLEAN
  /\ UNCHANGED <<ram, ghost, bus, job, phase, IP_Change, count>>

(* One byte of the MAC address. *)
WriteMacByte(t) ==
  /\ Takes(t)
  /\ \E c \in Cells, b \in Bytes :
       /\ c[1] = "mac"
       /\ ram' = [ram EXCEPT ![c] = b]
       /\ Starts(t, "octet", <<c>>)
  /\ UNCHANGED <<ghost, bus, phase, IP_Change, count, mac_enable>>

(* The whole MAC address. *)
WriteMac(t) ==
  /\ Takes(t) /\ mac_enable
  /\ "mac" \in Groups
  /\ \E v \in [Octets -> Bytes] : ram' = With(ram, "mac", v)
  /\ Starts(t, "mac", BytesOf("mac"))
  /\ UNCHANGED <<ghost, bus, phase, IP_Change, count, mac_enable>>

(* modbus.reset: 1 erases the EEPROM first, anything else only resets. *)
MasterReset(t) ==
  /\ Takes(t)
  /\ \/ Starts(t, "erase", EraseOrder)
     \/ job' = [job EXCEPT ![t] = InitJob]
  /\ UNCHANGED <<ram, ghost, bus, phase, IP_Change, count, mac_enable>>

(* UDP discovery, command 0x66: the address changes in RAM and a reset is  *)
(* asked for; it is stored only if its octets are not zero, of which one   *)
(* is not looked at.                                                       *)
TestedOctets == {1}

ChangeAddress ==
  /\ phase = "run" /\ job["NET"] = NoJob /\ "udp" \in Masters
  /\ turn = "poll" /\ turn' = "count"
  /\ "ip" \in Groups
  /\ \E v \in [Octets -> Bytes] :
       /\ ram' = With(ram, "ip", v)
       /\ ghost' = With(ghost, "ip", v)
       /\ IF \A i \in TestedOctets : v[i] # "zero"
            THEN Starts("NET", "udp", BytesOf("ip"))
            ELSE UNCHANGED job
  /\ IP_Change' = TRUE
  /\ UNCHANGED <<bus, phase, count, mac_enable>>

(* What follows the last byte. *)
RequestDone(t) ==
  /\ job[t].kind \in {"commit", "mac", "octet", "udp", "erase"}
  /\ ~Storing(t)
  /\ job' = [job EXCEPT ![t] = IF @.kind = "erase" THEN InitJob ELSE NoJob]
  /\ IP_Change' = (IP_Change \/ job[t].kind \in {"commit", "mac"})
  /\ mac_enable' = (mac_enable /\ job[t].kind # "mac")
  /\ UNCHANGED <<ram, ghost, bus, phase, turn, count>>

-----------------------------------------------------------------------------
(* NET's loop. *)

(* uip_polling without a request for us. *)
PollNothing ==
  /\ phase = "run" /\ job["NET"] = NoJob /\ turn = "poll"
  /\ turn' = "count"
  /\ UNCHANGED <<ram, ghost, bus, job, phase, IP_Change, count, mac_enable>>

PassesRestarted(n) == 0
PassesByTwo(n) == n + 2
Passes(n) == n + 1

(* if IP_Change, the count goes up; at the last pass SoftReset. *)
CountPass ==
  /\ phase = "run" /\ job["NET"] = NoJob /\ turn = "count"
  /\ \/ /\ ~IP_Change
        /\ turn' = "poll"
        /\ UNCHANGED <<ram, ghost, bus, job, phase, IP_Change, count, mac_enable>>
     \/ /\ IP_Change /\ Passes(count) # ResetAfter
        /\ count' = Passes(count)
        /\ turn' = "poll"
        /\ UNCHANGED <<ram, ghost, bus, job, phase, IP_Change, mac_enable>>
     \/ /\ IP_Change /\ Passes(count) = ResetAfter
        /\ Reboot

PowerFail == PowerFails /\ Reboot

-----------------------------------------------------------------------------
Working(t) ==
  \/ StoreByte(t) \/ SendByte(t) \/ ByteStored(t)
  \/ ReadGroup(t) \/ LoadGroup(t) \/ ResetDone(t)
  \/ RequestDone(t)

Request(t) ==
  \/ WriteGhost(t) \/ Commit(t)
  \/ WriteMacEnable(t) \/ WriteMacByte(t) \/ WriteMac(t)
  \/ MasterReset(t)

Loop == PollNothing \/ CountPass

Next ==
  \/ \E t \in Tasks : Working(t) \/ Request(t)
  \/ ChangeAddress
  \/ BootDone \/ Loop \/ PowerFail

Spec == Init /\ [][Next]_vars

(* The tasks sleep with an end in every loop, so each gets its turn; no    *)
(* master is ever obliged to ask for anything.                             *)
FairSpec ==
  /\ Spec
  /\ \A t \in Tasks : WF_vars(Working(t))
  /\ WF_vars(BootDone) /\ WF_vars(Loop)

-----------------------------------------------------------------------------
Kinds == {"none", "init", "commit", "mac", "octet", "udp", "erase"}

Jobs == [kind : Kinds, left : Seq(Cells), todo : Seq(Groups),
         temp : Values \union {<<>>}]

TypeOK ==
  /\ ram \in [Cells -> Contents] /\ ghost \in [Ghosts -> Contents]
  /\ Bus!BusTypeOK
  /\ job \in [Tasks -> Jobs]
  /\ phase \in {"boot", "run"} /\ turn \in {"poll", "count"}
  /\ IP_Change \in BOOLEAN /\ mac_enable \in BOOLEAN
  /\ count \in 0..(ResetAfter - 1)

(* No request is being executed. *)
AtRest == phase = "run" /\ \A t \in Tasks : job[t] = NoJob

(* What a restart would load. *)
Loaded(g) == IF Of(ee, g) = Blank THEN Default ELSE Of(ee, g)

(* A setting of 255 in every byte is stored, but a restart takes it for    *)
(* blank and loads the default.                                            *)
TakenForBlank(g) == Of(ram, g) = Blank /\ Of(ee, g) = Blank

(* An address that UDP discovery refused to store. *)
Refused(g) == g = "ip" /\ \E i \in TestedOctets : ram[<<g, i>>] = "zero"

(* What a master reads back between requests is what the next restart      *)
(* loads, whatever was interrupted before, with two exceptions: an address *)
(* that UDP discovery refused, and a setting of 255 in every byte, which   *)
(* the next restart replaces by the default (modbus.c:354-363, 523-577;    *)
(* udp_scan.c:169-217; main.c:346-464).                                    *)
StoredIsServed ==
  AtRest => \A g \in Groups \ {"version"} :
              Of(ram, g) = Loaded(g) \/ TakenForBlank(g) \/ Refused(g)

(* However the tasks' writes overlap, the chip is write-protected whenever  *)
(* no task is about to send a byte (24cxx.c:46, 66): between two writes no *)
(* noise on the lines changes a setting.                                   *)
ProtectedAtRest == Bus!ProtectedAtRest

(* A change of the settings is put into force: the processor resets        *)
(* (main.c:151-164).                                                       *)
ChangeResets == IP_Change ~> phase = "boot"

(* The steps that NET has still to make before it polls or counts again: a *)
(* byte takes three; a group is read, stored if it was blank, and taken.   *)
Stage(c)   == IF c.at = "opened" THEN 1 ELSE IF c.at = "sent" THEN 2 ELSE 0
ToStore(t) == 3 * Len(job[t].left) - Stage(call[t])
ToLoad(j)  ==
  CASE j.kind = "init"  -> 8 * Len(j.todo) - IF j.temp = <<>> THEN 0 ELSE 7
    [] j.kind = "erase" -> 8 * Len(InitOrder) + 1
    [] OTHER            -> 0
ToDo(t) ==
  ToStore(t) + ToLoad(job[t]) + IF job[t].kind = "none" THEN 0 ELSE 1

(* Nothing puts the reset off, however many requests serial and network    *)
(* masters make meanwhile: once IP_Change is set it stays, and each step   *)
(* resets, or takes NET further to the end of the request it executes, or  *)
(* on to its next pass, or counts one, or is not a step of NET             *)
(* (main.c:147-169).                                                       *)
ResetComesNearer ==
  [][phase = "run" /\ phase' = "run" /\ IP_Change =>
       /\ IP_Change'
       /\ \/ count' > count
          \/ count' = count /\ turn = "poll" /\ turn' = "count"
          \/ UNCHANGED <<count, turn>> /\ ToDo("NET")' < ToDo("NET")
          \/ UNCHANGED <<count, turn, job["NET"], call["NET"]>>]_vars
=============================================================================
