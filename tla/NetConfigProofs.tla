--------------------------- MODULE NetConfigProofs ---------------------------
(***************************************************************************)
(* StoredIsServed for any groups, bytes and count of passes, as long as    *)
(* one task alone executes requests: then what a master reads between two  *)
(* requests is what a restart loads, however often power has failed.       *)
(***************************************************************************)
EXTENDS NetConfig, SequenceTheorems, TLAPS

(* For any masters: a job that loads or stores has what it needs.          *)
JobInv ==
  \A t \in Tasks :
    /\ call[t] # Bus!NoCall => job[t].left # <<>> /\ call[t].addr = Head(job[t].left)
    /\ job[t].kind = "init" =>
         /\ job[t].temp = <<>> => job[t].left = <<>>
         /\ job[t].temp # <<>> => job[t].todo # <<>>

TypeInv == TypeOK /\ JobInv

OneWriter == Masters \subseteq {"serial"} \/ Masters \subseteq {"tcp", "udp"}

(* The task that may be busy. *)
Worker == IF phase = "boot" THEN "main"
          ELSE IF "serial" \in Masters THEN "COMM" ELSE "NET"

OneWorker == \A t \in Tasks : t # Worker => job[t] = NoJob /\ call[t] = Bus!NoCall

Requests == {"commit", "mac", "octet", "udp"}

InLeft(c) == c \in Range(job[Worker].left)
InTodo(g) == g \in Range(job[Worker].todo)

(* The byte being stored is the next one, and it will hold what the job    *)
(* wants there.                                                            *)
CallInv ==
  LET j == job[Worker]  c == call[Worker] IN
  c # Bus!NoCall =>
    /\ c.at = "opened" => wp = "open"
    /\ c.at = "sent" => ee[c.addr] = c.data
    /\ j.kind \in Requests => c.data = ram[c.addr]
    /\ j.kind = "init" => c.data = j.temp[c.addr[2]]

(* A group is in EEPROM as it is in RAM; a blank port stands for the       *)
(* default.                                                                *)
Stored(g) ==
  \/ Of(ee, g) = Of(ram, g)
  \/ g = "port" /\ Of(ee, g) = Blank /\ Of(ram, g) = Default

(* A group is untouched by the request, or stored but for the bytes left.  *)
Fine(g) ==
  \/ (Stored(g) \/ Refused(g)) /\ \A i \in Octets : ~InLeft(<<g, i>>)
  \/ \A i \in Octets : InLeft(<<g, i>>) \/ ee[<<g, i>>] = ram[<<g, i>>]

RunInv ==
  phase = "run" =>
    /\ job[Worker] = NoJob => \A g \in Groups : Stored(g) \/ Refused(g)
    /\ job[Worker].kind \in Requests => \A g \in Groups : Fine(g)
    /\ job[Worker].kind = "none" => job[Worker] = NoJob

(* At boot: what is loaded is stored, what is being stored is what was     *)
(* read or the default.                                                    *)
BootInv ==
  LET j == job[Worker]  g == Head(j.todo) IN
  phase = "boot" =>
    /\ j.kind = "init"
    /\ \A h \in Groups : InTodo(h) \/ Stored(h)
    /\ j.temp # <<>> =>
         /\ \A c \in Cells : InLeft(c) => c[1] = g
         /\ \/ \A i \in Octets : InLeft(<<g, i>>) \/ ee[<<g, i>>] = j.temp[i]
            \/ g = "port" /\ j.left = <<>> /\ Of(ee, g) = Blank /\ j.temp = Default

IInv == TypeInv /\ OneWorker /\ CallInv /\ RunInv /\ BootInv

-----------------------------------------------------------------------------
LEMMA CellFacts ==
  /\ Cells = Groups \X Octets
  /\ \A g \in Groups, i \in Octets : <<g, i>> \in Cells
  /\ \A c \in Cells : c = <<c[1], c[2]>> /\ c[1] \in Groups /\ c[2] \in Octets
  /\ Ghosts \subseteq Cells /\ Groups \subseteq AllGroups
BY ConstantsAssumption DEF Cells, Ghosts, Octets

LEMMA ValueFacts ==
  /\ Default \in Values /\ Blank \in Values /\ Zeroed \in Values
  /\ \A v \in Values : v # <<>>
  /\ Bytes \subseteq Contents
<1>1. Default \in Values /\ Blank \in Values /\ Zeroed \in Values
  BY DEF Default, Blank, Zeroed, Values, Contents, Octets
<1>2. ASSUME NEW v \in Values PROVE v # <<>>
  <2>1. DOMAIN v = {1, 2}
    BY DEF Values, Octets
  <2>2. DOMAIN <<>> = {}
    OBVIOUS
  <2> QED BY <2>1, <2>2
<1> QED BY <1>1, <1>2 DEF Contents

(* The members of the sequences used. *)
LEMMA RangeTail ==
  ASSUME NEW S, NEW s \in Seq(S), s # <<>>
  PROVE  /\ Tail(s) \in Seq(S) /\ Head(s) \in S
         /\ Range(s) = {Head(s)} \union Range(Tail(s))
<1>1. /\ Tail(s) \in Seq(S) /\ Len(Tail(s)) = Len(s) - 1
      /\ Head(s) \in S /\ Head(s) = s[1]
      /\ \A i \in 1..Len(Tail(s)) : Tail(s)[i] = s[i + 1]
  BY HeadTailProperties
<1>2. Len(s) \in Nat /\ Len(s) # 0
  BY LenProperties, EmptySeq
<1>3. ASSUME NEW x \in Range(s) PROVE x \in {Head(s)} \union Range(Tail(s))
  <2>1. PICK i \in 1..Len(s) : s[i] = x
    BY <1>3, RangeEquality
  <2>2. CASE i = 1
    BY <1>1, <2>1, <2>2
  <2>3. CASE i # 1
    <3>1. i - 1 \in 1..Len(Tail(s)) /\ Tail(s)[i - 1] = x
      BY <1>1, <1>2, <2>1, <2>3
    <3> QED BY <3>1, <1>1, RangeEquality
  <2> QED BY <2>2, <2>3
<1> DEFINE rest == Tail(s)
<1>6. Range(rest) = {rest[i] : i \in 1..Len(rest)}
  <2>1. rest \in Seq(S)
    BY <1>1
  <2> HIDE DEF rest
  <2> QED BY <2>1, RangeEquality
<1>4. ASSUME NEW x \in Range(Tail(s)) PROVE x \in Range(s)
  <2>1. PICK i \in 1..Len(Tail(s)) : Tail(s)[i] = x
    BY <1>4, <1>6
  <2>2. i + 1 \in 1..Len(s) /\ s[i + 1] = x
    BY <1>1, <1>2, <2>1
  <2> QED BY <2>2, RangeEquality
<1>5. Head(s) \in Range(s)
  BY <1>1, <1>2, RangeEquality
<1> QED BY <1>1, <1>3, <1>4, <1>5

LEMMA RangeShort ==
  /\ Range(<<>>) = {}
  /\ \A a : Range(<<a>>) = {a}
  /\ \A a, b : Range(<<a, b>>) = {a, b}
BY DEF Range

LEMMA BytesFacts ==
  ASSUME NEW g \in AllGroups
  PROVE  /\ BytesOf(g) \in Seq(Cells) /\ Listed(g) \in Seq(Groups)
         /\ Range(BytesOf(g)) = {c \in Cells : c[1] = g}
         /\ Range(Listed(g)) = {g} \intersect Groups
<1>1. CASE g \in Groups
  <2>1. BytesOf(g) = <<<<g, 1>>, <<g, 2>>>> /\ Listed(g) = <<g>>
    BY <1>1 DEF BytesOf, Listed
  <2>2. Range(BytesOf(g)) = {<<g, 1>>, <<g, 2>>} /\ Range(Listed(g)) = {g}
    BY <2>1, RangeShort
  <2>3. {<<g, 1>>, <<g, 2>>} = {c \in Cells : c[1] = g}
    BY <1>1, CellFacts DEF Octets
  <2>4. BytesOf(g) \in Seq(Cells) /\ Listed(g) \in Seq(Groups)
    BY <1>1, <2>1, CellFacts DEF Octets
  <2> QED BY <1>1, <2>2, <2>3, <2>4
<1>2. CASE g \notin Groups
  BY <1>2, RangeShort, CellFacts DEF BytesOf, Listed
<1> QED BY <1>1, <1>2

(* A commit names every byte of the groups with ghosts, the boot every group. *)
LEMMA OrderFacts ==
  /\ CommitOrder \in Seq(Cells) /\ EraseOrder \in Seq(Cells)
  /\ InitOrder \in Seq(Groups)
  /\ Range(CommitOrder) = {c \in Cells : c[1] \in {"ip", "port"}}
  /\ Range(InitOrder) = Groups
<1>1. \A g \in AllGroups :
        /\ BytesOf(g) \in Seq(Cells) /\ Listed(g) \in Seq(Groups)
        /\ Range(BytesOf(g)) = {c \in Cells : c[1] = g}
        /\ Range(Listed(g)) = {g} \intersect Groups
  BY BytesFacts
<1>2. /\ "version" \in AllGroups /\ "mac" \in AllGroups
      /\ "ip" \in AllGroups /\ "port" \in AllGroups
  BY DEF AllGroups
<1>3. /\ CommitOrder \in Seq(Cells)
      /\ Range(CommitOrder) = Range(BytesOf("port")) \union Range(BytesOf("ip"))
  BY <1>1, <1>2, RangeConcatenation, ConcatProperties DEF CommitOrder
<1>4. BytesOf("version") \o BytesOf("mac") \o BytesOf("ip") \in Seq(Cells)
  <2>1. BytesOf("version") \o BytesOf("mac") \in Seq(Cells)
    BY <1>1, <1>2, ConcatProperties
  <2> QED BY <1>1, <1>2, <2>1, ConcatProperties
<1>5. EraseOrder \in Seq(Cells)
  BY <1>1, <1>2, <1>4, ConcatProperties DEF EraseOrder
<1> DEFINE two == Listed("version") \o Listed("mac")
           three == two \o Listed("ip")
<1>6. /\ three \in Seq(Groups)
      /\ Range(three) = Range(Listed("version")) \union Range(Listed("mac"))
                          \union Range(Listed("ip"))
  <2>1. /\ two \in Seq(Groups)
        /\ Range(two) = Range(Listed("version")) \union Range(Listed("mac"))
    BY <1>1, <1>2, RangeConcatenation, ConcatProperties
  <2> HIDE DEF two
  <2> QED BY <1>1, <1>2, <2>1, RangeConcatenation, ConcatProperties
<1>7. /\ InitOrder \in Seq(Groups)
      /\ Range(InitOrder) = Range(three) \union Range(Listed("port"))
  <2>1. InitOrder = three \o Listed("port")
    BY DEF InitOrder
  <2> HIDE DEF three
  <2> QED BY <1>1, <1>2, <1>6, <2>1, RangeConcatenation, ConcatProperties
<1>8. \A c \in Cells : c[1] \in AllGroups
  BY CellFacts
<1>9. Range(CommitOrder) = {c \in Cells : c[1] \in {"ip", "port"}}
  BY <1>1, <1>2, <1>3, <1>8 DEF AllGroups
<1>10. Range(InitOrder) = Groups
  <2>1. Range(InitOrder) = {"version", "mac", "ip", "port"} \intersect Groups
    BY <1>1, <1>2, <1>6, <1>7
  <2> QED BY <2>1, CellFacts DEF AllGroups
<1> QED BY <1>3, <1>5, <1>7, <1>9, <1>10

LEMMA JobFacts ==
  /\ NoJob \in Jobs /\ InitJob \in Jobs
  /\ \A k \in Kinds, s \in Seq(Cells) :
       /\ Job(k, s) \in Jobs
       /\ Job(k, s).kind = k /\ Job(k, s).left = s /\ Job(k, s).temp = <<>>
  /\ InitJob.kind = "init" /\ InitJob.left = <<>> /\ InitJob.todo = InitOrder
  /\ InitJob.temp = <<>>
  /\ NoJob.kind = "none" /\ NoJob.left = <<>>
<1>1. <<>> \in Seq(Cells) /\ <<>> \in Seq(Groups)
  OBVIOUS
<1>2. \A k \in Kinds, s \in Seq(Cells) :
        Job(k, s) \in Jobs /\ Job(k, s).kind = k /\ Job(k, s).left = s
        /\ Job(k, s).temp = <<>>
  BY <1>1 DEF Job, Jobs
<1>3. InitJob \in Jobs
  BY <1>1, OrderFacts DEF InitJob, Jobs, Kinds
<1> QED BY <1>1, <1>2, <1>3 DEF InitJob, NoJob, Job, Kinds

-----------------------------------------------------------------------------
(* Type correctness, whoever writes. *)

LEMMA InitTypeInv == Init => TypeInv
<1> SUFFICES ASSUME Init PROVE TypeInv
  OBVIOUS
<1>1. ram \in [Cells -> Contents] /\ ghost \in [Ghosts -> Contents]
  BY CellFacts DEF Init, MemoryOf, Zeroed, Contents
<1>2. Bus!BusTypeOK
  BY DEF Init, Bus!BusInit, Bus!BusTypeOK, Bus!Calls, Contents, TypeInv, TypeOK
<1>3. job \in [Tasks -> Jobs]
  BY JobFacts DEF Init
<1>4. JobInv
  BY JobFacts DEF Init, Bus!BusInit, JobInv
<1>5. count \in 0..(ResetAfter - 1)
  BY ConstantsAssumption DEF Init
<1>6. /\ phase \in {"boot", "run"} /\ turn \in {"poll", "count"}
      /\ IP_Change \in BOOLEAN /\ mac_enable \in BOOLEAN
  BY DEF Init
<1> QED BY <1>1, <1>2, <1>3, <1>4, <1>5, <1>6 DEF TypeInv, TypeOK

LEMMA RebootTypeInv ==
  ASSUME TypeInv, Reboot
  PROVE  TypeInv'
<1>1. ram' \in [Cells -> Contents] /\ ghost' \in [Ghosts -> Contents]
  BY CellFacts DEF Reboot, MemoryOf, Zeroed, Contents
<1>2. Bus!BusTypeOK'
  BY DEF Reboot, Bus!BusRestart, Bus!BusTypeOK, Bus!Calls, Contents, TypeInv, TypeOK
<1>3. job' \in [Tasks -> Jobs]
  BY JobFacts DEF Reboot
<1>4. JobInv'
  BY JobFacts DEF Reboot, Bus!BusRestart, JobInv
<1>5. count' \in 0..(ResetAfter - 1)
  BY ConstantsAssumption DEF Reboot
<1>6. /\ phase' \in {"boot", "run"} /\ turn' \in {"poll", "count"}
      /\ IP_Change' \in BOOLEAN /\ mac_enable' \in BOOLEAN
  BY DEF Reboot
<1> QED BY <1>1, <1>2, <1>3, <1>4, <1>5, <1>6 DEF TypeInv, TypeOK

(* A task without bytes to store is not in a call. *)
LEMMA Idle ==
  ASSUME TypeInv, NEW t \in Tasks, job[t].left = <<>>
  PROVE  call[t] = Bus!NoCall
BY DEF TypeInv, JobInv

(* A task that is not in a call takes up another job. *)
LEMMA NewJob ==
  ASSUME TypeInv, NEW t \in Tasks, NEW j \in Jobs, call[t] = Bus!NoCall,
         call' = call, job' = [job EXCEPT ![t] = j],
         j.kind = "init" =>
           /\ j.temp = <<>> => j.left = <<>>
           /\ j.temp # <<>> => j.todo # <<>>
  PROVE  job' \in [Tasks -> Jobs] /\ JobInv'
<1>1. job' \in [Tasks -> Jobs]
  BY DEF TypeInv, TypeOK
<1>2. ASSUME NEW u \in Tasks
      PROVE  /\ call'[u] # Bus!NoCall =>
                  job'[u].left # <<>> /\ call'[u].addr = Head(job'[u].left)
             /\ job'[u].kind = "init" =>
                  /\ job'[u].temp = <<>> => job'[u].left = <<>>
                  /\ job'[u].temp # <<>> => job'[u].todo # <<>>
  <2>1. job'[u] = IF u = t THEN j ELSE job[u]
    BY DEF TypeInv, TypeOK
  <2>2. CASE u = t
    BY <2>1, <2>2
  <2>3. CASE u # t
    BY <2>1, <2>3 DEF TypeInv, JobInv
  <2> QED BY <2>2, <2>3
<1>3. JobInv'
  BY <1>2 DEF JobInv
<1> QED BY <1>1, <1>3

(* The EEPROM keeps its type, whoever calls it. *)
LEMMA BusTypes ==
  ASSUME TypeInv, NEW t \in Tasks,
         \/ \E c \in Cells, d \in Contents : Bus!Open(t, c, d)
         \/ Bus!Send(t)
         \/ Bus!Return(t)
  PROVE  Bus!BusTypeOK'
<1>1. Bus!BusTypeOK
  BY DEF TypeInv, TypeOK
<1>2. CASE \E c \in Cells, d \in Contents : Bus!Open(t, c, d)
  BY <1>1, <1>2 DEF Bus!BusTypeOK, Bus!Open, Bus!Calls
<1>3. CASE Bus!Send(t)
  <2>1. call[t] # Bus!NoCall
    BY <1>3 DEF Bus!Send, Bus!NoCall
  <2>2. call[t] \in [at : {"opened", "sent"}, addr : Cells, data : Contents]
    BY <1>1, <2>1 DEF Bus!BusTypeOK, Bus!Calls
  <2>3. call' \in [Tasks -> Bus!Calls]
    BY <1>1, <1>3, <2>2 DEF Bus!BusTypeOK, Bus!Send, Bus!Calls
  <2>4. ee' \in [Cells -> Contents] /\ wp' \in {"open", "closed"}
    BY <1>1, <1>3, <2>2 DEF Bus!BusTypeOK, Bus!Send
  <2> QED BY <2>3, <2>4 DEF Bus!BusTypeOK
<1>4. CASE Bus!Return(t)
  BY <1>1, <1>4 DEF Bus!BusTypeOK, Bus!Return, Bus!Calls
<1> QED BY <1>2, <1>3, <1>4

(* The byte a task stores next has an address and a content of the EEPROM. *)
LEMMA StoreByteOpens ==
  ASSUME TypeInv, NEW t \in Tasks, StoreByte(t)
  PROVE  /\ ram' \in [Cells -> Contents]
         /\ \E c \in Cells, d \in Contents : Bus!Open(t, c, d)
<1> DEFINE c == Head(job[t].left)
           d == CASE job[t].kind = "erase" -> "ff"
                  [] job[t].kind = "init"  -> job[t].temp[c[2]]
                  [] OTHER                 -> ram'[c]
<1>1. job[t] \in Jobs /\ job[t].left \in Seq(Cells) /\ job[t].left # <<>>
  BY DEF TypeInv, TypeOK, Jobs, StoreByte, Storing
<1>2. c \in Cells
  BY <1>1, RangeTail
<1>3. ram' \in [Cells -> Contents]
  BY <1>2 DEF TypeInv, TypeOK, StoreByte, Ghosts
<1>4. d \in Contents
  <2>1. CASE job[t].kind = "init"
    <3>1. job[t].temp \in Values
      BY <1>1, <2>1 DEF TypeInv, JobInv, Jobs
    <3>2. c[2] \in Octets
      BY <1>2, CellFacts
    <3> QED BY <2>1, <3>1, <3>2 DEF Values
  <2>2. CASE job[t].kind # "init"
    BY <1>2, <1>3, <2>2 DEF Contents
  <2> QED BY <2>1, <2>2
<1>5. Bus!Open(t, c, d)
  BY DEF StoreByte
<1> HIDE DEF c, d
<1> QED BY <1>2, <1>3, <1>4, <1>5

LEMMA StoreByteTypeInv ==
  ASSUME TypeInv, NEW t \in Tasks, StoreByte(t)
  PROVE  TypeInv'
<1>1. job[t].left \in Seq(Cells) /\ job[t].left # <<>> /\ job' = job
  BY DEF TypeInv, TypeOK, Jobs, StoreByte, Storing
<1>2. Bus!BusTypeOK' /\ ram' \in [Cells -> Contents]
  BY StoreByteOpens, BusTypes
<1>3. /\ call'[t].addr = Head(job[t].left)
      /\ \A u \in Tasks : u # t => call'[u] = call[u]
  BY DEF TypeInv, TypeOK, Bus!BusTypeOK, Bus!Open, StoreByte
<1>4. JobInv'
  BY <1>1, <1>3 DEF TypeInv, JobInv
<1> QED BY <1>1, <1>2, <1>4 DEF TypeInv, TypeOK, StoreByte, net

LEMMA SendByteTypeInv ==
  ASSUME TypeInv, NEW t \in Tasks, SendByte(t)
  PROVE  TypeInv'
<1>1. Bus!BusTypeOK'
  BY BusTypes DEF SendByte
<1>2. JobInv'
  <2>1. call \in [Tasks -> Bus!Calls]
    BY DEF TypeInv, TypeOK, Bus!BusTypeOK
  <2>2. call[t] # Bus!NoCall
    BY DEF SendByte, Bus!Send, Bus!NoCall
  <2>3. call[t] \in [at : {"opened", "sent"}, addr : Cells, data : Contents]
    BY <2>1, <2>2 DEF Bus!Calls
  <2>4. call'[t].addr = call[t].addr
    BY <2>1, <2>3 DEF SendByte, Bus!Send
  <2>5. \A u \in Tasks : u # t => call'[u] = call[u]
    BY <2>1 DEF SendByte, Bus!Send
  <2>6. job' = job
    BY DEF SendByte
  <2> QED BY <2>2, <2>4, <2>5, <2>6 DEF TypeInv, JobInv
<1> QED BY <1>1, <1>2 DEF TypeInv, TypeOK, SendByte, net

LEMMA ByteStoredTypeInv ==
  ASSUME TypeInv, NEW t \in Tasks, ByteStored(t)
  PROVE  TypeInv'
<1>1. Bus!BusTypeOK'
  BY BusTypes DEF ByteStored
<1>2. call[t] # Bus!NoCall
  BY DEF ByteStored, Bus!Return, Bus!NoCall
<1>3. job[t] \in Jobs /\ job[t].left \in Seq(Cells) /\ job[t].left # <<>>
  BY <1>2 DEF TypeInv, TypeOK, Jobs, JobInv
<1>4. Tail(job[t].left) \in Seq(Cells)
  BY <1>3, RangeTail
<1>5. /\ job' \in [Tasks -> Jobs]
      /\ \A u \in Tasks : u # t => job'[u] = job[u]
      /\ job'[t].kind = job[t].kind /\ job'[t].temp = job[t].temp
      /\ job'[t].todo = job[t].todo
  BY <1>3, <1>4 DEF TypeInv, TypeOK, ByteStored, Jobs
<1>6. call'[t] = Bus!NoCall /\ \A u \in Tasks : u # t => call'[u] = call[u]
  BY DEF TypeInv, TypeOK, Bus!BusTypeOK, ByteStored, Bus!Return
<1>7. JobInv'
  BY <1>3, <1>5, <1>6 DEF TypeInv, JobInv
<1> QED BY <1>1, <1>5, <1>7 DEF TypeInv, TypeOK, ByteStored, net

LEMMA ReadGroupTypeInv ==
  ASSUME TypeInv, NEW t \in Tasks, ReadGroup(t)
  PROVE  TypeInv'
<1> DEFINE g == Head(job[t].todo)
<1>1. /\ job[t] \in Jobs /\ job[t].todo \in Seq(Groups) /\ job[t].todo # <<>>
      /\ job[t].left = <<>> /\ job[t].kind = "init"
  BY DEF TypeInv, TypeOK, Jobs, ReadGroup, Loading, Storing
<1>2. g \in Groups
  BY <1>1, RangeTail
<1>3. BytesOf(g) \in Seq(Cells) /\ <<>> \in Seq(Cells)
  BY <1>2, CellFacts, BytesFacts
<1>4. PICK v \in Values :
        job' = [job EXCEPT
                  ![t].temp = IF Defaulted(g, v) THEN Default ELSE v,
                  ![t].left = IF Defaulted(g, v) /\ g # "port" THEN BytesOf(g) ELSE <<>>]
  BY DEF ReadGroup
<1> DEFINE temp == IF Defaulted(g, v) THEN Default ELSE v
           left == IF Defaulted(g, v) /\ g # "port" THEN BytesOf(g) ELSE <<>>
           j == [job[t] EXCEPT !.temp = temp, !.left = left]
<1>5. temp \in Values /\ temp # <<>>
  BY ValueFacts
<1>6. left \in Seq(Cells)
  BY <1>3
<1> HIDE DEF temp, left, g
<1>7. job' = [job EXCEPT ![t] = j]
  BY <1>4 DEF temp, left
<1>8. j \in Jobs /\ j.kind = "init" /\ j.temp # <<>> /\ j.todo # <<>>
  BY <1>1, <1>5, <1>6 DEF Jobs
<1>9. call[t] = Bus!NoCall /\ call' = call
  BY <1>1, Idle DEF ReadGroup, bus
<1> HIDE DEF j
<1>10. job' \in [Tasks -> Jobs] /\ JobInv'
  BY <1>7, <1>8, <1>9, NewJob
<1>11. Bus!BusTypeOK'
  BY DEF TypeInv, TypeOK, ReadGroup, bus, Bus!BusTypeOK
<1> QED BY <1>10, <1>11 DEF TypeInv, TypeOK, ReadGroup, net

LEMMA LoadGroupTypeInv ==
  ASSUME TypeInv, NEW t \in Tasks, LoadGroup(t)
  PROVE  TypeInv'
<1> DEFINE g == Head(job[t].todo)
           j == [job[t] EXCEPT !.todo = Tail(job[t].todo), !.temp = <<>>]
<1>1. /\ job[t] \in Jobs /\ job[t].todo \in Seq(Groups) /\ job[t].todo # <<>>
      /\ job[t].left = <<>> /\ job[t].temp \in Values
  BY DEF TypeInv, TypeOK, JobInv, Jobs, LoadGroup, Loading, Storing
<1>2. Tail(job[t].todo) \in Seq(Groups)
  BY <1>1, RangeTail
<1>3. ram' \in [Cells -> Contents] /\ ghost' \in [Ghosts -> Contents]
  <2>1. \A c \in Cells : job[t].temp[c[2]] \in Contents
    BY <1>1, CellFacts DEF Values
  <2>2. Ghosts \subseteq Cells
    BY CellFacts
  <2> QED BY <2>1, <2>2 DEF TypeInv, TypeOK, LoadGroup, With
<1>4. job' = [job EXCEPT ![t] = j]
  BY DEF LoadGroup
<1>5. j \in Jobs /\ j.temp = <<>> /\ j.left = <<>>
  BY <1>1, <1>2 DEF Jobs
<1>6. call[t] = Bus!NoCall /\ call' = call
  BY <1>1, Idle DEF LoadGroup, bus
<1> HIDE DEF j
<1>7. job' \in [Tasks -> Jobs] /\ JobInv'
  BY <1>4, <1>5, <1>6, NewJob
<1>8. Bus!BusTypeOK'
  BY DEF TypeInv, TypeOK, LoadGroup, bus, Bus!BusTypeOK
<1> QED BY <1>3, <1>7, <1>8 DEF TypeInv, TypeOK, LoadGroup, net

(* A task that has nothing to do starts a request. *)
LEMMA StartsTypes ==
  ASSUME TypeInv, NEW t \in Tasks, job[t] = NoJob, call' = call,
         NEW k \in Kinds, k # "init", NEW s \in Seq(Cells), Starts(t, k, s)
  PROVE  job' \in [Tasks -> Jobs] /\ JobInv'
<1>1. call[t] = Bus!NoCall
  BY JobFacts, Idle
<1>2. Job(k, s) \in Jobs /\ Job(k, s).kind # "init"
  BY JobFacts
<1> QED BY <1>1, <1>2, NewJob DEF Starts

LEMMA RequestTypeInv ==
  ASSUME TypeInv, NEW t \in Tasks, Request(t)
  PROVE  TypeInv'
<1>1. /\ job[t] = NoJob /\ turn' \in {"poll", "count"}
      /\ phase' = phase /\ IP_Change' = IP_Change /\ count' = count
      /\ call' = call /\ Bus!BusTypeOK'
  BY DEF TypeInv, TypeOK, Request, Takes, WriteGhost, Commit, WriteMacEnable,
         WriteMacByte, WriteMac, MasterReset, bus, Bus!BusTypeOK
<1> SUFFICES /\ ram' \in [Cells -> Contents] /\ ghost' \in [Ghosts -> Contents]
             /\ job' \in [Tasks -> Jobs] /\ JobInv' /\ mac_enable' \in BOOLEAN
  BY <1>1 DEF TypeInv, TypeOK
<1>2. Bytes \subseteq Contents /\ Ghosts \subseteq Cells
  BY ValueFacts, CellFacts
<1>3. ASSUME job' = job PROVE job' \in [Tasks -> Jobs] /\ JobInv'
  BY <1>1, <1>3 DEF TypeInv, TypeOK, JobInv
<1>4. CASE WriteGhost(t)
  <2>1. ghost' \in [Ghosts -> Contents]
    <3>1. \A v \in [Octets -> Bytes], c \in Ghosts : v[c[2]] \in Contents
      BY <1>2, CellFacts
    <3> QED BY <1>2, <1>4, <3>1 DEF WriteGhost, With, TypeInv, TypeOK
  <2> QED BY <1>3, <1>4, <2>1 DEF WriteGhost, TypeInv, TypeOK
<1>5. CASE Commit(t)
  <2>1. ram' \in [Cells -> Contents]
    BY <1>5 DEF Commit, TypeInv, TypeOK, Ghosts
  <2>2. job' \in [Tasks -> Jobs] /\ JobInv'
    BY <1>1, <1>5, OrderFacts, StartsTypes DEF Commit, Kinds
  <2> QED BY <1>5, <2>1, <2>2 DEF Commit, TypeInv, TypeOK
<1>6. CASE WriteMacEnable(t)
  BY <1>3, <1>6 DEF WriteMacEnable, TypeInv, TypeOK
<1>7. CASE WriteMacByte(t)
  <2>1. PICK c \in Cells, b \in Bytes :
          ram' = [ram EXCEPT ![c] = b] /\ Starts(t, "octet", <<c>>)
    BY <1>7 DEF WriteMacByte
  <2>2. ram' \in [Cells -> Contents]
    BY <1>2, <2>1 DEF TypeInv, TypeOK
  <2>3. <<c>> \in Seq(Cells)
    OBVIOUS
  <2>4. job' \in [Tasks -> Jobs] /\ JobInv'
    BY <1>1, <2>1, <2>3, StartsTypes DEF Kinds
  <2> QED BY <1>7, <2>2, <2>4 DEF WriteMacByte, TypeInv, TypeOK
<1>8. CASE WriteMac(t)
  <2>1. ram' \in [Cells -> Contents]
    <3>1. \A v \in [Octets -> Bytes], c \in Cells : v[c[2]] \in Contents
      BY <1>2, CellFacts
    <3> QED BY <1>8, <3>1 DEF WriteMac, With, TypeInv, TypeOK
  <2>2. "mac" \in AllGroups
    BY DEF AllGroups
  <2>3. job' \in [Tasks -> Jobs] /\ JobInv'
    BY <1>1, <1>8, <2>2, BytesFacts, StartsTypes DEF WriteMac, Kinds
  <2> QED BY <1>8, <2>1, <2>3 DEF WriteMac, TypeInv, TypeOK
<1>9. CASE MasterReset(t)
  <2>1. ASSUME Starts(t, "erase", EraseOrder)
        PROVE  job' \in [Tasks -> Jobs] /\ JobInv'
    BY <1>1, <2>1, OrderFacts, StartsTypes DEF Kinds
  <2>2. ASSUME job' = [job EXCEPT ![t] = InitJob]
        PROVE  job' \in [Tasks -> Jobs] /\ JobInv'
    <3>1. call[t] = Bus!NoCall
      BY <1>1, JobFacts, Idle
    <3> QED BY <1>1, <2>2, <3>1, JobFacts, NewJob
  <2> QED BY <1>9, <2>1, <2>2 DEF MasterReset, TypeInv, TypeOK
<1> QED BY <1>4, <1>5, <1>6, <1>7, <1>8, <1>9 DEF Request

LEMMA ChangeAddressTypeInv ==
  ASSUME TypeInv, ChangeAddress
  PROVE  TypeInv'
<1>1. "NET" \in Tasks /\ "ip" \in AllGroups
  BY DEF Tasks, AllGroups
<1>2. Bytes \subseteq Contents /\ Ghosts \subseteq Cells
  BY ValueFacts, CellFacts
<1>3. /\ job["NET"] = NoJob /\ call' = call /\ turn' \in {"poll", "count"}
      /\ phase' = phase /\ count' = count /\ mac_enable' = mac_enable
      /\ IP_Change' = TRUE /\ Bus!BusTypeOK'
  BY DEF ChangeAddress, bus, TypeInv, TypeOK, Bus!BusTypeOK
<1>4. ram' \in [Cells -> Contents] /\ ghost' \in [Ghosts -> Contents]
  <2>1. \A v \in [Octets -> Bytes], c \in Cells : v[c[2]] \in Contents
    BY <1>2, CellFacts
  <2> QED BY <1>2, <2>1 DEF ChangeAddress, With, TypeInv, TypeOK
<1>5. job' \in [Tasks -> Jobs] /\ JobInv'
  <2>1. \/ Starts("NET", "udp", BytesOf("ip"))
        \/ job' = job
    BY DEF ChangeAddress
  <2>2. ASSUME Starts("NET", "udp", BytesOf("ip"))
        PROVE  job' \in [Tasks -> Jobs] /\ JobInv'
    BY <1>1, <1>3, <2>2, BytesFacts, StartsTypes DEF Kinds
  <2>3. ASSUME job' = job
        PROVE  job' \in [Tasks -> Jobs] /\ JobInv'
    BY <1>3, <2>3 DEF TypeInv, TypeOK, JobInv
  <2> QED BY <2>1, <2>2, <2>3
<1> QED BY <1>3, <1>4, <1>5 DEF TypeInv, TypeOK

LEMMA RequestDoneTypeInv ==
  ASSUME TypeInv, NEW t \in Tasks, RequestDone(t)
  PROVE  TypeInv'
<1>1. /\ call[t] = Bus!NoCall /\ call' = call /\ Bus!BusTypeOK'
  BY Idle DEF RequestDone, Storing, bus, TypeInv, TypeOK, Bus!BusTypeOK
<1>2. job' \in [Tasks -> Jobs] /\ JobInv'
  <2> DEFINE j == IF job[t].kind = "erase" THEN InitJob ELSE NoJob
  <2>1. job' = [job EXCEPT ![t] = j]
    BY DEF RequestDone
  <2>2. /\ j \in Jobs
        /\ j.kind = "init" => j.temp = <<>> /\ j.left = <<>>
    BY JobFacts
  <2> HIDE DEF j
  <2> QED BY <1>1, <2>1, <2>2, NewJob
<1>3. IP_Change' \in BOOLEAN /\ mac_enable' \in BOOLEAN
  BY DEF RequestDone
<1> QED BY <1>1, <1>2, <1>3 DEF RequestDone, TypeInv, TypeOK

LEMMA BootDoneTypeInv ==
  ASSUME TypeInv, BootDone
  PROVE  TypeInv'
<1>1. "main" \in Tasks
  BY DEF Tasks
<1>2. call["main"] = Bus!NoCall /\ call' = call /\ Bus!BusTypeOK'
  BY <1>1, Idle DEF BootDone, Loading, Storing, bus, TypeInv, TypeOK, Bus!BusTypeOK
<1>3. job' \in [Tasks -> Jobs] /\ JobInv'
  BY <1>1, <1>2, JobFacts, NewJob DEF BootDone
<1> QED BY <1>2, <1>3 DEF BootDone, net, TypeInv, TypeOK

LEMMA LoopTypeInv ==
  ASSUME TypeInv, Loop
  PROVE  TypeInv'
<1>1. CASE Reboot
  BY <1>1, RebootTypeInv
<1>2. CASE ~Reboot
  <2>1. UNCHANGED <<ram, ghost, bus, job, phase, IP_Change, mac_enable>>
    BY <1>2 DEF Loop, PollNothing, CountPass
  <2>2. turn' \in {"poll", "count"}
    BY <1>2 DEF Loop, PollNothing, CountPass
  <2>3. count' \in 0..(ResetAfter - 1)
    <3>1. ResetAfter \in Nat \ {0} /\ count \in 0..(ResetAfter - 1)
      BY ConstantsAssumption DEF TypeInv, TypeOK
    <3>2. count' = count \/ (count' = count + 1 /\ count + 1 # ResetAfter)
      BY <1>2 DEF Loop, PollNothing, CountPass, Passes
    <3> QED BY <3>1, <3>2
  <2>4. Bus!BusTypeOK' /\ JobInv'
    BY <2>1 DEF bus, TypeInv, TypeOK, JobInv, Bus!BusTypeOK
  <2> QED BY <2>1, <2>2, <2>3, <2>4 DEF TypeInv, TypeOK
<1> QED BY <1>1, <1>2

LEMMA NextTypeInv ==
  ASSUME TypeInv, [Next]_vars
  PROVE  TypeInv'
<1>1. CASE UNCHANGED vars
  BY <1>1 DEF vars, bus, net, TypeInv, TypeOK, JobInv, Bus!BusTypeOK
<1>2. ASSUME NEW t \in Tasks, Working(t)
      PROVE  TypeInv'
  BY <1>2, StoreByteTypeInv, SendByteTypeInv, ByteStoredTypeInv,
     ReadGroupTypeInv, LoadGroupTypeInv, RequestDoneTypeInv, RebootTypeInv
  DEF Working, ResetDone
<1>3. ASSUME NEW t \in Tasks, Request(t)
      PROVE  TypeInv'
  BY <1>3, RequestTypeInv
<1>4. CASE ChangeAddress
  BY <1>4, ChangeAddressTypeInv
<1>5. CASE BootDone
  BY <1>5, BootDoneTypeInv
<1>6. CASE Loop
  BY <1>6, LoopTypeInv
<1>7. CASE PowerFail
  BY <1>7, RebootTypeInv DEF PowerFail
<1> QED BY <1>1, <1>2, <1>3, <1>4, <1>5, <1>6, <1>7 DEF Next

(* Every variable keeps its type, whoever writes and wherever power fails: *)
(* NET's count never passes the value at which it resets, whatever other   *)
(* tasks do to IP_Change (main.c:151-164).                                 *)
THEOREM TypeCorrect == Spec => []TypeOK
<1>1. Init => TypeInv
  BY InitTypeInv
<1>2. TypeInv /\ [Next]_vars => TypeInv'
  BY NextTypeInv
<1>3. TypeInv => TypeOK
  BY DEF TypeInv
<1> QED BY <1>1, <1>2, <1>3, PTL DEF Spec

-----------------------------------------------------------------------------
(* How the settings use the EEPROM. *)

LEMMA BusStep ==
  ASSUME TypeInv, [Next]_vars
  PROVE  [Bus!BusNext]_bus
<1>1. ASSUME NEW t \in Tasks, Working(t)
      PROVE  [Bus!BusNext]_bus
  <2>1. CASE StoreByte(t)
    BY <2>1, StoreByteOpens DEF Bus!BusNext
  <2>2. CASE SendByte(t) \/ ByteStored(t)
    BY <2>2 DEF SendByte, ByteStored, Bus!BusNext
  <2>3. CASE ResetDone(t)
    BY <2>3 DEF ResetDone, Reboot, Bus!BusNext
  <2>4. CASE ReadGroup(t) \/ LoadGroup(t) \/ RequestDone(t)
    BY <2>4 DEF ReadGroup, LoadGroup, RequestDone
  <2> QED BY <1>1, <2>1, <2>2, <2>3, <2>4 DEF Working
<1>2. ASSUME NEW t \in Tasks, Request(t)
      PROVE  UNCHANGED bus
  BY <1>2 DEF Request, WriteGhost, Commit, WriteMacEnable, WriteMacByte,
              WriteMac, MasterReset
<1>3. CASE ChangeAddress \/ BootDone
  BY <1>3 DEF ChangeAddress, BootDone
<1>4. CASE Loop \/ PowerFail
  BY <1>4 DEF Loop, PollNothing, CountPass, PowerFail, Reboot, Bus!BusNext
<1>5. CASE UNCHANGED vars
  BY <1>5 DEF vars
<1> QED BY <1>1, <1>2, <1>3, <1>4, <1>5 DEF Next

(* Whatever the settings do with the EEPROM is a call of it at one of its  *)
(* addresses: every step of them is one of EepromBus, or leaves it alone   *)
(* (24cxx.c:35-68, modbus.c:354-363, main.c:346-464).                      *)
THEOREM UsesTheBus == Spec => Bus!BusSpec
<1>1. Init => Bus!BusInit /\ TypeInv
  BY InitTypeInv DEF Init
<1>2. TypeInv /\ [Next]_vars => TypeInv'
  BY NextTypeInv
<1>3. TypeInv /\ [Next]_vars => [Bus!BusNext]_Bus!busVars
  BY BusStep DEF Bus!busVars, bus
<1> QED BY <1>1, <1>2, <1>3, PTL DEF Spec, Bus!BusSpec

(* However many tasks store settings at once and wherever power fails, the *)
(* chip is write-protected when none of them is about to send a byte       *)
(* (24cxx.c:46, 66).                                                       *)
THEOREM ChipProtected == Spec => []ProtectedAtRest
<1>1. Init => TypeInv /\ ProtectedAtRest
  BY InitTypeInv DEF Init, Bus!BusInit, ProtectedAtRest, Bus!ProtectedAtRest
<1>2. TypeInv /\ ProtectedAtRest /\ [Next]_vars
        => TypeInv' /\ ProtectedAtRest'
  <2> SUFFICES ASSUME TypeInv, ProtectedAtRest, [Next]_vars
               PROVE  ProtectedAtRest'
    BY NextTypeInv
  <2> USE DEF ProtectedAtRest, Bus!ProtectedAtRest
  <2>1. call \in [Tasks -> Bus!Calls]
    BY DEF TypeInv, TypeOK, Bus!BusTypeOK
  <2>2. CASE UNCHANGED bus
    BY <2>2 DEF bus
  <2>3. ASSUME NEW t \in Tasks, NEW c \in Cells, NEW d \in Contents,
               Bus!Open(t, c, d)
        PROVE  ProtectedAtRest'
    BY <2>1, <2>3 DEF Bus!Open
  <2>4. ASSUME NEW t \in Tasks, Bus!Send(t)
        PROVE  ProtectedAtRest'
    BY <2>4 DEF Bus!Send
  <2>5. ASSUME NEW t \in Tasks, Bus!Return(t)
        PROVE  ProtectedAtRest'
    BY <2>1, <2>5 DEF Bus!Return, Bus!NoCall
  <2>6. CASE Bus!BusRestart
    BY <2>6 DEF Bus!BusRestart
  <2> QED BY <2>2, <2>3, <2>4, <2>5, <2>6, BusStep DEF Bus!BusNext
<1> QED BY <1>1, <1>2, PTL DEF Spec

-----------------------------------------------------------------------------
(* The reset comes nearer. *)

LEMMA LengthFacts ==
  ASSUME TypeInv, NEW t \in Tasks
  PROVE  /\ job[t] \in Jobs
         /\ job[t].left \in Seq(Cells) /\ Len(job[t].left) \in Nat
         /\ job[t].left # <<>> => Len(job[t].left) > 0
         /\ job[t].todo \in Seq(Groups) /\ Len(job[t].todo) \in Nat
         /\ job[t].todo # <<>> => Len(job[t].todo) > 0
         /\ Len(InitOrder) \in Nat
<1>1. job[t] \in Jobs /\ job[t].left \in Seq(Cells) /\ job[t].todo \in Seq(Groups)
  BY DEF TypeInv, TypeOK, Jobs
<1>2. \A S : \A s \in Seq(S) : Len(s) \in Nat /\ (s # <<>> => Len(s) > 0)
  BY LenProperties, EmptySeq
<1> QED BY <1>1, <1>2, OrderFacts

(* What a task has to do depends on what it has to store, to load, and on  *)
(* its kind of job alone, and it is a count.                               *)
LEMMA ToDoNat ==
  ASSUME TypeInv, NEW t \in Tasks
  PROVE  /\ ToStore(t) \in Nat /\ ToLoad(job[t]) \in Nat /\ ToDo(t) \in Nat
<1>1. ToStore(t) \in Nat
  <2>1. Stage(call[t]) \in 0..2
    BY DEF Stage
  <2>2. call[t] = Bus!NoCall => Stage(call[t]) = 0
    BY DEF Stage, Bus!NoCall
  <2>3. call[t] # Bus!NoCall => job[t].left # <<>>
    BY DEF TypeInv, JobInv
  <2> QED BY <2>1, <2>2, <2>3, LengthFacts DEF ToStore
<1>2. ToLoad(job[t]) \in Nat
  <2>1. CASE job[t].kind = "init"
    BY <2>1, LengthFacts DEF ToLoad, TypeInv, JobInv
  <2>2. CASE job[t].kind # "init"
    BY <2>2, LengthFacts DEF ToLoad
  <2> QED BY <2>1, <2>2
<1> QED BY <1>1, <1>2 DEF ToDo

(* Each step of a job leaves less to do. *)
LEMMA StoringNearer ==
  ASSUME TypeInv, NEW t \in Tasks, StoreByte(t) \/ SendByte(t) \/ ByteStored(t)
  PROVE  ToDo(t)' < ToDo(t)
<1>1. /\ ToStore(t) \in Nat /\ ToLoad(job[t]) \in Nat
      /\ Len(job[t].left) \in Nat /\ job[t].left \in Seq(Cells)
  BY ToDoNat, LengthFacts
<1> SUFFICES /\ job'[t].kind = job[t].kind
             /\ job'[t].todo = job[t].todo /\ job'[t].temp = job[t].temp
             /\ ToStore(t)' = ToStore(t) - 1
  <2>1. ToLoad(job[t])' = ToLoad(job[t])
    BY DEF ToLoad
  <2> QED BY <1>1, <2>1 DEF ToDo
<1>2. CASE StoreByte(t)
  <2>1. call[t] = Bus!NoCall /\ call'[t].at = "opened" /\ job' = job
    BY <1>2 DEF StoreByte, Bus!Open, TypeInv, TypeOK, Bus!BusTypeOK
  <2> QED BY <1>1, <2>1 DEF ToStore, Stage, Bus!NoCall
<1>3. CASE SendByte(t)
  <2>1. call[t].at = "opened" /\ job' = job
    BY <1>3 DEF SendByte, Bus!Send
  <2>2. call[t] \in [at : {"opened", "sent"}, addr : Cells, data : Contents]
    BY <2>1 DEF TypeInv, TypeOK, Bus!BusTypeOK, Bus!Calls, Bus!NoCall
  <2>3. call'[t].at = "sent"
    BY <1>3, <2>2 DEF SendByte, Bus!Send, TypeInv, TypeOK, Bus!BusTypeOK
  <2> QED BY <1>1, <2>1, <2>3 DEF ToStore, Stage
<1>4. CASE ByteStored(t)
  <2>1. /\ call[t].at = "sent" /\ call'[t].at = "none"
        /\ job' = [job EXCEPT ![t].left = Tail(@)]
    BY <1>4 DEF ByteStored, Bus!Return, Bus!NoCall, TypeInv, TypeOK, Bus!BusTypeOK
  <2>2. job[t].left # <<>>
    BY <2>1 DEF TypeInv, JobInv, Bus!NoCall
  <2>3. Len(Tail(job[t].left)) = Len(job[t].left) - 1
    BY <1>1, <2>2, HeadTailProperties
  <2>4. /\ job'[t].kind = job[t].kind /\ job'[t].left = Tail(job[t].left)
        /\ job'[t].todo = job[t].todo /\ job'[t].temp = job[t].temp
    BY <2>1, LengthFacts DEF TypeInv, TypeOK, Jobs
  <2>5. ToStore(t) = 3 * Len(job[t].left) - 2
    BY <2>1 DEF ToStore, Stage
  <2>6. ToStore(t)' = 3 * (Len(job[t].left) - 1)
    <3>1. Stage(call'[t]) = 0
      BY <2>1 DEF Stage
    <3>2. ToStore(t)' = 3 * Len(job'[t].left) - Stage(call'[t])
      BY DEF ToStore
    <3> QED BY <1>1, <2>3, <2>4, <3>1, <3>2
  <2> QED BY <1>1, <2>4, <2>5, <2>6
<1> QED BY <1>2, <1>3, <1>4

LEMMA LoadingNearer ==
  ASSUME TypeInv, NEW t \in Tasks, ReadGroup(t) \/ LoadGroup(t)
  PROVE  ToDo(t)' < ToDo(t)
<1>1. /\ job[t] \in Jobs /\ job[t].kind = "init" /\ job[t].left = <<>>
      /\ call[t] = Bus!NoCall /\ call' = call
      /\ job[t].todo \in Seq(Groups) /\ Len(job[t].todo) \in Nat
      /\ job \in [Tasks -> Jobs]
  BY Idle, LengthFacts
  DEF ReadGroup, LoadGroup, Loading, Storing, bus, TypeInv, TypeOK
<1>2. Len(<<>>) = 0 /\ Stage(call[t]) = 0
  BY <1>1 DEF Stage, Bus!NoCall
<1>3. CASE ReadGroup(t)
  <2>1. PICK v \in Values :
          job' = [job EXCEPT
                    ![t].temp = IF Defaulted(Head(job[t].todo), v)
                                  THEN Default ELSE v,
                    ![t].left = IF /\ Defaulted(Head(job[t].todo), v)
                                   /\ Head(job[t].todo) # "port"
                                  THEN BytesOf(Head(job[t].todo)) ELSE <<>>]
    BY <1>3 DEF ReadGroup
  <2> DEFINE left == job'[t].left
  <2>2. /\ job'[t].kind = "init" /\ job'[t].todo = job[t].todo
        /\ job'[t].temp # <<>> /\ job[t].temp = <<>>
        /\ \/ left = <<>>
           \/ left = BytesOf(Head(job[t].todo))
    <3>1. Default # <<>> /\ v # <<>>
      BY ValueFacts
    <3> QED BY <1>1, <1>3, <2>1, <3>1 DEF Jobs, ReadGroup
  <2>3. Len(left) \in 0..2
    BY <1>2, <2>2 DEF BytesOf
  <2> HIDE DEF left
  <2>4. ToStore(t) = 0 /\ ToStore(t)' = 3 * Len(left)
    BY <1>1, <1>2, <2>3 DEF ToStore, left
  <2>5. /\ ToLoad(job[t]) = 8 * Len(job[t].todo)
        /\ ToLoad(job[t])' = 8 * Len(job[t].todo) - 7
    BY <1>1, <2>2 DEF ToLoad
  <2>6. ToDo(t) = 8 * Len(job[t].todo) + 1
    BY <1>1, <2>4, <2>5 DEF ToDo
  <2>7. ToDo(t)' = 3 * Len(left) + (8 * Len(job[t].todo) - 7) + 1
    BY <1>1, <2>2, <2>3, <2>4, <2>5 DEF ToDo
  <2>8. 3 * Len(left) + (8 * Len(job[t].todo) - 7) + 1 < 8 * Len(job[t].todo) + 1
    <3> DEFINE n == Len(left)  m == Len(job[t].todo)
    <3>1. n \in 0..2 /\ m \in Nat
      BY <1>1, <2>3
    <3> HIDE DEF n, m
    <3>2. 3 * n + (8 * m - 7) + 1 < 8 * m + 1
      BY <3>1
    <3> QED BY <3>2 DEF n, m
  <2> QED BY <2>6, <2>7, <2>8
<1>4. CASE LoadGroup(t)
  <2>1. job[t].temp # <<>> /\ job[t].todo # <<>>
    BY <1>1, <1>4 DEF LoadGroup, TypeInv, JobInv
  <2>2. Len(Tail(job[t].todo)) = Len(job[t].todo) - 1
    BY <1>1, <2>1, HeadTailProperties
  <2>3. /\ job'[t].kind = "init" /\ job'[t].todo = Tail(job[t].todo)
        /\ job'[t].temp = <<>> /\ job'[t].left = <<>>
    BY <1>1, <1>4 DEF LoadGroup, Jobs
  <2>4. ToStore(t) = 0 /\ ToStore(t)' = 0
    BY <1>1, <1>2, <2>3 DEF ToStore
  <2>5. /\ ToLoad(job[t]) = 8 * Len(job[t].todo) - 7
        /\ ToLoad(job[t])' = 8 * (Len(job[t].todo) - 1)
    BY <1>1, <2>1, <2>2, <2>3 DEF ToLoad
  <2> QED BY <1>1, <2>3, <2>4, <2>5 DEF ToDo
<1> QED BY <1>3, <1>4

LEMMA DoneNearer ==
  ASSUME TypeInv, NEW t \in Tasks, RequestDone(t)
  PROVE  ToDo(t)' < ToDo(t)
<1>1. /\ job[t].left = <<>> /\ call[t] = Bus!NoCall /\ call' = call
      /\ job[t].kind \notin {"init", "none"} /\ job \in [Tasks -> Jobs]
      /\ job'[t] = IF job[t].kind = "erase" THEN InitJob ELSE NoJob
  BY Idle DEF RequestDone, Storing, bus, TypeInv, TypeOK
<1>2. Len(<<>>) = 0 /\ Stage(call[t]) = 0 /\ Len(InitOrder) \in Nat
  BY <1>1, LengthFacts DEF Stage, Bus!NoCall
<1>3. job'[t].left = <<>> /\ ToStore(t) = 0 /\ ToStore(t)' = 0
  <2>1. job'[t].left = <<>>
    BY <1>1, JobFacts
  <2> QED BY <1>1, <1>2, <2>1 DEF ToStore
<1>4. CASE job[t].kind = "erase"
  <2>1. ToLoad(job[t]) = 8 * Len(InitOrder) + 1
    BY <1>4 DEF ToLoad
  <2>2. job'[t].kind = "init" /\ ToLoad(job[t])' = 8 * Len(InitOrder)
    BY <1>1, <1>2, <1>4, JobFacts DEF ToLoad
  <2> QED BY <1>2, <1>3, <1>4, <2>1, <2>2 DEF ToDo
<1>5. CASE job[t].kind # "erase"
  <2>1. ToLoad(job[t]) = 0
    BY <1>1, <1>5 DEF ToLoad
  <2>2. job'[t].kind = "none" /\ ToLoad(job[t])' = 0
    BY <1>1, <1>5, JobFacts DEF ToLoad
  <2> QED BY <1>1, <1>3, <2>1, <2>2 DEF ToDo
<1> QED BY <1>4, <1>5

(* Each step of the program is one of those ResetComesNearer allows. *)
LEMMA NextNearer ==
  ASSUME TypeInv, [Next]_vars, phase = "run", phase' = "run", IP_Change
  PROVE  /\ IP_Change'
         /\ \/ count' > count
            \/ count' = count /\ turn = "poll" /\ turn' = "count"
            \/ UNCHANGED <<count, turn>> /\ ToDo("NET")' < ToDo("NET")
            \/ UNCHANGED <<count, turn, job["NET"], call["NET"]>>
<1> DEFINE Goal ==
      /\ IP_Change'
      /\ \/ count' > count
         \/ count' = count /\ turn = "poll" /\ turn' = "count"
         \/ UNCHANGED <<count, turn>> /\ ToDo("NET")' < ToDo("NET")
         \/ UNCHANGED <<count, turn, job["NET"], call["NET"]>>
<1>0. "NET" \in Tasks /\ count \in Nat /\ ~Reboot
      /\ job \in [Tasks -> Jobs] /\ call \in [Tasks -> Bus!Calls]
  BY ConstantsAssumption
  DEF Tasks, TypeInv, TypeOK, Bus!BusTypeOK, Reboot
<1> SUFFICES Goal
  OBVIOUS
<1>1. CASE UNCHANGED vars
  BY <1>1 DEF vars, bus, net
<1>2. ASSUME NEW t \in Tasks, Working(t) PROVE Goal
  <2>1. ~ResetDone(t)
    BY <1>0 DEF ResetDone
  <2>2. /\ IP_Change' /\ UNCHANGED <<count, turn>>
    BY <1>2, <2>1 DEF Working, StoreByte, SendByte, ByteStored, ReadGroup,
       LoadGroup, RequestDone, net
  <2>3. CASE t = "NET"
    BY <1>2, <2>1, <2>2, <2>3, StoringNearer, LoadingNearer, DoneNearer DEF Working
  <2>4. CASE t # "NET"
    <3>1. UNCHANGED job["NET"]
      BY <1>0, <1>2, <2>1, <2>4 DEF Working, StoreByte, SendByte, ByteStored,
         ReadGroup, LoadGroup, RequestDone
    <3>2. UNCHANGED call["NET"]
      BY <1>0, <1>2, <2>1, <2>4 DEF Working, StoreByte, SendByte, ByteStored,
         ReadGroup, LoadGroup, RequestDone, Bus!Open, Bus!Send, Bus!Return, bus
    <3> QED BY <2>2, <3>1, <3>2
  <2> QED BY <2>3, <2>4
<1>3. ASSUME NEW t \in Tasks, Request(t) PROVE Goal
  <2>1. UNCHANGED <<IP_Change, count, bus>> /\ Takes(t)
    BY <1>3 DEF Request, WriteGhost, Commit, WriteMacEnable, WriteMacByte,
       WriteMac, MasterReset
  <2>2. CASE t = "NET"
    BY <2>1, <2>2 DEF Takes
  <2>3. CASE t # "NET"
    <3>1. UNCHANGED turn
      BY <2>1, <2>3 DEF Takes
    <3>2. UNCHANGED job["NET"]
      BY <1>0, <1>3, <2>3 DEF Request, WriteGhost, Commit, WriteMacEnable,
         WriteMacByte, WriteMac, MasterReset, Starts
    <3> QED BY <2>1, <3>1, <3>2 DEF bus
  <2> QED BY <2>2, <2>3
<1>4. CASE ChangeAddress
  BY <1>4 DEF ChangeAddress
<1>5. CASE BootDone
  BY <1>0, <1>5 DEF BootDone, net, bus
<1>6. CASE Loop
  <2>1. CASE PollNothing
    BY <2>1 DEF PollNothing
  <2>2. CASE CountPass
    <3>1. /\ Passes(count) = count + 1
          /\ count' = Passes(count) /\ UNCHANGED IP_Change
      BY <1>0, <2>2 DEF CountPass, Passes
    <3> QED BY <1>0, <3>1
  <2> QED BY <1>6, <2>1, <2>2 DEF Loop
<1>7. CASE PowerFail
  BY <1>0, <1>7 DEF PowerFail
<1> QED BY <1>1, <1>2, <1>3, <1>4, <1>5, <1>6, <1>7 DEF Next

(* Nothing puts the reset off (main.c:147-169): whoever writes whatever,   *)
(* each step of NET takes it nearer to the reset by one of a finite count  *)
(* of steps, and no step of another task takes it back or clears           *)
(* IP_Change.                                                              *)
THEOREM NothingPutsResetOff ==
  Spec => ResetComesNearer /\ [](ToDo("NET") \in Nat)
<1>1. TypeInv /\ [Next]_vars => TypeInv'
  BY NextTypeInv
<1>2. TypeInv /\ [Next]_vars =>
        [phase = "run" /\ phase' = "run" /\ IP_Change =>
           /\ IP_Change'
           /\ \/ count' > count
              \/ count' = count /\ turn = "poll" /\ turn' = "count"
              \/ UNCHANGED <<count, turn>> /\ ToDo("NET")' < ToDo("NET")
              \/ UNCHANGED <<count, turn, job["NET"], call["NET"]>>]_vars
  BY NextNearer
<1>3. TypeInv => ToDo("NET") \in Nat
  BY ToDoNat DEF Tasks
<1> QED BY <1>1, <1>2, <1>3, InitTypeInv, PTL DEF Spec, ResetComesNearer

-----------------------------------------------------------------------------
(* What is served is stored. *)

LEMMA WorkerFacts ==
  /\ Worker \in Tasks
  /\ phase' = phase => Worker' = Worker
BY DEF Worker, Tasks

LEMMA Busy ==
  ASSUME IInv, NEW t \in Tasks, job[t] # NoJob \/ call[t] # Bus!NoCall
  PROVE  t = Worker
BY DEF IInv, OneWorker

(* Of the tasks that take requests only one has masters. *)
LEMMA Requester ==
  ASSUME OneWriter
  PROVE  /\ \A t \in Tasks : Takes(t) => t = Worker /\ phase = "run"
         /\ ChangeAddress => "NET" = Worker /\ phase = "run"
BY DEF OneWriter, Takes, ChangeAddress, Worker

(* Steps of the EEPROM leave the other tasks alone. *)
LEMMA OneWorkerKept ==
  ASSUME IInv, phase' = phase,
         \A t \in Tasks : t # Worker => job'[t] = job[t] /\ call'[t] = call[t]
  PROVE  OneWorker'
BY WorkerFacts DEF IInv, OneWorker

LEMMA StoreByteInv ==
  ASSUME IInv, NEW t \in Tasks, StoreByte(t)
  PROVE  IInv'
<1> DEFINE c == Head(job[t].left)
           d == CASE job[t].kind = "erase" -> "ff"
                  [] job[t].kind = "init"  -> job[t].temp[c[2]]
                  [] OTHER                 -> ram'[c]
<1>1. t = Worker
  BY Busy, JobFacts DEF StoreByte, Storing
<1>2. /\ phase' = phase /\ Worker' = Worker /\ job' = job /\ ee' = ee
      /\ job[t].left # <<>>
  BY WorkerFacts DEF StoreByte, Storing, Bus!Open
<1>3. /\ job[t] \in Jobs /\ job[t].left \in Seq(Cells)
      /\ call \in [Tasks -> Bus!Calls] /\ ram \in [Cells -> Contents]
  BY DEF IInv, TypeInv, TypeOK, Jobs, Bus!BusTypeOK
<1>4. c \in Cells /\ c \in Range(job[t].left)
  BY <1>2, <1>3, RangeTail
<1>5. /\ call' = [call EXCEPT ![t] = [at |-> "opened", addr |-> c, data |-> d]]
      /\ wp' = "open"
  BY DEF StoreByte, Bus!Open
<1>6. /\ \A x \in Cells : x # c => ram'[x] = ram[x]
      /\ job[t].kind = "init" => ram' = ram
  BY <1>3 DEF StoreByte
<1>7. /\ job[t].kind \in Requests => d = ram'[c]
      /\ job[t].kind = "init" => d = job[t].temp[c[2]]
  BY DEF Requests
<1> HIDE DEF c, d
<1>8. TypeInv'
  BY StoreByteTypeInv DEF IInv
<1>9. OneWorker'
  BY <1>1, <1>2, <1>3, <1>5, OneWorkerKept
<1>10. CallInv'
  <2>1. call'[Worker] = [at |-> "opened", addr |-> c, data |-> d]
    BY <1>1, <1>3, <1>5
  <2> QED BY <1>1, <1>2, <1>5, <1>7, <2>1 DEF CallInv
<1>11. RunInv'
  <2> SUFFICES ASSUME phase = "run" PROVE RunInv'
    BY <1>2 DEF RunInv
  <2>1. job[t] # NoJob
    BY <1>2, JobFacts
  <2>2. ASSUME job[t].kind \in Requests, NEW g \in Groups
        PROVE  Fine(g)'
    <3>1. Fine(g)
      BY <1>1, <2>2 DEF IInv, RunInv
    <3>2. \A i \in Octets : <<g, i>> \in Cells
      BY CellFacts
    <3>3. CASE \A i \in Octets : InLeft(<<g, i>>) \/ ee[<<g, i>>] = ram[<<g, i>>]
      BY <1>1, <1>2, <1>4, <1>6, <3>2, <3>3 DEF Fine, InLeft
    <3>4. CASE (Stored(g) \/ Refused(g)) /\ \A i \in Octets : ~InLeft(<<g, i>>)
      <4>1. \A i \in Octets : <<g, i>> # c
        BY <1>1, <1>4, <3>4 DEF InLeft
      <4>2. \A i \in Octets : ram'[<<g, i>>] = ram[<<g, i>>]
        BY <1>6, <3>2, <4>1
      <4>3. (Stored(g) \/ Refused(g))'
        BY <1>2, <3>4, <4>2 DEF Stored, Refused, Of, TestedOctets, Octets
      <4> QED BY <1>1, <1>2, <3>4, <4>3 DEF Fine, InLeft
    <3> QED BY <3>1, <3>3, <3>4 DEF Fine
  <2> QED BY <1>1, <1>2, <2>1, <2>2 DEF IInv, RunInv
<1>12. BootInv'
  <2> SUFFICES ASSUME phase = "boot" PROVE BootInv'
    BY <1>2 DEF BootInv
  <2>1. ram' = ram
    BY <1>1, <1>6 DEF IInv, BootInv
  <2>2. \A h \in Groups : Stored(h)' <=> Stored(h)
    BY <1>2, <2>1 DEF Stored, Of
  <2> QED BY <1>2, <2>1, <2>2 DEF IInv, BootInv, InTodo, InLeft, Of
<1> QED BY <1>8, <1>9, <1>10, <1>11, <1>12 DEF IInv

LEMMA SendByteInv ==
  ASSUME IInv, NEW t \in Tasks, SendByte(t)
  PROVE  IInv'
<1> DEFINE c == call[t].addr
           d == call[t].data
<1>1. call[t] # Bus!NoCall /\ call[t].at = "opened"
  BY DEF SendByte, Bus!Send, Bus!NoCall
<1>2. t = Worker
  BY <1>1, Busy
<1>3. phase' = phase /\ Worker' = Worker /\ job' = job /\ ram' = ram
  BY WorkerFacts DEF SendByte
<1>4. /\ job[t] \in Jobs /\ job[t].left \in Seq(Cells)
      /\ call \in [Tasks -> Bus!Calls] /\ ee \in [Cells -> Contents]
  BY DEF IInv, TypeInv, TypeOK, Jobs, Bus!BusTypeOK
<1>5. call[t] \in [at : {"opened", "sent"}, addr : Cells, data : Contents]
  BY <1>1, <1>4 DEF Bus!Calls
<1>6. /\ job[t].left # <<>> /\ c = Head(job[t].left)
      /\ c \in Cells /\ c \in Range(job[t].left)
  BY <1>1, <1>4, RangeTail DEF IInv, TypeInv, JobInv
<1>7. ee' = [ee EXCEPT ![c] = d]
  <2>1. wp = "open"
    BY <1>1, <1>2 DEF IInv, CallInv
  <2>2. ~Bus!Programming(t)
    BY <1>2 DEF IInv, OneWorker, Bus!Programming, Bus!NoCall
  <2> QED BY <2>1, <2>2 DEF SendByte, Bus!Send
<1>8. /\ call'[t].at = "sent" /\ call'[t].addr = c /\ call'[t].data = d
      /\ \A u \in Tasks : u # t => call'[u] = call[u]
  BY <1>4, <1>5 DEF SendByte, Bus!Send
<1> HIDE DEF c, d
<1>9. ee'[c] = d /\ \A x \in Cells : x # c => ee'[x] = ee[x]
  BY <1>4, <1>6, <1>7
<1>10. TypeInv'
  BY SendByteTypeInv DEF IInv
<1>11. OneWorker'
  BY <1>2, <1>3, <1>8, OneWorkerKept
<1>12. CallInv'
  <2>1. /\ job[t].kind \in Requests => d = ram[c]
        /\ job[t].kind = "init" => d = job[t].temp[c[2]]
    BY <1>1, <1>2 DEF IInv, CallInv, c, d
  <2> QED BY <1>2, <1>3, <1>8, <1>9, <2>1 DEF CallInv
<1>13. RunInv'
  <2> SUFFICES ASSUME phase = "run" PROVE RunInv'
    BY <1>3 DEF RunInv
  <2>1. job[t] # NoJob
    BY <1>6, JobFacts
  <2>2. ASSUME job[t].kind \in Requests, NEW g \in Groups
        PROVE  Fine(g)'
    <3>1. Fine(g)
      BY <1>2, <2>2 DEF IInv, RunInv
    <3>2. \A i \in Octets : <<g, i>> \in Cells
      BY CellFacts
    <3>3. CASE \A i \in Octets : InLeft(<<g, i>>) \/ ee[<<g, i>>] = ram[<<g, i>>]
      BY <1>2, <1>3, <1>6, <1>9, <3>2, <3>3 DEF Fine, InLeft
    <3>4. CASE (Stored(g) \/ Refused(g)) /\ \A i \in Octets : ~InLeft(<<g, i>>)
      <4>1. \A i \in Octets : <<g, i>> # c
        BY <1>2, <1>6, <3>4 DEF InLeft
      <4>2. \A i \in Octets : ee'[<<g, i>>] = ee[<<g, i>>]
        BY <1>9, <3>2, <4>1
      <4>3. (Stored(g) \/ Refused(g))'
        BY <1>3, <3>4, <4>2 DEF Stored, Refused, Of, TestedOctets
      <4> QED BY <1>2, <1>3, <3>4, <4>3 DEF Fine, InLeft
    <3> QED BY <3>1, <3>3, <3>4 DEF Fine
  <2> QED BY <1>2, <1>3, <2>1, <2>2 DEF IInv, RunInv
<1>14. BootInv'
  <2> SUFFICES ASSUME phase = "boot" PROVE BootInv'
    BY <1>3 DEF BootInv
  <2> DEFINE g == Head(job[t].todo)
  <2>1. job[t].kind = "init" /\ job[t].temp # <<>> /\ job[t].todo # <<>>
    BY <1>2, <1>6 DEF IInv, BootInv, TypeInv, JobInv
  <2>2. g \in Range(job[t].todo) /\ g \in Groups
    BY <1>4, <2>1, RangeTail DEF Jobs
  <2>3. c[1] = g /\ \A x \in Cells : InLeft(x) => x[1] = g
    BY <1>2, <1>6, <2>1 DEF IInv, BootInv, InLeft
  <2>4. \A h \in Groups : InTodo(h)' \/ Stored(h)'
    <3> SUFFICES ASSUME NEW h \in Groups, ~InTodo(h) PROVE Stored(h)'
      BY <1>3 DEF InTodo
    <3>1. Stored(h)
      BY DEF IInv, BootInv
    <3>2. \A i \in Octets : <<h, i>> \in Cells /\ <<h, i>> # c
      BY <1>2, <2>2, <2>3, CellFacts DEF InTodo
    <3> QED BY <1>3, <1>9, <3>1, <3>2 DEF Stored, Of
  <2>5. \A i \in Octets : InLeft(<<g, i>>)' \/ ee'[<<g, i>>] = job[t].temp[i]
    <3>1. \A i \in Octets : InLeft(<<g, i>>) \/ ee[<<g, i>>] = job[t].temp[i]
      BY <1>2, <1>6, <2>1 DEF IInv, BootInv
    <3>2. \A i \in Octets : <<g, i>> \in Cells
      BY <2>2, CellFacts
    <3> QED BY <1>2, <1>3, <1>6, <1>9, <3>1, <3>2 DEF InLeft
  <2>6. \A x \in Cells : InLeft(x)' => x[1] = g
    BY <1>3, <2>3 DEF InLeft
  <2> QED BY <1>2, <1>3, <2>1, <2>4, <2>5, <2>6 DEF BootInv
<1> QED BY <1>10, <1>11, <1>12, <1>13, <1>14 DEF IInv

LEMMA ByteStoredInv ==
  ASSUME IInv, NEW t \in Tasks, ByteStored(t)
  PROVE  IInv'
<1> DEFINE c == Head(job[t].left)
           rest == Tail(job[t].left)
<1>1. call[t] # Bus!NoCall /\ call[t].at = "sent"
  BY DEF ByteStored, Bus!Return, Bus!NoCall
<1>2. t = Worker
  BY <1>1, Busy
<1>3. phase' = phase /\ Worker' = Worker /\ ram' = ram /\ ee' = ee
  BY WorkerFacts DEF ByteStored, Bus!Return
<1>4. /\ job \in [Tasks -> Jobs] /\ job[t] \in Jobs /\ job[t].left \in Seq(Cells)
      /\ call \in [Tasks -> Bus!Calls]
  BY DEF IInv, TypeInv, TypeOK, Jobs, Bus!BusTypeOK
<1>5. job[t].left # <<>> /\ call[t].addr = c
  BY <1>1 DEF IInv, TypeInv, JobInv
<1>6. c \in Cells /\ Range(job[t].left) = {c} \union Range(rest)
  BY <1>4, <1>5, RangeTail
<1>7. /\ job'[t].left = rest
      /\ job'[t].kind = job[t].kind /\ job'[t].temp = job[t].temp
      /\ job'[t].todo = job[t].todo
      /\ \A u \in Tasks : u # t => job'[u] = job[u]
  BY <1>4 DEF ByteStored, Jobs
<1>8. call'[t] = Bus!NoCall /\ \A u \in Tasks : u # t => call'[u] = call[u]
  BY <1>4 DEF ByteStored, Bus!Return
<1> HIDE DEF rest, c
<1>9. \A x \in Cells : InLeft(x) => x = c \/ InLeft(x)'
  BY <1>2, <1>3, <1>6, <1>7 DEF InLeft
<1>10. \A x \in Cells : InLeft(x)' => InLeft(x)
  BY <1>2, <1>3, <1>6, <1>7 DEF InLeft
<1>11. ee[c] = call[t].data
  BY <1>1, <1>2, <1>5 DEF IInv, CallInv
<1>12. /\ job[t].kind \in Requests => ee[c] = ram[c]
       /\ job[t].kind = "init" => ee[c] = job[t].temp[c[2]]
  BY <1>1, <1>2, <1>5, <1>11 DEF IInv, CallInv
<1>13. TypeInv'
  BY ByteStoredTypeInv DEF IInv
<1>14. OneWorker'
  BY <1>2, <1>3, <1>7, <1>8, OneWorkerKept
<1>15. CallInv'
  BY <1>2, <1>3, <1>8 DEF CallInv
<1>16. RunInv'
  <2> SUFFICES ASSUME phase = "run" PROVE RunInv'
    BY <1>3 DEF RunInv
  <2>1. job[t].kind # "none"
    BY <1>2, <1>5, JobFacts DEF IInv, RunInv
  <2>2. ASSUME job[t].kind \in Requests, NEW g \in Groups
        PROVE  Fine(g)'
    <3>1. Fine(g)
      BY <1>2, <2>2 DEF IInv, RunInv
    <3>2. \A i \in Octets : <<g, i>> \in Cells
      BY CellFacts
    <3>3. CASE \A i \in Octets : InLeft(<<g, i>>) \/ ee[<<g, i>>] = ram[<<g, i>>]
      <4>1. \A i \in Octets : InLeft(<<g, i>>)' \/ ee[<<g, i>>] = ram[<<g, i>>]
        BY <1>9, <1>12, <2>2, <3>2, <3>3
      <4> QED BY <1>3, <4>1 DEF Fine
    <3>4. CASE (Stored(g) \/ Refused(g)) /\ \A i \in Octets : ~InLeft(<<g, i>>)
      <4>1. \A i \in Octets : ~InLeft(<<g, i>>)'
        BY <1>10, <3>2, <3>4
      <4>2. (Stored(g) \/ Refused(g))'
        BY <1>3, <3>4 DEF Stored, Refused, Of, TestedOctets
      <4> QED BY <4>1, <4>2 DEF Fine
    <3> QED BY <3>1, <3>3, <3>4 DEF Fine
  <2>3. job'[t].kind # "none" /\ job'[t] # NoJob
    BY <1>7, <2>1, JobFacts
  <2> QED BY <1>2, <1>3, <1>7, <2>2, <2>3 DEF RunInv
<1>17. BootInv'
  <2> SUFFICES ASSUME phase = "boot" PROVE BootInv'
    BY <1>3 DEF BootInv
  <2>1. job[t].kind = "init" /\ job[t].temp # <<>> /\ job[t].todo # <<>>
    BY <1>2, <1>5 DEF IInv, BootInv, TypeInv, JobInv
  <2>2. PICK g \in Groups : g = Head(job[t].todo)
    BY <1>4, <2>1, RangeTail DEF Jobs
  <2>3. \A x \in Cells : InLeft(x)' => x[1] = g
    BY <1>2, <1>10, <2>1, <2>2 DEF IInv, BootInv
  <2>4. \A h \in Groups : InTodo(h)' \/ Stored(h)'
    BY <1>2, <1>3, <1>7 DEF IInv, BootInv, InTodo, Stored, Of
  <2>5. \A i \in Octets : InLeft(<<g, i>>) \/ ee[<<g, i>>] = job[t].temp[i]
    BY <1>2, <1>5, <2>1, <2>2 DEF IInv, BootInv
  <2>6. \A i \in Octets : InLeft(<<g, i>>)' \/ ee[<<g, i>>] = job[t].temp[i]
    <3>1. \A i \in Octets : <<g, i>> \in Cells /\ <<g, i>>[2] = i
      BY <2>2, CellFacts
    <3> SUFFICES ASSUME NEW i \in Octets, ~InLeft(<<g, i>>)'
                 PROVE  ee[<<g, i>>] = job[t].temp[i]
      OBVIOUS
    <3>2. CASE <<g, i>> = c
      <4>1. c[2] = i
        BY <3>2
      <4> QED BY <1>12, <2>1, <3>2, <4>1
    <3>3. CASE <<g, i>> # c
      <4>1. ~InLeft(<<g, i>>)
        BY <1>9, <3>1, <3>3
      <4> QED BY <2>5, <4>1
    <3> QED BY <3>2, <3>3
  <2>7. /\ job'[Worker'].kind = "init" /\ job'[Worker'].temp = job[t].temp
        /\ Head(job'[Worker'].todo) = g
    BY <1>2, <1>3, <1>7, <2>1, <2>2
  <2> QED BY <1>3, <2>3, <2>4, <2>6, <2>7 DEF BootInv
<1> QED BY <1>13, <1>14, <1>15, <1>16, <1>17 DEF IInv

(* The processor starts again: all has still to be loaded. *)
LEMMA RestartInv ==
  ASSUME TypeInv', phase' = "boot",
         call' = [t \in Tasks |-> Bus!NoCall],
         job' = [t \in Tasks |-> IF t = "main" THEN InitJob ELSE NoJob]
  PROVE  IInv'
<1>1. Worker' = "main" /\ "main" \in Tasks
  BY DEF Worker, Tasks
<1>2. job'["main"] = InitJob /\ call'["main"] = Bus!NoCall
  BY <1>1
<1>3. OneWorker'
  BY <1>1 DEF OneWorker
<1>4. CallInv'
  BY <1>1, <1>2 DEF CallInv
<1>5. RunInv'
  BY DEF RunInv
<1>6. BootInv'
  BY <1>1, <1>2, JobFacts, OrderFacts DEF BootInv, InTodo
<1> QED BY <1>3, <1>4, <1>5, <1>6 DEF IInv

LEMMA RebootInv ==
  ASSUME IInv, Reboot
  PROVE  IInv'
BY RebootTypeInv, RestartInv DEF IInv, Reboot, Bus!BusRestart

LEMMA ReadGroupInv ==
  ASSUME IInv, NEW t \in Tasks, ReadGroup(t)
  PROVE  IInv'
<1>1. t = Worker
  BY Busy, JobFacts DEF ReadGroup, Loading
<1>2. /\ phase' = phase /\ Worker' = Worker /\ ram' = ram /\ ee' = ee
      /\ call' = call
  BY WorkerFacts DEF ReadGroup, bus
<1>3. /\ job \in [Tasks -> Jobs] /\ job[t].todo \in Seq(Groups)
      /\ job[t].todo # <<>> /\ job[t].left = <<>> /\ job[t].kind = "init"
  BY DEF IInv, TypeInv, TypeOK, Jobs, ReadGroup, Loading, Storing
<1>4. PICK g \in Groups : g = Head(job[t].todo)
  BY <1>3, RangeTail
<1>5. PICK v \in Values :
        /\ \A i \in Octets : v[i] \in Bus!Readings(t, <<g, i>>)
        /\ job' = [job EXCEPT
             ![t].temp = IF Defaulted(g, v) THEN Default ELSE v,
             ![t].left = IF Defaulted(g, v) /\ g # "port" THEN BytesOf(g) ELSE <<>>]
  BY <1>4 DEF ReadGroup
<1>6. \A i \in Octets : v[i] = ee[<<g, i>>]
  <2>1. ~Bus!Programming(t)
    BY <1>1 DEF IInv, OneWorker, Bus!Programming, Bus!NoCall
  <2> QED BY <1>5, <2>1 DEF Bus!Readings
<1>7. /\ job'[t].kind = "init" /\ job'[t].todo = job[t].todo
      /\ job'[t].temp = IF Defaulted(g, v) THEN Default ELSE v
      /\ job'[t].left = IF Defaulted(g, v) /\ g # "port" THEN BytesOf(g) ELSE <<>>
      /\ \A u \in Tasks : u # t => job'[u] = job[u]
  BY <1>3, <1>5 DEF Jobs
<1>8. call[t] = Bus!NoCall
  BY <1>3, Idle DEF IInv
<1>9. TypeInv'
  BY ReadGroupTypeInv DEF IInv
<1>10. OneWorker'
  BY <1>1, <1>2, <1>7, OneWorkerKept
<1>11. CallInv'
  BY <1>1, <1>2, <1>8 DEF CallInv
<1>12. RunInv'
  BY <1>1, <1>2, <1>7, JobFacts DEF RunInv, Requests
<1>13. BootInv'
  <2> SUFFICES ASSUME phase = "boot" PROVE BootInv'
    BY <1>2 DEF BootInv
  <2>1. \A h \in Groups : InTodo(h)' \/ Stored(h)'
    BY <1>1, <1>2, <1>7 DEF IInv, BootInv, InTodo, Stored, Of
  <2>2. /\ job'[Worker'].kind = "init" /\ Head(job'[Worker'].todo) = g
        /\ job'[Worker'].temp = job'[t].temp /\ job'[Worker'].left = job'[t].left
    BY <1>1, <1>2, <1>4, <1>7
  <2>3. \A x \in Cells : InLeft(x)' <=> x \in Range(job'[t].left)
    BY <1>1, <1>2 DEF InLeft
  <2>4. \A i \in Octets : <<g, i>> \in Cells
    BY CellFacts
  <2>5. CASE Defaulted(g, v) /\ g # "port"
    <3>1. Range(job'[t].left) = {x \in Cells : x[1] = g}
      BY <1>7, <2>5, BytesFacts, CellFacts
    <3>2. /\ \A x \in Cells : InLeft(x)' => x[1] = g
          /\ \A i \in Octets : InLeft(<<g, i>>)'
      BY <2>3, <2>4, <3>1
    <3> QED BY <2>1, <2>2, <3>2 DEF BootInv
  <2>6. CASE ~(Defaulted(g, v) /\ g # "port")
    <3>1. job'[t].left = <<>>
      BY <1>7, <2>6
    <3>2. \A x \in Cells : ~InLeft(x)'
      BY <2>3, <3>1, RangeShort
    <3>3. CASE v # Blank
      <4>1. ~Defaulted(g, v)
        BY <2>6, <3>3 DEF Defaulted
      <4> QED BY <1>2, <1>6, <1>7, <2>1, <2>2, <3>2, <4>1 DEF BootInv
    <3>4. CASE v = Blank /\ g = "port"
      <4>1. Of(ee, g) = Blank
        BY <1>6, <3>4 DEF Of, Blank
      <4>2. (Of(ee, g) = Blank)'
        BY <1>2, <4>1 DEF Of
      <4> QED BY <1>7, <2>1, <2>2, <3>1, <3>2, <3>4, <4>2 DEF BootInv, Defaulted
    <3> QED BY <2>6, <3>3, <3>4 DEF Defaulted
  <2> QED BY <2>5, <2>6
<1> QED BY <1>9, <1>10, <1>11, <1>12, <1>13 DEF IInv

LEMMA LoadGroupInv ==
  ASSUME IInv, NEW t \in Tasks, LoadGroup(t)
  PROVE  IInv'
<1>1. t = Worker
  BY Busy, JobFacts DEF LoadGroup, Loading
<1>2. /\ phase' = phase /\ Worker' = Worker /\ ee' = ee /\ call' = call
  BY WorkerFacts DEF LoadGroup, bus
<1>3. /\ job \in [Tasks -> Jobs] /\ job[t].todo \in Seq(Groups)
      /\ job[t].todo # <<>> /\ job[t].left = <<>> /\ job[t].kind = "init"
      /\ job[t].temp # <<>> /\ job[t].temp \in Values
      /\ ram \in [Cells -> Contents]
  BY DEF IInv, TypeInv, TypeOK, JobInv, Jobs, LoadGroup, Loading, Storing
<1>4. PICK g \in Groups : g = Head(job[t].todo)
  BY <1>3, RangeTail
<1>5. /\ job'[t].kind = "init" /\ job'[t].left = <<>> /\ job'[t].temp = <<>>
      /\ job'[t].todo = Tail(job[t].todo)
      /\ \A u \in Tasks : u # t => job'[u] = job[u]
  BY <1>3 DEF LoadGroup, Jobs
<1>6. call[t] = Bus!NoCall
  BY <1>3, Idle DEF IInv
<1>7. TypeInv'
  BY LoadGroupTypeInv DEF IInv
<1>8. OneWorker'
  BY <1>1, <1>2, <1>5, OneWorkerKept
<1>9. CallInv'
  BY <1>1, <1>2, <1>6 DEF CallInv
<1>10. RunInv'
  BY <1>1, <1>2, <1>5, JobFacts DEF RunInv, Requests
<1>11. BootInv'
  <2> SUFFICES ASSUME phase = "boot" PROVE BootInv'
    BY <1>2 DEF BootInv
  <2>1. \A h \in Groups, i \in Octets :
          ram'[<<h, i>>] = IF h = g THEN job[t].temp[i] ELSE ram[<<h, i>>]
    BY <1>3, <1>4, CellFacts DEF LoadGroup, With
  <2>2. Range(job[t].todo) = {g} \union Range(job'[t].todo)
    BY <1>3, <1>4, <1>5, RangeTail
  <2>3. \A x \in Cells : ~InLeft(x)
    BY <1>1, <1>3, RangeShort DEF InLeft
  <2>4. ASSUME NEW h \in Groups, h # g, ~InTodo(h)'
        PROVE  Stored(h)'
    <3>1. ~InTodo(h)
      BY <1>1, <1>2, <2>2, <2>4 DEF InTodo
    <3>2. Stored(h)
      BY <3>1 DEF IInv, BootInv
    <3> QED BY <1>2, <2>1, <2>4, <3>2 DEF Stored, Of
  <2>5. Stored(g)'
    <3>1. \A i \in Octets : ram'[<<g, i>>] = job[t].temp[i]
      BY <2>1
    <3>2. CASE \A i \in Octets : ee[<<g, i>>] = job[t].temp[i]
      BY <1>2, <3>1, <3>2 DEF Stored, Of
    <3>3. CASE g = "port" /\ Of(ee, g) = Blank /\ job[t].temp = Default
      BY <1>2, <3>1, <3>3 DEF Stored, Of, Default
    <3>4. \/ \A i \in Octets : InLeft(<<g, i>>) \/ ee[<<g, i>>] = job[t].temp[i]
          \/ g = "port" /\ Of(ee, g) = Blank /\ job[t].temp = Default
      BY <1>1, <1>3, <1>4 DEF IInv, BootInv
    <3> QED BY <2>3, <3>2, <3>3, <3>4, CellFacts
  <2> QED BY <1>1, <1>2, <1>5, <2>4, <2>5 DEF BootInv
<1> QED BY <1>7, <1>8, <1>9, <1>10, <1>11 DEF IInv

LEMMA BootDoneInv ==
  ASSUME IInv, BootDone
  PROVE  IInv'
<1>1. "main" \in Tasks /\ job["main"].kind = "init" /\ job["main"].todo = <<>>
      /\ job["main"].left = <<>>
  BY DEF BootDone, Loading, Storing, Tasks
<1>2. "main" = Worker
  BY <1>1, Busy, JobFacts
<1>3. phase = "boot"
  BY <1>2 DEF Worker
<1>4. call["main"] = Bus!NoCall /\ call' = call /\ ee' = ee /\ ram' = ram
  BY <1>1, Idle DEF IInv, BootDone, bus
<1>5. /\ job'["main"] = NoJob
      /\ \A u \in Tasks : u # "main" => job'[u] = job[u]
  BY <1>1 DEF IInv, TypeInv, TypeOK, BootDone
<1>6. \A u \in Tasks : job'[u] = NoJob /\ call'[u] = Bus!NoCall
  BY <1>2, <1>4, <1>5 DEF IInv, OneWorker
<1>7. Worker' \in Tasks /\ phase' = "run"
  BY DEF Worker, Tasks, BootDone
<1>8. \A g \in Groups : Stored(g)'
  <2>1. \A g \in Groups : ~InTodo(g)
    BY <1>1, <1>2, RangeShort DEF InTodo
  <2>2. \A g \in Groups : Stored(g)
    BY <1>3, <2>1 DEF IInv, BootInv
  <2> QED BY <1>4, <2>2 DEF Stored, Of
<1>9. TypeInv'
  BY BootDoneTypeInv DEF IInv
<1>10. OneWorker' /\ CallInv' /\ RunInv' /\ BootInv'
  BY <1>6, <1>7, <1>8, JobFacts DEF OneWorker, CallInv, RunInv, BootInv, Requests
<1> QED BY <1>9, <1>10 DEF IInv

(* A request begins at rest: it may change what it will store. *)
LEMMA BeginInv ==
  ASSUME IInv, TypeInv', phase = "run", phase' = phase,
         NEW t \in Tasks, t = Worker, job[t] = NoJob,
         call' = call, ee' = ee,
         NEW k \in Kinds, k # "none", NEW s \in Seq(Cells),
         job' = [job EXCEPT ![t] = Job(k, s)] \/
           (k = "init" /\ job' = [job EXCEPT ![t] = InitJob]),
         k \in Requests => \A g \in Groups :
           \/ \A i \in Octets : <<g, i>> \notin Range(s)
                                /\ ram'[<<g, i>>] = ram[<<g, i>>]
           \/ \A i \in Octets : <<g, i>> \in Range(s) \/
                 (ram'[<<g, i>>] = ram[<<g, i>>] /\ g \notin {"ip", "port"})
  PROVE  IInv'
<1>1. call[t] = Bus!NoCall
  BY JobFacts, Idle DEF IInv
<1>2. Worker' = Worker
  BY WorkerFacts
<1>3. /\ job'[t].kind = k /\ (k # "init" => job'[t].left = s)
      /\ \A u \in Tasks : u # t => job'[u] = job[u]
  BY JobFacts DEF IInv, TypeInv, TypeOK
<1>4. OneWorker'
  BY <1>3, OneWorkerKept
<1>5. CallInv'
  BY <1>1, <1>2 DEF CallInv
<1>6. BootInv'
  BY DEF BootInv
<1>7. ASSUME NEW g \in Groups, k \in Requests
      PROVE  Fine(g)'
  <2>1. \A i \in Octets : <<g, i>> \in Cells
    BY CellFacts
  <2>2. job'[Worker'].left = s
    BY <1>2, <1>3, <1>7 DEF Requests
  <2>3. Stored(g) \/ Refused(g)
    BY DEF IInv, RunInv
  <2>4. CASE \A i \in Octets : <<g, i>> \notin Range(s)
                               /\ ram'[<<g, i>>] = ram[<<g, i>>]
    <3>1. (Stored(g) \/ Refused(g))'
      BY <2>3, <2>4 DEF Stored, Refused, Of, TestedOctets, Octets
    <3> QED BY <2>2, <2>4, <3>1 DEF Fine, InLeft
  <2>5. CASE \A i \in Octets : <<g, i>> \in Range(s) \/
                 (ram'[<<g, i>>] = ram[<<g, i>>] /\ g \notin {"ip", "port"})
    <3>1. g \notin {"ip", "port"} => \A i \in Octets : ee[<<g, i>>] = ram[<<g, i>>]
      <4> SUFFICES ASSUME g \notin {"ip", "port"}, NEW i \in Octets
                   PROVE  ee[<<g, i>>] = ram[<<g, i>>]
        OBVIOUS
      <4>1. Of(ee, g) = Of(ram, g)
        BY <2>3 DEF Stored, Refused
      <4>2. Of(ee, g)[i] = Of(ram, g)[i]
        BY <4>1
      <4> QED BY <4>2 DEF Of
    <3>2. \A i \in Octets : <<g, i>> \in Range(s) \/ ee[<<g, i>>] = ram'[<<g, i>>]
      BY <2>5, <3>1
    <3> QED BY <2>2, <3>2 DEF Fine, InLeft
  <2> QED BY <1>7, <2>4, <2>5
<1>8. RunInv'
  <2>1. job'[Worker'] # NoJob /\ job'[Worker'].kind = k
    BY <1>2, <1>3, JobFacts
  <2> QED BY <1>7, <2>1 DEF RunInv
<1> QED BY <1>4, <1>5, <1>6, <1>8 DEF IInv

(* A step of the ghosts, of mac_enable or of NET's loop alone. *)
LEMMA NothingInv ==
  ASSUME IInv, TypeInv', UNCHANGED <<phase, job, ram, ee, wp, call>>
  PROVE  IInv'
<1>1. Worker' = Worker
  BY WorkerFacts
<1>2. OneWorker' /\ CallInv'
  BY <1>1 DEF IInv, OneWorker, CallInv
<1>3. \A g \in Groups : Fine(g)' = Fine(g) /\ Stored(g)' = Stored(g)
                        /\ Refused(g)' = Refused(g) /\ InTodo(g)' = InTodo(g)
  BY <1>1 DEF Fine, Stored, Refused, InLeft, InTodo, Of
<1>4. \A c \in Cells : InLeft(c)' = InLeft(c)
  BY <1>1 DEF InLeft
<1>5. RunInv'
  BY <1>1, <1>3 DEF IInv, RunInv
<1>6. BootInv'
  BY <1>1, <1>3, <1>4 DEF IInv, BootInv, InLeft, Of
<1> QED BY <1>2, <1>5, <1>6 DEF IInv

LEMMA RequestInv ==
  ASSUME IInv, OneWriter, NEW t \in Tasks, Request(t)
  PROVE  IInv'
<1>1. /\ job[t] = NoJob /\ t = Worker /\ phase = "run" /\ phase' = phase
      /\ call' = call /\ ee' = ee /\ wp' = wp
  BY Requester DEF Request, Takes, WriteGhost, Commit, WriteMacEnable,
                   WriteMacByte, WriteMac, MasterReset, bus
<1>2. TypeInv'
  BY RequestTypeInv DEF IInv
<1>3. ram \in [Cells -> Contents]
  BY DEF IInv, TypeInv, TypeOK
<1>4. \A g \in Groups, i \in Octets : <<g, i>> \in Cells /\ <<g, i>>[1] = g
  BY CellFacts
<1>5. CASE WriteGhost(t)
  BY <1>1, <1>2, <1>5, NothingInv DEF WriteGhost, bus
<1>6. CASE WriteMacEnable(t)
  BY <1>1, <1>2, <1>6, NothingInv DEF WriteMacEnable, bus
<1>7. CASE Commit(t)
  <2>1. job' = [job EXCEPT ![t] = Job("commit", CommitOrder)]
    BY <1>7 DEF Commit, Starts
  <2>2. ASSUME NEW g \in Groups
        PROVE  \/ \A i \in Octets : <<g, i>> \notin Range(CommitOrder)
                                    /\ ram'[<<g, i>>] = ram[<<g, i>>]
               \/ \A i \in Octets : <<g, i>> \in Range(CommitOrder)
    <3>1. CASE g \notin {"ip", "port"}
      BY <1>4, <1>7, <3>1, OrderFacts DEF Commit
    <3>2. CASE g \in {"ip", "port"}
      BY <1>4, <3>2, OrderFacts
    <3> QED BY <3>1, <3>2
  <2> QED BY <1>1, <1>2, <2>1, <2>2, OrderFacts, BeginInv DEF Kinds
<1>8. CASE WriteMacByte(t)
  <2>1. PICK c \in Cells, b \in Bytes :
          /\ c[1] = "mac" /\ ram' = [ram EXCEPT ![c] = b]
          /\ job' = [job EXCEPT ![t] = Job("octet", <<c>>)]
    BY <1>8 DEF WriteMacByte, Starts
  <2>2. <<c>> \in Seq(Cells) /\ Range(<<c>>) = {c}
    BY RangeShort
  <2>3. ASSUME NEW g \in Groups
        PROVE  \/ \A i \in Octets : <<g, i>> \notin {c}
                                    /\ ram'[<<g, i>>] = ram[<<g, i>>]
               \/ \A i \in Octets : <<g, i>> \in {c} \/
                    (ram'[<<g, i>>] = ram[<<g, i>>] /\ g \notin {"ip", "port"})
    BY <1>3, <1>4, <2>1
  <2> QED BY <1>1, <1>2, <2>1, <2>2, <2>3, BeginInv DEF Kinds
<1>9. CASE WriteMac(t)
  <2>1. PICK v \in [Octets -> Bytes] : ram' = With(ram, "mac", v)
    BY <1>9 DEF WriteMac
  <2>2. job' = [job EXCEPT ![t] = Job("mac", BytesOf("mac"))]
    BY <1>9 DEF WriteMac, Starts
  <2>3. /\ BytesOf("mac") \in Seq(Cells)
        /\ Range(BytesOf("mac")) = {c \in Cells : c[1] = "mac"}
    BY BytesFacts DEF AllGroups
  <2>4. ASSUME NEW g \in Groups
        PROVE  \/ \A i \in Octets : <<g, i>> \notin Range(BytesOf("mac"))
                                    /\ ram'[<<g, i>>] = ram[<<g, i>>]
               \/ \A i \in Octets : <<g, i>> \in Range(BytesOf("mac"))
    BY <1>3, <1>4, <2>1, <2>3 DEF With
  <2> QED BY <1>1, <1>2, <2>2, <2>3, <2>4, BeginInv DEF Kinds
<1>10. CASE MasterReset(t)
  <2>1. CASE Starts(t, "erase", EraseOrder)
    BY <1>1, <1>2, <2>1, OrderFacts, BeginInv DEF Starts, Kinds, Requests
  <2>2. CASE job' = [job EXCEPT ![t] = InitJob]
    BY <1>1, <1>2, <2>2, OrderFacts, BeginInv DEF Kinds, Requests
  <2> QED BY <1>10, <2>1, <2>2 DEF MasterReset
<1> QED BY <1>5, <1>6, <1>7, <1>8, <1>9, <1>10 DEF Request

LEMMA ChangeAddressInv ==
  ASSUME IInv, OneWriter, ChangeAddress
  PROVE  IInv'
<1>1. /\ job["NET"] = NoJob /\ "NET" = Worker /\ "NET" \in Tasks
      /\ phase = "run" /\ phase' = phase
      /\ call' = call /\ ee' = ee /\ wp' = wp
  BY Requester DEF ChangeAddress, bus, Tasks
<1>2. TypeInv'
  BY ChangeAddressTypeInv DEF IInv
<1>3. ram \in [Cells -> Contents]
  BY DEF IInv, TypeInv, TypeOK
<1>4. \A g \in Groups, i \in Octets :
        <<g, i>> \in Cells /\ <<g, i>>[1] = g /\ <<g, i>>[2] = i
  BY CellFacts
<1>5. PICK v \in [Octets -> Bytes] :
        /\ ram' = With(ram, "ip", v)
        /\ IF \A i \in TestedOctets : v[i] # "zero"
             THEN Starts("NET", "udp", BytesOf("ip"))
             ELSE UNCHANGED job
  BY DEF ChangeAddress
<1>6. \A g \in Groups, i \in Octets :
        ram'[<<g, i>>] = IF g = "ip" THEN v[i] ELSE ram[<<g, i>>]
  BY <1>3, <1>4, <1>5 DEF With
<1>7. CASE \A i \in TestedOctets : v[i] # "zero"
  <2>1. job' = [job EXCEPT !["NET"] = Job("udp", BytesOf("ip"))]
    BY <1>5, <1>7 DEF Starts
  <2>2. /\ BytesOf("ip") \in Seq(Cells)
        /\ Range(BytesOf("ip")) = {c \in Cells : c[1] = "ip"}
    BY BytesFacts DEF AllGroups
  <2>3. ASSUME NEW g \in Groups
        PROVE  \/ \A i \in Octets : <<g, i>> \notin Range(BytesOf("ip"))
                                    /\ ram'[<<g, i>>] = ram[<<g, i>>]
               \/ \A i \in Octets : <<g, i>> \in Range(BytesOf("ip"))
    BY <1>4, <1>6, <2>2
  <2> QED BY <1>1, <1>2, <2>1, <2>2, <2>3, BeginInv DEF Kinds
<1>8. CASE \E i \in TestedOctets : v[i] = "zero"
  <2>1. job' = job
    BY <1>5, <1>8
  <2>2. Worker' = Worker
    BY <1>1, WorkerFacts
  <2>3. ASSUME NEW g \in Groups
        PROVE  (Stored(g) \/ Refused(g))'
    <3>1. CASE g = "ip"
      BY <1>6, <1>8, <3>1 DEF Refused, TestedOctets, Octets
    <3>2. CASE g # "ip"
      <4>1. Stored(g)
        BY <1>1, <3>2 DEF IInv, RunInv, Refused
      <4> QED BY <1>1, <1>6, <3>2, <4>1 DEF Stored, Of
    <3> QED BY <3>1, <3>2
  <2>4. OneWorker' /\ CallInv'
    <3>1. call["NET"] = Bus!NoCall
      BY <1>1, JobFacts, Idle DEF IInv
    <3> QED BY <1>1, <2>1, <2>2, <3>1 DEF IInv, OneWorker, CallInv
  <2>5. RunInv' /\ BootInv'
    BY <1>1, <2>1, <2>2, <2>3, JobFacts DEF RunInv, BootInv, Requests
  <2> QED BY <1>2, <2>4, <2>5 DEF IInv
<1> QED BY <1>7, <1>8

LEMMA RequestDoneInv ==
  ASSUME IInv, NEW t \in Tasks, RequestDone(t)
  PROVE  IInv'
<1>1. /\ job[t] # NoJob /\ job[t].left = <<>>
      /\ job[t].kind \in Requests \union {"erase"}
  BY JobFacts DEF RequestDone, Storing, Requests
<1>2. t = Worker
  BY <1>1, Busy
<1>3. /\ phase' = phase /\ Worker' = Worker /\ call' = call /\ ee' = ee
      /\ ram' = ram
  BY WorkerFacts DEF RequestDone, bus
<1>4. phase = "run"
  BY <1>1, <1>2 DEF IInv, BootInv, Requests, TypeInv, TypeOK
<1>5. call[t] = Bus!NoCall
  BY <1>1, Idle DEF IInv
<1>6. /\ job'[t] = IF job[t].kind = "erase" THEN InitJob ELSE NoJob
      /\ \A u \in Tasks : u # t => job'[u] = job[u]
  BY DEF RequestDone, IInv, TypeInv, TypeOK
<1>7. TypeInv'
  BY RequestDoneTypeInv DEF IInv
<1>8. OneWorker'
  BY <1>2, <1>3, <1>6, OneWorkerKept
<1>9. CallInv' /\ BootInv'
  BY <1>2, <1>3, <1>4, <1>5 DEF CallInv, BootInv
<1>10. RunInv'
  <2>1. CASE job[t].kind = "erase"
    BY <1>2, <1>3, <1>6, <2>1, JobFacts DEF RunInv, Requests
  <2>2. ASSUME job[t].kind \in Requests, NEW g \in Groups
        PROVE  (Stored(g) \/ Refused(g))'
    <3>1. \A i \in Octets : ~InLeft(<<g, i>>)
      BY <1>1, <1>2, RangeShort DEF InLeft
    <3>2. Stored(g) \/ Refused(g)
      BY <1>2, <1>4, <2>2, <3>1 DEF IInv, RunInv, Fine, Stored, Of
    <3> QED BY <1>3, <3>2 DEF Stored, Refused, Of, TestedOctets
  <2>3. CASE job[t].kind \in Requests
    <3>1. job'[Worker'] = NoJob
      BY <1>2, <1>3, <1>6, <2>3 DEF Requests
    <3> QED BY <2>2, <2>3, <3>1, JobFacts DEF RunInv, Requests
  <2> QED BY <1>1, <2>1, <2>3
<1> QED BY <1>7, <1>8, <1>9, <1>10 DEF IInv

LEMMA NextInv ==
  ASSUME IInv, OneWriter, [Next]_vars
  PROVE  IInv'
<1>1. TypeInv'
  BY NextTypeInv DEF IInv
<1>2. CASE UNCHANGED vars
  BY <1>1, <1>2, NothingInv DEF vars, bus
<1>3. ASSUME NEW t \in Tasks, Working(t)
      PROVE  IInv'
  BY <1>3, StoreByteInv, SendByteInv, ByteStoredInv, ReadGroupInv,
     LoadGroupInv, RequestDoneInv, RebootInv
  DEF Working, ResetDone
<1>4. ASSUME NEW t \in Tasks, Request(t)
      PROVE  IInv'
  BY <1>4, RequestInv
<1>5. CASE ChangeAddress
  BY <1>5, ChangeAddressInv
<1>6. CASE BootDone
  BY <1>6, BootDoneInv
<1>7. CASE Loop
  <2>1. CASE Reboot
    BY <2>1, RebootInv
  <2>2. CASE ~Reboot
    BY <1>1, <1>7, <2>2, NothingInv DEF Loop, PollNothing, CountPass, bus
  <2> QED BY <2>1, <2>2
<1>8. CASE PowerFail
  BY <1>8, RebootInv DEF PowerFail
<1> QED BY <1>2, <1>3, <1>4, <1>5, <1>6, <1>7, <1>8 DEF Next

LEMMA InitInv == Init => IInv
<1> SUFFICES ASSUME Init PROVE IInv
  OBVIOUS
<1>1. /\ TypeInv /\ phase = "boot" /\ "main" \in Tasks
      /\ call = [t \in Tasks |-> Bus!NoCall]
      /\ job = [t \in Tasks |-> IF t = "main" THEN InitJob ELSE NoJob]
  BY InitTypeInv DEF Init, Bus!BusInit, Tasks
<1>2. Worker = "main" /\ job["main"] = InitJob /\ call["main"] = Bus!NoCall
  BY <1>1 DEF Worker
<1>3. OneWorker /\ CallInv /\ RunInv
  BY <1>1, <1>2 DEF OneWorker, CallInv, RunInv
<1>4. BootInv
  BY <1>2, JobFacts, OrderFacts DEF BootInv, InTodo
<1> QED BY <1>1, <1>3, <1>4 DEF IInv

(* If all masters write through one task, what a master reads back between *)
(* two requests is what the next restart loads, unless it is 255 in every  *)
(* byte or an address that UDP discovery refused, wherever power failed in *)
(* boot, in a commit or in an erase (main.c:346-464; modbus.c:523-611;     *)
(* udp_scan.c:169-217).                                                    *)
THEOREM ServedIsStored ==
  ASSUME OneWriter
  PROVE  Spec => []StoredIsServed
<1>1. IInv /\ [Next]_vars => IInv'
  BY NextInv
<1>2. IInv => StoredIsServed
  <2> SUFFICES ASSUME IInv, AtRest, NEW g \in Groups
               PROVE  Of(ram, g) = Loaded(g) \/ TakenForBlank(g) \/ Refused(g)
    BY DEF StoredIsServed
  <2>1. Stored(g) \/ Refused(g)
    BY WorkerFacts DEF IInv, RunInv, AtRest
  <2> QED BY <2>1 DEF Stored, Loaded, TakenForBlank
<1> QED BY <1>1, <1>2, InitInv, PTL DEF Spec
=============================================================================
