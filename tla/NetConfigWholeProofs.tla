------------------------- MODULE NetConfigWholeProofs -------------------------
(***************************************************************************)
(* NeverTorn for any groups, bytes and count of passes, as long as masters *)
(* write over the network alone: NET then executes every request and also  *)
(* counts down to the reset, which therefore finds no request half done.   *)
(***************************************************************************)
EXTENDS NetConfigWhole, NetConfigProofs

NetworkAlone == Masters \subseteq {"tcp", "udp"}

(* What a restart would serve. *)
Restored(g) == IF Of(ee, g) = Blank THEN Default ELSE Of(ee, g)
Held(g) == Restored(g) \in promised[g]

(* What RAM holds once the request has stored its last byte. *)
Wanted(c) ==
  IF job[Worker].kind = "commit" /\ c[1] = "ip" /\ InLeft(c)
    THEN ghost[c] ELSE ram[c]
Want(g) == [i \in Octets |-> Wanted(<<g, i>>)]

PromisedInv ==
  \A g \in Groups : promised[g] \subseteq Values /\ Default \in promised[g]

(* A request leaves what was asked for, in RAM and in EEPROM.              *)
WantInv ==
  phase = "run" /\ job[Worker].kind \in Requests \union {"none"} =>
    \A g \in Groups :
      /\ Want(g) \in promised[g]
      /\ \/ Held(g)
         \/ \A i \in Octets : InLeft(<<g, i>>) \/ ee[<<g, i>>] = ram[<<g, i>>]

(* An erase leaves nothing. *)
EraseInv ==
  job[Worker].kind = "erase" =>
    /\ \A c \in Cells : InLeft(c) \/ ee[c] = "ff"
    /\ call[Worker] # Bus!NoCall => call[Worker].data = "ff"

(* EEP_Dat_Init serves what was stored, or stores the default. *)
LoadInv ==
  LET j == job[Worker]  g == Head(j.todo) IN
  j.kind = "init" =>
    /\ \A h \in Groups : Held(h) \/ (j.temp # <<>> /\ h = g)
    /\ phase = "boot" => \A h \in Groups : InTodo(h) \/ Of(ram, h) \in promised[h]
    /\ j.temp # <<>> =>
         /\ j.temp \in promised[g]
         /\ \A c \in Cells : InLeft(c) => c[1] = g
         /\ \/ \A i \in Octets : InLeft(<<g, i>>) \/ ee[<<g, i>>] = j.temp[i]
            \/ j.left = <<>> /\ Held(g)

(* A byte of a commit is copied before it is stored. *)
CopyInv ==
  LET c == call[Worker] IN
  c # Bus!NoCall /\ job[Worker].kind = "commit" /\ c.addr[1] = "ip"
    => ram[c.addr] = ghost[c.addr]

PInv == PromisedInv /\ WantInv /\ EraseInv /\ LoadInv /\ CopyInv

-----------------------------------------------------------------------------
LEMMA NetworkIsOne ==
  ASSUME NetworkAlone
  PROVE  OneWriter /\ (phase = "run" => Worker = "NET")
BY DEF NetworkAlone, OneWriter, Worker

LEMMA HeldKept ==
  ASSUME NEW g, ee' = ee, promised' = promised
  PROVE  Held(g)' = Held(g)
BY DEF Held, Restored, Of

(* A group whose bytes were promised is restored as promised. *)
LEMMA HeldIf ==
  ASSUME NEW g \in Groups, PromisedInv, NEW v \in promised[g],
         \A i \in Octets : ee[<<g, i>>] = v[i]
  PROVE  Held(g)
<1>1. v \in Values /\ Default \in promised[g]
  BY DEF PromisedInv
<1>2. Of(ee, g) = v
  BY <1>1 DEF Of, Values
<1> QED BY <1>1, <1>2 DEF Held, Restored

LEMMA HeldIfNext ==
  ASSUME NEW g \in Groups, PromisedInv', NEW v \in promised'[g],
         \A i \in Octets : ee'[<<g, i>>] = v[i]
  PROVE  Held(g)'
<1>1. v \in Values /\ Default \in promised'[g]
  BY DEF PromisedInv
<1>2. Of(ee', g) = v
  BY <1>1 DEF Of, Values
<1> QED BY <1>1, <1>2 DEF Held, Restored, Of

(* Between requests both RAM and EEPROM hold what was promised. *)
LEMMA RestHeld ==
  ASSUME IInv, PInv, phase = "run", job[Worker] = NoJob, NEW g \in Groups
  PROVE  /\ Held(g) /\ Of(ram, g) \in promised[g]
         /\ Want(g) = Of(ram, g)
<1>1. job[Worker].kind = "none" /\ \A c \in Cells : ~InLeft(c)
  BY JobFacts, RangeShort DEF InLeft
<1>2. Want(g) \in promised[g]
  BY <1>1 DEF PInv, WantInv
<1>3. Want(g) = Of(ram, g)
  BY <1>1 DEF Want, Wanted, Of
<1>4. CASE \A i \in Octets : InLeft(<<g, i>>) \/ ee[<<g, i>>] = ram[<<g, i>>]
  <2>1. \A i \in Octets : ee[<<g, i>>] = Of(ram, g)[i]
    BY <1>1, <1>4, CellFacts DEF Of
  <2> QED BY <1>2, <1>3, <2>1, HeldIf DEF PInv
<1> QED BY <1>1, <1>2, <1>3, <1>4 DEF PInv, WantInv

LEMMA StoreBytePromise ==
  ASSUME IInv, PInv, NEW t \in Tasks, StoreByte(t), promised' = promised
  PROVE  PInv'
<1> DEFINE c == Head(job[t].left)
           d == CASE job[t].kind = "erase" -> "ff"
                  [] job[t].kind = "init"  -> job[t].temp[c[2]]
                  [] OTHER                 -> ram'[c]
<1>1. t = Worker
  BY Busy, JobFacts DEF StoreByte, Storing
<1>2. /\ phase' = phase /\ Worker' = Worker /\ job' = job /\ ee' = ee
      /\ ghost' = ghost /\ job[t].left # <<>>
  BY WorkerFacts DEF StoreByte, Storing, Bus!Open
<1>3. /\ job[t] \in Jobs /\ job[t].left \in Seq(Cells)
      /\ call \in [Tasks -> Bus!Calls] /\ ram \in [Cells -> Contents]
  BY DEF IInv, TypeInv, TypeOK, Jobs, Bus!BusTypeOK
<1>4. c \in Cells /\ c \in Range(job[t].left)
  BY <1>2, <1>3, RangeTail
<1>5. call' = [call EXCEPT ![t] = [at |-> "opened", addr |-> c, data |-> d]]
  BY DEF StoreByte, Bus!Open
<1>6. /\ \A x \in Cells : x # c => ram'[x] = ram[x]
      /\ job[t].kind = "init" => ram' = ram
      /\ job[t].kind = "commit" /\ c[1] = "ip" => ram'[c] = ghost[c]
      /\ ~(job[t].kind = "commit" /\ c[1] = "ip") => ram' = ram
  BY <1>3, <1>4 DEF StoreByte
<1>7. job[t].kind = "erase" => d = "ff"
  OBVIOUS
<1> HIDE DEF c, d
<1>8. call'[Worker] = [at |-> "opened", addr |-> c, data |-> d]
  BY <1>1, <1>3, <1>5
<1>9. \A g \in Groups : Held(g)' = Held(g)
  BY <1>2, HeldKept
<1>10. \A x \in Cells : InLeft(x)' = InLeft(x)
  BY <1>2 DEF InLeft
<1>11. \A g \in Groups, i \in Octets : <<g, i>> \in Cells
  BY CellFacts
<1>12. WantInv'
  <2> SUFFICES ASSUME phase = "run", job[t].kind \in Requests \union {"none"},
                      NEW g \in Groups
               PROVE  /\ Want(g)' \in promised[g]
                      /\ \/ Held(g)
                         \/ \A i \in Octets : InLeft(<<g, i>>) \/ ee[<<g, i>>] = ram'[<<g, i>>]
    BY <1>1, <1>2, <1>9, <1>10, <1>11 DEF WantInv
  <2>1. \A x \in Cells : Wanted(x)' = Wanted(x)
    BY <1>1, <1>2, <1>4, <1>6, <1>10 DEF Wanted, InLeft
  <2>2. Want(g)' = Want(g)
    BY <1>11, <2>1 DEF Want
  <2>3. \A i \in Octets : InLeft(<<g, i>>) \/ ram'[<<g, i>>] = ram[<<g, i>>]
    BY <1>1, <1>4, <1>6, <1>11 DEF InLeft
  <2> QED BY <1>1, <2>2, <2>3 DEF PInv, WantInv
<1>13. EraseInv'
  BY <1>1, <1>2, <1>7, <1>8, <1>10 DEF PInv, EraseInv
<1>14. LoadInv'
  BY <1>1, <1>2, <1>6, <1>9, <1>10 DEF PInv, LoadInv, InLeft, InTodo, Of, Held, Restored
<1>15. CopyInv'
  BY <1>1, <1>2, <1>6, <1>8 DEF CopyInv
<1>16. PromisedInv'
  BY DEF PInv, PromisedInv
<1> QED BY <1>12, <1>13, <1>14, <1>15, <1>16 DEF PInv

LEMMA SendBytePromise ==
  ASSUME IInv, PInv, NEW t \in Tasks, SendByte(t), promised' = promised
  PROVE  PInv'
<1> DEFINE c == call[t].addr
           d == call[t].data
<1>1. call[t] # Bus!NoCall /\ call[t].at = "opened"
  BY DEF SendByte, Bus!Send, Bus!NoCall
<1>2. t = Worker
  BY <1>1, Busy
<1>3. /\ phase' = phase /\ Worker' = Worker /\ job' = job /\ ram' = ram
      /\ ghost' = ghost
  BY WorkerFacts DEF SendByte
<1>4. /\ job[t] \in Jobs /\ job[t].left \in Seq(Cells)
      /\ call \in [Tasks -> Bus!Calls] /\ ee \in [Cells -> Contents]
  BY DEF IInv, TypeInv, TypeOK, Jobs, Bus!BusTypeOK
<1>5. call[t] \in [at : {"opened", "sent"}, addr : Cells, data : Contents]
  BY <1>1, <1>4 DEF Bus!Calls
<1>6. /\ job[t].left # <<>> /\ c = Head(job[t].left)
      /\ c \in Cells /\ c \in Range(job[t].left)
  BY <1>1, <1>4, RangeTail DEF IInv, TypeInv, JobInv
<1>7. ee' = [ee EXCEPT ![c] = d]
  <2>1. wp = "open"
    BY <1>1, <1>2 DEF IInv, CallInv
  <2>2. ~Bus!Programming(t)
    BY <1>2 DEF IInv, OneWorker, Bus!Programming, Bus!NoCall
  <2> QED BY <2>1, <2>2 DEF SendByte, Bus!Send
<1>8. /\ call'[t].at = "sent" /\ call'[t].addr = c /\ call'[t].data = d
  BY <1>4, <1>5 DEF SendByte, Bus!Send
<1>9. /\ job[t].kind = "init" => d = job[t].temp[c[2]]
      /\ job[t].kind \in Requests => d = ram[c]
      /\ job[t].kind = "erase" => d = "ff"
  BY <1>1, <1>2, <1>6 DEF IInv, CallInv, PInv, EraseInv
<1> HIDE DEF c, d
<1>10. ee'[c] = d /\ \A x \in Cells : x # c => ee'[x] = ee[x]
  BY <1>4, <1>6, <1>7
<1>11. InLeft(c) /\ \A x \in Cells : InLeft(x)' = InLeft(x)
  BY <1>2, <1>3, <1>6 DEF InLeft
<1>12. \A g \in Groups, i \in Octets :
         <<g, i>> \in Cells /\ <<g, i>>[1] = g /\ <<g, i>>[2] = i
  BY CellFacts
<1>13. ASSUME NEW g \in Groups, g # c[1]
       PROVE  Held(g)' = Held(g)
  <2>1. \A i \in Octets : ee'[<<g, i>>] = ee[<<g, i>>]
    <3> SUFFICES ASSUME NEW i \in Octets PROVE <<g, i>> # c
      BY <1>10, <1>12
    <3> QED BY <1>12, <1>13
  <2>2. Of(ee', g) = Of(ee, g)
    BY <2>1 DEF Of
  <2> QED BY <2>2 DEF Held, Restored, Of
<1>14. c = <<c[1], c[2]>> /\ c[1] \in Groups /\ c[2] \in Octets
  BY <1>6, CellFacts
<1>15. WantInv'
  <2> SUFFICES ASSUME phase = "run", job[t].kind \in Requests \union {"none"},
                      NEW g \in Groups
               PROVE  /\ Want(g)' \in promised[g]
                      /\ \/ Held(g)'
                         \/ \A i \in Octets : InLeft(<<g, i>>) \/ ee'[<<g, i>>] = ram[<<g, i>>]
    BY <1>2, <1>3, <1>11, <1>12 DEF WantInv
  <2>1. Want(g)' = Want(g) /\ Want(g) \in promised[g]
    BY <1>2, <1>3, <1>11, <1>12 DEF Want, Wanted, PInv, WantInv
  <2>2. \/ Held(g)
        \/ \A i \in Octets : InLeft(<<g, i>>) \/ ee[<<g, i>>] = ram[<<g, i>>]
    BY <1>2 DEF PInv, WantInv
  <2>3. CASE g = c[1]
    <3>1. job[t].kind \in Requests
      BY <1>2, <1>6, JobFacts DEF IInv, RunInv
    <3>2. Fine(g)
      BY <1>2, <3>1 DEF IInv, RunInv
    <3>3. \A i \in Octets : InLeft(<<g, i>>) \/ ee[<<g, i>>] = ram[<<g, i>>]
      BY <1>11, <1>14, <2>3, <3>2 DEF Fine
    <3> QED BY <1>10, <1>11, <1>12, <2>1, <3>3
  <2>4. CASE g # c[1]
    <3>1. \A i \in Octets : ee'[<<g, i>>] = ee[<<g, i>>]
      <4> SUFFICES ASSUME NEW i \in Octets PROVE <<g, i>> # c
        BY <1>10, <1>12
      <4> QED BY <1>12, <2>4
    <3> QED BY <1>13, <2>1, <2>2, <2>4, <3>1
  <2> QED BY <2>3, <2>4
<1>16. EraseInv'
  BY <1>2, <1>3, <1>6, <1>8, <1>9, <1>10, <1>11 DEF PInv, EraseInv
<1>17. LoadInv'
  <2> SUFFICES ASSUME job[t].kind = "init" PROVE LoadInv'
    BY <1>2, <1>3 DEF LoadInv
  <2>1. job[t].temp # <<>> /\ job[t].todo # <<>>
    BY <1>6 DEF IInv, TypeInv, JobInv
  <2>2. PICK g \in Groups : g = Head(job[t].todo)
    BY <1>4, <2>1, RangeTail DEF Jobs
  <2>3. /\ c[1] = g /\ \A x \in Cells : InLeft(x) => x[1] = g
        /\ job[t].temp \in promised[g]
        /\ \A i \in Octets : InLeft(<<g, i>>) \/ ee[<<g, i>>] = job[t].temp[i]
    BY <1>2, <1>6, <1>11, <2>1, <2>2 DEF PInv, LoadInv
  <2>4. \A h \in Groups : Held(h)' \/ h = g
    BY <1>2, <1>13, <2>2, <2>3 DEF PInv, LoadInv
  <2>5. \A i \in Octets : InLeft(<<g, i>>) \/ ee'[<<g, i>>] = job[t].temp[i]
    BY <1>10, <1>11, <1>12, <2>3
  <2>6. phase = "boot" => \A h \in Groups : InTodo(h)' \/ Of(ram', h) \in promised[h]
    BY <1>2, <1>3 DEF PInv, LoadInv, InTodo
  <2>7. /\ job'[Worker'] = job[t] /\ Head(job'[Worker'].todo) = g
    BY <1>2, <1>3, <2>2
  <2> QED BY <1>3, <1>11, <1>12, <2>1, <2>3, <2>4, <2>5, <2>6, <2>7
          DEF LoadInv, Of
<1>18. CopyInv'
  BY <1>1, <1>2, <1>3, <1>8 DEF PInv, CopyInv, c
<1>19. PromisedInv'
  BY DEF PInv, PromisedInv
<1> QED BY <1>15, <1>16, <1>17, <1>18, <1>19 DEF PInv
LEMMA ByteStoredPromise ==
  ASSUME IInv, PInv, NEW t \in Tasks, ByteStored(t), promised' = promised
  PROVE  PInv'
<1> DEFINE c == Head(job[t].left)
           rest == Tail(job[t].left)
<1>1. call[t] # Bus!NoCall /\ call[t].at = "sent"
  BY DEF ByteStored, Bus!Return, Bus!NoCall
<1>2. t = Worker
  BY <1>1, Busy
<1>3. /\ phase' = phase /\ Worker' = Worker /\ ram' = ram /\ ee' = ee
      /\ ghost' = ghost
  BY WorkerFacts DEF ByteStored, Bus!Return
<1>4. /\ job \in [Tasks -> Jobs] /\ job[t] \in Jobs /\ job[t].left \in Seq(Cells)
      /\ call \in [Tasks -> Bus!Calls]
  BY DEF IInv, TypeInv, TypeOK, Jobs, Bus!BusTypeOK
<1>5. job[t].left # <<>> /\ call[t].addr = c
  BY <1>1 DEF IInv, TypeInv, JobInv
<1>6. c \in Cells /\ Range(job[t].left) = {c} \union Range(rest)
  BY <1>4, <1>5, RangeTail
<1>7. /\ job'[t].left = rest
      /\ job'[t].kind = job[t].kind /\ job'[t].temp = job[t].temp
      /\ job'[t].todo = job[t].todo
  BY <1>4 DEF ByteStored, Jobs
<1>8. call'[t] = Bus!NoCall
  BY <1>4 DEF ByteStored, Bus!Return
<1>9. ee[c] = call[t].data
  BY <1>1, <1>2, <1>5 DEF IInv, CallInv
<1>10. /\ job[t].kind \in Requests => ee[c] = ram[c]
       /\ job[t].kind = "init" => ee[c] = job[t].temp[c[2]]
       /\ job[t].kind = "erase" => ee[c] = "ff"
       /\ job[t].kind = "commit" /\ c[1] = "ip" => ram[c] = ghost[c]
  BY <1>1, <1>2, <1>5, <1>9 DEF IInv, CallInv, PInv, EraseInv, CopyInv
<1> HIDE DEF rest, c
<1>11. /\ \A x \in Cells : InLeft(x) => x = c \/ InLeft(x)'
       /\ \A x \in Cells : InLeft(x)' => InLeft(x)
  BY <1>2, <1>3, <1>6, <1>7 DEF InLeft
<1>12. \A g \in Groups, i \in Octets :
         <<g, i>> \in Cells /\ <<g, i>>[1] = g /\ <<g, i>>[2] = i
  BY CellFacts
<1>13. \A g \in Groups : Held(g)' = Held(g)
  BY <1>3, HeldKept
<1>14. WantInv'
  <2> SUFFICES ASSUME phase = "run", job[t].kind \in Requests \union {"none"},
                      NEW g \in Groups
               PROVE  /\ Want(g)' \in promised[g]
                      /\ \/ Held(g)
                         \/ \A i \in Octets : InLeft(<<g, i>>)' \/ ee[<<g, i>>] = ram[<<g, i>>]
    BY <1>2, <1>3, <1>7, <1>13 DEF WantInv
  <2>1. job[t].kind \in Requests
    BY <1>2, <1>5, JobFacts DEF IInv, RunInv
  <2>2. \A x \in Cells : Wanted(x)' = Wanted(x)
    BY <1>2, <1>3, <1>7, <1>10, <1>11 DEF Wanted
  <2>3. Want(g)' = Want(g)
    BY <1>12, <2>2 DEF Want
  <2> QED BY <1>2, <1>10, <1>11, <1>12, <2>1, <2>3 DEF PInv, WantInv
<1>15. EraseInv'
  BY <1>2, <1>3, <1>7, <1>8, <1>10, <1>11 DEF PInv, EraseInv
<1>16. LoadInv'
  <2> SUFFICES ASSUME job[t].kind = "init" PROVE LoadInv'
    BY <1>2, <1>3, <1>7 DEF LoadInv
  <2>1. job[t].temp # <<>> /\ job[t].todo # <<>>
    BY <1>5 DEF IInv, TypeInv, JobInv
  <2>2. PICK g \in Groups : g = Head(job[t].todo)
    BY <1>4, <2>1, RangeTail DEF Jobs
  <2>3. /\ \A x \in Cells : InLeft(x) => x[1] = g
        /\ job[t].temp \in promised[g]
        /\ \A i \in Octets : InLeft(<<g, i>>) \/ ee[<<g, i>>] = job[t].temp[i]
        /\ \A h \in Groups : Held(h) \/ h = g
    BY <1>2, <1>5, <2>1, <2>2 DEF PInv, LoadInv
  <2>4. \A i \in Octets : InLeft(<<g, i>>)' \/ ee[<<g, i>>] = job[t].temp[i]
    <3> SUFFICES ASSUME NEW i \in Octets, ~InLeft(<<g, i>>)'
                 PROVE  ee[<<g, i>>] = job[t].temp[i]
      OBVIOUS
    <3>1. CASE <<g, i>> = c
      <4>1. c[2] = i
        BY <3>1
      <4> QED BY <1>10, <3>1, <4>1
    <3>2. CASE <<g, i>> # c
      BY <1>11, <1>12, <2>3, <3>2
    <3> QED BY <3>1, <3>2
  <2>5. phase = "boot" => \A h \in Groups : InTodo(h)' \/ Of(ram, h) \in promised[h]
    BY <1>2, <1>3, <1>7 DEF PInv, LoadInv, InTodo
  <2>6. /\ job'[Worker'].temp = job[t].temp /\ Head(job'[Worker'].todo) = g
        /\ job'[Worker'].kind = "init"
    BY <1>2, <1>3, <1>7, <2>2
  <2> QED BY <1>3, <1>11, <1>13, <2>1, <2>3, <2>4, <2>5, <2>6 DEF LoadInv
<1>17. CopyInv'
  BY <1>2, <1>3, <1>8 DEF CopyInv
<1>18. PromisedInv'
  BY DEF PInv, PromisedInv
<1> QED BY <1>14, <1>15, <1>16, <1>17, <1>18 DEF PInv

LEMMA ReadGroupPromise ==
  ASSUME IInv, PInv, NEW t \in Tasks, ReadGroup(t), promised' = promised
  PROVE  PInv'
<1>1. t = Worker
  BY Busy, JobFacts DEF ReadGroup, Loading
<1>2. /\ phase' = phase /\ Worker' = Worker /\ ram' = ram /\ ee' = ee
      /\ call' = call
  BY WorkerFacts DEF ReadGroup, bus
<1>3. /\ job \in [Tasks -> Jobs] /\ job[t].todo \in Seq(Groups)
      /\ job[t].todo # <<>> /\ job[t].left = <<>> /\ job[t].kind = "init"
      /\ job[t].temp = <<>>
  BY DEF IInv, TypeInv, TypeOK, Jobs, ReadGroup, Loading, Storing
<1>4. PICK g \in Groups : g = Head(job[t].todo)
  BY <1>3, RangeTail
<1>5. PICK v \in Values :
        /\ \A i \in Octets : v[i] \in Bus!Readings(t, <<g, i>>)
        /\ job' = [job EXCEPT
             ![t].temp = IF Defaulted(g, v) THEN Default ELSE v,
             ![t].left = IF Defaulted(g, v) /\ g # "port" THEN BytesOf(g) ELSE <<>>]
  BY <1>4 DEF ReadGroup
<1>6. \A i \in Octets : v[i] = ee[<<g, i>>]
  <2>1. ~Bus!Programming(t)
    BY <1>1 DEF IInv, OneWorker, Bus!Programming, Bus!NoCall
  <2> QED BY <1>5, <2>1 DEF Bus!Readings
<1>7. /\ job'[t].kind = "init" /\ job'[t].todo = job[t].todo
      /\ job'[t].temp = IF Defaulted(g, v) THEN Default ELSE v
      /\ job'[t].left = IF Defaulted(g, v) /\ g # "port" THEN BytesOf(g) ELSE <<>>
  BY <1>3, <1>5 DEF Jobs
<1>8. \A h \in Groups : Held(h) /\ Held(h)' = Held(h)
  BY <1>1, <1>2, <1>3, HeldKept DEF PInv, LoadInv
<1>9. Of(ee, g) = v
  BY <1>6 DEF Of, Values
<1>10. job'[t].temp \in promised[g]
  <2>1. Default \in promised[g]
    BY DEF PInv, PromisedInv
  <2> QED BY <1>7, <1>8, <1>9, <2>1 DEF Held, Restored, Defaulted
<1>11. /\ \A x \in Cells : InLeft(x)' <=> x \in Range(job'[t].left)
       /\ \A i \in Octets : <<g, i>> \in Cells /\ <<g, i>>[1] = g
  BY <1>1, <1>2, CellFacts DEF InLeft
<1>12. /\ \A x \in Cells : InLeft(x)' => x[1] = g
       /\ \/ \A i \in Octets : InLeft(<<g, i>>)' \/ ee[<<g, i>>] = job'[t].temp[i]
          \/ job'[t].left = <<>>
  <2>1. CASE Defaulted(g, v) /\ g # "port"
    <3>1. Range(job'[t].left) = {x \in Cells : x[1] = g}
      BY <1>7, <2>1, BytesFacts, CellFacts
    <3> QED BY <1>11, <3>1
  <2>2. CASE ~(Defaulted(g, v) /\ g # "port")
    <3>1. job'[t].left = <<>>
      BY <1>7, <2>2
    <3> QED BY <1>11, <3>1, RangeShort
  <2> QED BY <2>1, <2>2
<1>13. LoadInv'
  <2>1. /\ job'[Worker'] = job'[t] /\ Head(job'[t].todo) = g
    BY <1>1, <1>2, <1>4, <1>7
  <2>2. phase = "boot" => \A h \in Groups : InTodo(h)' \/ Of(ram, h) \in promised[h]
    BY <1>1, <1>2, <1>3, <1>7 DEF PInv, LoadInv, InTodo
  <2> QED BY <1>2, <1>7, <1>8, <1>10, <1>12, <2>1, <2>2 DEF LoadInv
<1>14. WantInv' /\ EraseInv' /\ CopyInv'
  BY <1>1, <1>2, <1>7 DEF WantInv, EraseInv, CopyInv, Requests
<1>15. PromisedInv'
  BY DEF PInv, PromisedInv
<1> QED BY <1>13, <1>14, <1>15 DEF PInv

LEMMA LoadGroupPromise ==
  ASSUME IInv, PInv, NEW t \in Tasks, LoadGroup(t), promised' = promised
  PROVE  PInv'
<1>1. t = Worker
  BY Busy, JobFacts DEF LoadGroup, Loading
<1>2. /\ phase' = phase /\ Worker' = Worker /\ ee' = ee /\ call' = call
  BY WorkerFacts DEF LoadGroup, bus
<1>3. /\ job \in [Tasks -> Jobs] /\ job[t].todo \in Seq(Groups)
      /\ job[t].todo # <<>> /\ job[t].left = <<>> /\ job[t].kind = "init"
      /\ job[t].temp # <<>> /\ job[t].temp \in Values
      /\ ram \in [Cells -> Contents]
  BY DEF IInv, TypeInv, TypeOK, JobInv, Jobs, LoadGroup, Loading, Storing
<1>4. PICK g \in Groups : g = Head(job[t].todo)
  BY <1>3, RangeTail
<1>5. /\ job'[t].kind = "init" /\ job'[t].left = <<>> /\ job'[t].temp = <<>>
      /\ job'[t].todo = Tail(job[t].todo)
  BY <1>3 DEF LoadGroup, Jobs
<1>6. job[t].temp \in promised[g]
  BY <1>1, <1>3, <1>4 DEF PInv, LoadInv
<1>7. \A h \in Groups : Held(h)
  <2>1. \A h \in Groups : Held(h) \/ h = g
    BY <1>1, <1>3, <1>4 DEF PInv, LoadInv
  <2>2. CASE \A i \in Octets : InLeft(<<g, i>>) \/ ee[<<g, i>>] = job[t].temp[i]
    <3>1. \A x \in Cells : ~InLeft(x)
      BY <1>1, <1>3, RangeShort DEF InLeft
    <3>2. \A i \in Octets : ee[<<g, i>>] = job[t].temp[i]
      BY <2>2, <3>1, CellFacts
    <3>3. Held(g)
      BY <1>6, <3>2, HeldIf DEF PInv
    <3> QED BY <2>1, <3>3
  <2> QED BY <1>1, <1>3, <1>4, <2>1, <2>2 DEF PInv, LoadInv
<1>8. \A h \in Groups : Held(h)'
  BY <1>2, <1>7, HeldKept
<1>9. ASSUME phase = "boot", NEW h \in Groups, ~InTodo(h)'
      PROVE  Of(ram', h) \in promised[h]
  <2>1. \A i \in Octets :
          ram'[<<h, i>>] = IF h = g THEN job[t].temp[i] ELSE ram[<<h, i>>]
    BY <1>3, <1>4, CellFacts DEF LoadGroup, With
  <2>2. CASE h = g
    <3>1. Of(ram', h) = job[t].temp
      BY <1>3, <2>1, <2>2 DEF Of, Values
    <3> QED BY <1>6, <2>2, <3>1
  <2>3. CASE h # g
    <3>1. ~InTodo(h)
      BY <1>1, <1>2, <1>3, <1>4, <1>5, <1>9, <2>3, RangeTail DEF InTodo
    <3>2. Of(ram, h) \in promised[h]
      BY <1>1, <1>3, <1>9, <3>1 DEF PInv, LoadInv
    <3>3. Of(ram', h) = Of(ram, h)
      BY <2>1, <2>3 DEF Of
    <3> QED BY <3>2, <3>3
  <2> QED BY <2>2, <2>3
<1>10. LoadInv'
  BY <1>1, <1>2, <1>5, <1>8, <1>9 DEF LoadInv, Of
<1>11. WantInv' /\ EraseInv' /\ CopyInv'
  BY <1>1, <1>2, <1>5 DEF WantInv, EraseInv, CopyInv, Requests
<1>12. PromisedInv'
  BY DEF PInv, PromisedInv
<1> QED BY <1>10, <1>11, <1>12 DEF PInv
(* The processor starts again: what is in EEPROM was promised. *)
LEMMA RebootPromise ==
  ASSUME Reboot, PromisedInv', \A g \in Groups : Held(g)'
  PROVE  PInv'
<1>1. /\ Worker' = "main" /\ phase' = "boot"
      /\ job'[Worker'] = InitJob /\ call'[Worker'] = Bus!NoCall
  BY DEF Reboot, Bus!BusRestart, Worker, Tasks
<1>2. \A g \in Groups : InTodo(g)'
  BY <1>1, JobFacts, OrderFacts DEF InTodo
<1>3. LoadInv'
  BY <1>1, <1>2, JobFacts DEF LoadInv
<1>4. WantInv' /\ EraseInv' /\ CopyInv'
  BY <1>1, JobFacts DEF WantInv, EraseInv, CopyInv
<1> QED BY <1>3, <1>4 DEF PInv

(* Asked for by NET's loop or by a request, a reset finds no request half  *)
(* done.                                                                   *)
LEMMA ResetPromise ==
  ASSUME IInv, PInv, NetworkAlone, promised' = promised,
         (Loop /\ Reboot) \/ \E t \in Tasks : ResetDone(t)
  PROVE  PInv'
<1>1. Reboot /\ ee' = ee
  BY DEF ResetDone, Reboot, Bus!BusRestart
<1>2. ASSUME NEW g \in Groups
      PROVE  Held(g)
  <2>1. CASE Loop /\ Reboot
    <3>1. phase = "run" /\ job["NET"] = NoJob
      BY <2>1 DEF Loop, PollNothing, CountPass
    <3> QED BY <3>1, NetworkIsOne, RestHeld
  <2>2. ASSUME NEW t \in Tasks, ResetDone(t)
        PROVE  Held(g)
    <3>1. job[t].kind = "init" /\ job[t].todo = <<>> /\ t = Worker
      BY <2>2, Busy, JobFacts DEF ResetDone, Loading
    <3>2. job[t].temp = <<>>
      BY <3>1 DEF IInv, TypeInv, JobInv
    <3> QED BY <3>1, <3>2 DEF PInv, LoadInv
  <2> QED BY <2>1, <2>2
<1>3. \A g \in Groups : Held(g)'
  BY <1>1, <1>2, HeldKept
<1> QED BY <1>1, <1>3, RebootPromise DEF PInv, PromisedInv

(* After a power failure any value is accepted. *)
LEMMA PowerFailPromise ==
  ASSUME IInv, PowerFail, promised' = [g \in Groups |-> Values]
  PROVE  PInv'
<1>1. PromisedInv'
  BY ValueFacts DEF PromisedInv
<1>2. ASSUME NEW g \in Groups
      PROVE  Held(g)'
  <2>1. ee \in [Cells -> Contents] /\ ee' = ee
    BY DEF IInv, TypeInv, TypeOK, Bus!BusTypeOK, PowerFail, Reboot, Bus!BusRestart
  <2>2. Of(ee, g) \in Values
    BY <2>1, CellFacts DEF Of, Values
  <2> QED BY <2>1, <2>2, ValueFacts DEF Held, Restored, Of
<1> QED BY <1>1, <1>2, RebootPromise DEF PowerFail

(* At rest, or at the start of a request that keeps what was promised.     *)
LEMMA AtRestPromise ==
  ASSUME IInv, PInv, phase = "run", phase' = "run", job[Worker] = NoJob,
         call' = call, PromisedInv',
         job'[Worker].kind \in Requests \union {"none"},
         \A g \in Groups : Held(g)' /\ Want(g)' \in promised'[g]
  PROVE  PInv'
<1>1. Worker' = Worker /\ Worker \in Tasks
  BY WorkerFacts
<1>2. call'[Worker] = Bus!NoCall
  BY <1>1, JobFacts, Idle DEF IInv
<1>3. WantInv'
  BY DEF WantInv
<1>4. EraseInv' /\ LoadInv' /\ CopyInv'
  BY <1>1, <1>2 DEF EraseInv, LoadInv, CopyInv, Requests
<1> QED BY <1>3, <1>4 DEF PInv

(* A request that promises: what it changes in RAM, now or byte by byte,   *)
(* is what was asked for.                                                  *)
LEMMA BeginPromise ==
  ASSUME IInv, PInv, phase = "run", phase' = "run", job[Worker] = NoJob,
         call' = call, ee' = ee,
         job'[Worker].kind \in Requests \union {"none"},
         NEW memory, Promise(memory),
         \A g \in Groups :
           IF <<g, 1>> \in DOMAIN memory
             THEN Want(g)' = Of(memory, g) /\ Of(memory, g) \in Values
             ELSE Want(g)' = Of(ram, g)
  PROVE  PInv'
<1>1. ASSUME NEW g \in Groups
      PROVE  /\ Held(g) /\ Of(ram, g) \in promised[g]
             /\ Of(ee, g) \in Values
  <2>1. ee \in [Cells -> Contents]
    BY DEF IInv, TypeInv, TypeOK, Bus!BusTypeOK
  <2>2. Of(ee, g) \in Values
    BY <2>1, CellFacts DEF Of, Values
  <2> QED BY <2>2, RestHeld
<1>2. ASSUME NEW g \in Groups
      PROVE  /\ promised'[g] \subseteq Values /\ Default \in promised'[g]
             /\ Held(g)' /\ Want(g)' \in promised'[g]
  <2>1. Held(g)' <=> Restored(g) \in promised'[g]
    BY DEF Held, Restored, Of
  <2>2. CASE <<g, 1>> \in DOMAIN memory /\ Of(memory, g) # Of(ram, g)
    <3>1. promised'[g] = {Default, Of(ee, g), Of(memory, g)}
      BY <2>2 DEF Promise
    <3>2. Restored(g) \in {Default, Of(ee, g)}
      BY DEF Restored
    <3> QED BY <1>1, <2>1, <2>2, <3>1, <3>2, ValueFacts
  <2>3. CASE ~(<<g, 1>> \in DOMAIN memory /\ Of(memory, g) # Of(ram, g))
    <3>1. promised'[g] = promised[g]
      BY <2>3 DEF Promise
    <3>2. Want(g)' = Of(ram, g)
      BY <2>3
    <3>3. Restored(g) \in promised[g]
      BY <1>1 DEF Held
    <3> QED BY <1>1, <2>1, <3>1, <3>2, <3>3 DEF PInv, PromisedInv
  <2> QED BY <2>2, <2>3
<1>3. PromisedInv'
  BY <1>2 DEF PromisedInv
<1> QED BY <1>2, <1>3, AtRestPromise

(* Requests that promise come to NET, between two others. *)
LEMMA TakenByNet ==
  ASSUME IInv, NetworkAlone, NEW t \in Tasks, Takes(t) \/ (ChangeAddress /\ t = "NET")
  PROVE  /\ t = "NET" /\ Worker = "NET" /\ phase = "run" /\ job["NET"] = NoJob
         /\ job \in [Tasks -> Jobs] /\ ram \in [Cells -> Contents]
         /\ ghost \in [Ghosts -> Contents]
<1>1. t = "NET" /\ phase = "run" /\ job["NET"] = NoJob
  BY DEF NetworkAlone, Takes, ChangeAddress
<1> QED BY <1>1, NetworkIsOne DEF IInv, TypeInv, TypeOK

LEMMA CommitPromise ==
  ASSUME IInv, PInv, NetworkAlone, NEW t \in Tasks, Commit(t), Promise(ghost)
  PROVE  PInv'
<1>1. /\ t = "NET" /\ Worker = "NET" /\ phase = "run" /\ job["NET"] = NoJob
      /\ job \in [Tasks -> Jobs] /\ ram \in [Cells -> Contents]
      /\ ghost \in [Ghosts -> Contents]
  BY TakenByNet DEF Commit
<1>2. /\ phase' = "run" /\ call' = call /\ ee' = ee /\ ghost' = ghost
      /\ Worker' = "NET"
  BY <1>1, WorkerFacts DEF Commit, bus
<1>3. job'["NET"].kind = "commit" /\ job'["NET"].left = CommitOrder
  BY <1>1, JobFacts, OrderFacts DEF Commit, Starts, Kinds
<1>4. \A g \in Groups, i \in Octets :
        /\ <<g, i>> \in Cells /\ <<g, i>>[1] = g
        /\ <<g, i>> \in Ghosts <=> g \in {"ip", "port"}
        /\ InLeft(<<g, i>>)' <=> g \in {"ip", "port"}
  BY <1>2, <1>3, CellFacts, OrderFacts DEF Ghosts, InLeft
<1>5. ASSUME NEW g \in Groups
      PROVE  IF <<g, 1>> \in DOMAIN ghost
               THEN Want(g)' = Of(ghost, g) /\ Of(ghost, g) \in Values
               ELSE Want(g)' = Of(ram, g)
  <2>1. \A i \in Octets :
          ram'[<<g, i>>] = IF g = "port" THEN ghost[<<g, i>>] ELSE ram[<<g, i>>]
    BY <1>4 DEF Commit
  <2>2. CASE g \notin {"ip", "port"}
    <3>1. Want(g)' = Of(ram, g)
      BY <1>2, <1>3, <1>4, <2>1, <2>2 DEF Want, Wanted, Of
    <3> QED BY <1>1, <1>4, <2>2, <3>1 DEF Octets
  <2>3. CASE g \in {"ip", "port"}
    <3>1. g = "ip" \/ g = "port"
      BY <2>3, CellFacts DEF AllGroups
    <3>2. \A i \in Octets : Wanted(<<g, i>>)' = ghost[<<g, i>>]
      BY <1>2, <1>3, <1>4, <2>1, <3>1 DEF Wanted
    <3>3. Want(g)' = Of(ghost, g)
      BY <3>2 DEF Want, Of
    <3>4. Of(ghost, g) \in Values
      BY <1>1, <1>4, <2>3 DEF Of, Values
    <3> QED BY <1>1, <1>4, <2>3, <3>3, <3>4 DEF Octets
  <2> QED BY <2>2, <2>3
<1> QED BY <1>1, <1>2, <1>3, <1>5, BeginPromise DEF Requests

(* The other requests change RAM at once. *)
LEMMA AtOncePromise ==
  ASSUME IInv, PInv, NetworkAlone, NEW t \in Tasks,
         WriteMac(t) \/ WriteMacByte(t) \/ (ChangeAddress /\ t = "NET"),
         Promise(ram')
  PROVE  PInv'
<1>1. /\ t = "NET" /\ Worker = "NET" /\ phase = "run" /\ job["NET"] = NoJob
      /\ job \in [Tasks -> Jobs]
  BY TakenByNet DEF WriteMac, WriteMacByte
<1>2. /\ phase' = "run" /\ call' = call /\ ee' = ee /\ Worker' = "NET"
  BY <1>1, WorkerFacts DEF WriteMac, WriteMacByte, ChangeAddress, bus
<1>3. job'["NET"].kind \in {"mac", "octet", "udp", "none"}
  <2>1. "mac" \in AllGroups /\ "ip" \in AllGroups
    BY DEF AllGroups
  <2>2. /\ BytesOf("mac") \in Seq(Cells) /\ BytesOf("ip") \in Seq(Cells)
        /\ \A c \in Cells : <<c>> \in Seq(Cells)
    BY <2>1, BytesFacts
  <2>3. CASE WriteMac(t)
    BY <1>1, <2>2, <2>3, JobFacts DEF WriteMac, Starts, Kinds
  <2>4. CASE WriteMacByte(t)
    <3>1. PICK c \in Cells : job' = [job EXCEPT !["NET"] = Job("octet", <<c>>)]
      BY <1>1, <2>4 DEF WriteMacByte, Starts
    <3>2. job'["NET"] = Job("octet", <<c>>) /\ "octet" \in Kinds
      BY <1>1, <3>1 DEF Kinds, Tasks
    <3> DEFINE left == <<c>>
    <3>3. left \in Seq(Cells)
      BY <2>2
    <3>4. job'["NET"] = Job("octet", left)
      BY <3>2
    <3> HIDE DEF left
    <3>5. job'["NET"].kind = "octet"
      BY <3>2, <3>3, <3>4, JobFacts
    <3> QED BY <3>5
  <2>5. CASE ChangeAddress
    BY <1>1, <2>2, <2>5, JobFacts DEF ChangeAddress, Starts, Kinds
  <2> QED BY <2>3, <2>4, <2>5
<1>4. ram' \in [Cells -> Contents]
  <2>1. TypeInv'
    BY RequestTypeInv, ChangeAddressTypeInv DEF IInv, Request
  <2> QED BY <2>1 DEF TypeInv, TypeOK
<1>5. ASSUME NEW g \in Groups
      PROVE  Want(g)' = Of(ram', g) /\ Of(ram', g) \in Values
             /\ <<g, 1>> \in DOMAIN ram'
  <2>1. \A i \in Octets : <<g, i>> \in Cells
    BY CellFacts
  <2>2. Want(g)' = Of(ram', g)
    BY <1>2, <1>3 DEF Want, Wanted, Of
  <2> QED BY <1>4, <2>1, <2>2 DEF Of, Values, Octets
<1> QED BY <1>1, <1>2, <1>3, <1>5, BeginPromise DEF Requests
(* Steps of NET that promise nothing and store nothing.                    *)
LEMMA QuietPromise ==
  ASSUME IInv, PInv, NetworkAlone, promised' = promised,
         UNCHANGED <<ram, ee, call, job, phase>>,
         UNCHANGED ghost \/ (phase = "run" /\ job[Worker] = NoJob)
  PROVE  PInv'
<1>1. Worker' = Worker
  BY WorkerFacts
<1>2. \A g \in Groups : Held(g)' = Held(g)
  BY HeldKept
<1>3. \A c \in Cells : InLeft(c)' = InLeft(c)
  BY <1>1 DEF InLeft
<1>4. \A g \in Groups, i \in Octets : <<g, i>> \in Cells
  BY CellFacts
<1>5. WantInv'
  <2>1. job[Worker].kind # "commit" \/ UNCHANGED ghost
    BY JobFacts
  <2>2. \A c \in Cells : Wanted(c)' = Wanted(c)
    BY <1>1, <1>3, <2>1 DEF Wanted
  <2>3. \A g \in Groups : Want(g)' = Want(g)
    BY <1>4, <2>2 DEF Want
  <2> QED BY <1>1, <1>2, <1>3, <1>4, <2>3 DEF PInv, WantInv
<1>6. EraseInv'
  BY <1>1, <1>3 DEF PInv, EraseInv
<1>7. LoadInv'
  BY <1>1, <1>2, <1>3, <1>4 DEF PInv, LoadInv, InTodo, Of, InLeft, Held, Restored
<1>8. CopyInv'
  BY <1>1, JobFacts DEF PInv, CopyInv
<1>9. PromisedInv'
  BY DEF PInv, PromisedInv
<1> QED BY <1>5, <1>6, <1>7, <1>8, <1>9 DEF PInv

LEMMA EraseFacts == Range(EraseOrder) = Cells
<1>1. \A g \in AllGroups :
        BytesOf(g) \in Seq(Cells) /\ Range(BytesOf(g)) = {c \in Cells : c[1] = g}
  BY BytesFacts
<1>2. /\ "version" \in AllGroups /\ "mac" \in AllGroups
      /\ "ip" \in AllGroups /\ "port" \in AllGroups
  BY DEF AllGroups
<1> DEFINE two == BytesOf("version") \o BytesOf("mac")
           three == two \o BytesOf("ip")
<1>3. /\ three \in Seq(Cells)
      /\ Range(three) = Range(BytesOf("version")) \union Range(BytesOf("mac"))
                          \union Range(BytesOf("ip"))
  <2>1. /\ two \in Seq(Cells)
        /\ Range(two) = Range(BytesOf("version")) \union Range(BytesOf("mac"))
    BY <1>1, <1>2, RangeConcatenation, ConcatProperties
  <2> HIDE DEF two
  <2> QED BY <1>1, <1>2, <2>1, RangeConcatenation, ConcatProperties
<1>4. EraseOrder = three \o BytesOf("port")
  BY DEF EraseOrder
<1> HIDE DEF three
<1>5. Range(EraseOrder) = Range(three) \union Range(BytesOf("port"))
  BY <1>1, <1>2, <1>3, <1>4, RangeConcatenation
<1>6. \A c \in Cells : c[1] \in AllGroups
  BY CellFacts
<1> QED BY <1>1, <1>2, <1>3, <1>5, <1>6 DEF AllGroups

LEMMA MasterResetPromise ==
  ASSUME IInv, PInv, NetworkAlone, NEW t \in Tasks, MasterReset(t),
         promised' = promised
  PROVE  PInv'
<1>1. /\ t = "NET" /\ Worker = "NET" /\ phase = "run" /\ job["NET"] = NoJob
      /\ job \in [Tasks -> Jobs]
  BY TakenByNet DEF MasterReset
<1>2. /\ phase' = phase /\ call' = call /\ ee' = ee /\ ram' = ram
      /\ Worker' = "NET"
  BY <1>1, WorkerFacts DEF MasterReset, bus
<1>3. call["NET"] = Bus!NoCall
  BY <1>1, JobFacts, Idle DEF IInv
<1>4. \A g \in Groups : Held(g)'
  BY <1>1, <1>2, RestHeld, HeldKept
<1>5. PromisedInv'
  BY DEF PInv, PromisedInv
<1>6. CASE Starts(t, "erase", EraseOrder)
  <2>1. job'["NET"].kind = "erase" /\ job'["NET"].left = EraseOrder
    BY <1>1, <1>6, JobFacts, OrderFacts DEF Starts, Kinds
  <2>2. \A c \in Cells : InLeft(c)'
    BY <1>2, <2>1, EraseFacts DEF InLeft
  <2>3. WantInv' /\ EraseInv' /\ LoadInv' /\ CopyInv'
    BY <1>2, <1>3, <2>1, <2>2 DEF WantInv, EraseInv, LoadInv, CopyInv, Requests
  <2> QED BY <1>5, <2>3 DEF PInv
<1>7. CASE job' = [job EXCEPT ![t] = InitJob]
  <2>1. job'["NET"] = InitJob
    BY <1>1, <1>7
  <2>2. WantInv' /\ EraseInv' /\ LoadInv' /\ CopyInv'
    BY <1>1, <1>2, <1>3, <1>4, <2>1, JobFacts
       DEF WantInv, EraseInv, LoadInv, CopyInv, Requests
  <2> QED BY <1>5, <2>2 DEF PInv
<1> QED BY <1>6, <1>7 DEF MasterReset

LEMMA RequestDonePromise ==
  ASSUME IInv, PInv, NEW t \in Tasks, RequestDone(t), promised' = promised
  PROVE  PInv'
<1>1. /\ job[t] # NoJob /\ job[t].left = <<>>
      /\ job[t].kind \in Requests \union {"erase"}
  BY JobFacts DEF RequestDone, Storing, Requests
<1>2. t = Worker
  BY <1>1, Busy
<1>3. /\ phase' = phase /\ Worker' = Worker /\ call' = call /\ ee' = ee
      /\ ram' = ram
  BY WorkerFacts DEF RequestDone, bus
<1>4. phase = "run"
  BY <1>1, <1>2 DEF IInv, BootInv, Requests, TypeInv, TypeOK
<1>5. call[t] = Bus!NoCall
  BY <1>1, Idle DEF IInv
<1>6. job'[t] = IF job[t].kind = "erase" THEN InitJob ELSE NoJob
  BY DEF RequestDone, IInv, TypeInv, TypeOK
<1>7. \A c \in Cells : ~InLeft(c) /\ ~InLeft(c)'
  BY <1>1, <1>2, <1>3, <1>6, JobFacts, RangeShort DEF InLeft
<1>8. \A g \in Groups, i \in Octets : <<g, i>> \in Cells
  BY CellFacts
<1>9. PromisedInv'
  BY DEF PInv, PromisedInv
<1>10. CASE job[t].kind = "erase"
  <2>1. job'[Worker'] = InitJob
    BY <1>2, <1>3, <1>6, <1>10
  <2>2. ASSUME NEW g \in Groups
        PROVE  Held(g)'
    <3>1. \A i \in Octets : ee[<<g, i>>] = "ff"
      BY <1>2, <1>7, <1>8, <1>10 DEF PInv, EraseInv
    <3>2. Of(ee, g) = Blank
      BY <3>1 DEF Of, Blank
    <3>3. Held(g)
      BY <3>2 DEF Held, Restored, PInv, PromisedInv
    <3> QED BY <1>3, <3>3, HeldKept
  <2>3. WantInv' /\ EraseInv' /\ LoadInv' /\ CopyInv'
    BY <1>3, <1>4, <2>1, <2>2, JobFacts
       DEF WantInv, EraseInv, LoadInv, CopyInv, Requests
  <2> QED BY <1>9, <2>3 DEF PInv
<1>11. CASE job[t].kind # "erase"
  <2>1. job'[Worker'] = NoJob /\ call'[Worker'] = Bus!NoCall
    BY <1>2, <1>3, <1>5, <1>6, <1>11
  <2>2. ASSUME NEW g \in Groups
        PROVE  Want(g)' = Want(g) /\ Held(g)' = Held(g)
    BY <1>3, <1>7, <1>8, HeldKept DEF Want, Wanted
  <2>3. WantInv'
    BY <1>1, <1>2, <1>3, <1>4, <1>7, <1>8, <1>11, <2>2 DEF PInv, WantInv
  <2>4. EraseInv' /\ LoadInv' /\ CopyInv'
    BY <2>1, JobFacts DEF EraseInv, LoadInv, CopyInv
  <2> QED BY <1>9, <2>3, <2>4 DEF PInv
<1> QED BY <1>10, <1>11

LEMMA BootDonePromise ==
  ASSUME IInv, PInv, BootDone, promised' = promised
  PROVE  PInv'
<1>1. "main" \in Tasks /\ job["main"].kind = "init" /\ job["main"].todo = <<>>
      /\ job["main"].left = <<>>
  BY DEF BootDone, Loading, Storing, Tasks
<1>2. "main" = Worker
  BY <1>1, Busy, JobFacts
<1>3. phase = "boot" /\ phase' = "run" /\ Worker' \in Tasks
  BY <1>2 DEF Worker, BootDone, Tasks
<1>4. call["main"] = Bus!NoCall /\ call' = call /\ ee' = ee /\ ram' = ram
  BY <1>1, Idle DEF IInv, BootDone, bus
<1>5. job'[Worker'] = NoJob /\ call'[Worker'] = Bus!NoCall
  BY <1>2, <1>3, <1>4 DEF BootDone, IInv, OneWorker, TypeInv, TypeOK
<1>6. ASSUME NEW g \in Groups
      PROVE  Held(g)' /\ Want(g)' \in promised[g]
  <2>1. job["main"].temp = <<>>
    BY <1>1 DEF IInv, TypeInv, JobInv
  <2>2. Held(g) /\ Of(ram, g) \in promised[g]
    BY <1>1, <1>2, <1>3, <2>1, RangeShort DEF PInv, LoadInv, InTodo
  <2>3. Want(g)' = Of(ram, g)
    BY <1>4, <1>5, JobFacts DEF Want, Wanted, Of
  <2> QED BY <1>4, <2>2, <2>3, HeldKept
<1>7. WantInv' /\ EraseInv' /\ LoadInv' /\ CopyInv'
  BY <1>5, <1>6, JobFacts DEF WantInv, EraseInv, LoadInv, CopyInv
<1>8. PromisedInv'
  BY DEF PInv, PromisedInv
<1> QED BY <1>7, <1>8 DEF PInv

-----------------------------------------------------------------------------
LEMMA WholeNextPromise ==
  ASSUME IInv, PInv, NetworkAlone, [WholeNext]_wholeVars
  PROVE  PInv'
<1>1. ASSUME NEW t \in Tasks, Commit(t), Promise(ghost)
      PROVE  PInv'
  BY <1>1, CommitPromise
<1>2. ASSUME NEW t \in Tasks, WriteMac(t) \/ WriteMacByte(t), Promise(ram')
      PROVE  PInv'
  BY <1>2, AtOncePromise
<1>3. CASE ChangeAddress /\ Promise(ram')
  BY <1>3, AtOncePromise DEF Tasks
<1>4. ASSUME NEW t \in Tasks, Working(t), promised' = promised
      PROVE  PInv'
  BY <1>4, StoreBytePromise, SendBytePromise, ByteStoredPromise,
     ReadGroupPromise, LoadGroupPromise, RequestDonePromise, ResetPromise
  DEF Working
<1>5. ASSUME NEW t \in Tasks, WriteGhost(t) \/ WriteMacEnable(t),
             promised' = promised
      PROVE  PInv'
  <2>1. phase = "run" /\ job[Worker] = NoJob
    BY <1>5, TakenByNet DEF WriteGhost, WriteMacEnable
  <2> QED BY <1>5, <2>1, QuietPromise DEF WriteGhost, WriteMacEnable, bus
<1>6. ASSUME NEW t \in Tasks, MasterReset(t), promised' = promised
      PROVE  PInv'
  BY <1>6, MasterResetPromise
<1>7. CASE BootDone /\ promised' = promised
  BY <1>7, BootDonePromise
<1>8. CASE Loop /\ promised' = promised
  <2>1. CASE Reboot
    BY <1>8, <2>1, ResetPromise
  <2>2. CASE ~Reboot
    BY <1>8, <2>2, QuietPromise DEF Loop, PollNothing, CountPass, bus
  <2> QED BY <2>1, <2>2
<1>9. CASE PowerFail /\ promised' = [g \in Groups |-> Values]
  BY <1>9, PowerFailPromise
<1>10. CASE UNCHANGED wholeVars
  BY <1>10, QuietPromise DEF wholeVars, vars, bus
<1> QED BY <1>1, <1>2, <1>3, <1>4, <1>5, <1>6, <1>7, <1>8, <1>9, <1>10
        DEF WholeNext

(* The history is only a history. *)
LEMMA WholeIsNetConfig == ASSUME [WholeNext]_wholeVars PROVE [Next]_vars
BY DEF WholeNext, wholeVars, Next, Request

(* If masters write over the network alone, a group of settings is served, *)
(* between requests, as one master asked for it, as it was before or as    *)
(* the default, whatever resets the processor; only a power failure can    *)
(* leave half of it (main.c:147-169, 346-464; modbus.c:523-577;            *)
(* udp_scan.c:169-217).                                                    *)
THEOREM SettingsAreWhole ==
  ASSUME NetworkAlone
  PROVE  WholeSpec => []NeverTorn
<1>1. WholeInit => IInv /\ PInv
  <2> SUFFICES ASSUME WholeInit PROVE IInv /\ PInv
    OBVIOUS
  <2>1. IInv
    BY InitInv DEF WholeInit
  <2>2. PromisedInv
    BY ValueFacts DEF WholeInit, PromisedInv
  <2>3. \A g \in Groups : Held(g)
    <3> SUFFICES ASSUME NEW g \in Groups PROVE Of(ee, g) = Blank
      BY DEF Held, Restored, WholeInit
    <3>1. \A i \in Octets : ee[<<g, i>>] = "ff"
      BY CellFacts DEF WholeInit, Init, Bus!BusInit
    <3> QED BY <3>1 DEF Of, Blank
  <2>4. /\ Worker = "main" /\ phase = "boot"
        /\ job[Worker] = InitJob /\ call[Worker] = Bus!NoCall
    BY DEF WholeInit, Init, Bus!BusInit, Worker, Tasks
  <2>5. \A g \in Groups : InTodo(g)
    BY <2>4, JobFacts, OrderFacts DEF InTodo
  <2>6. WantInv /\ EraseInv /\ LoadInv /\ CopyInv
    BY <2>3, <2>4, <2>5, JobFacts DEF WantInv, EraseInv, LoadInv, CopyInv
  <2> QED BY <2>1, <2>2, <2>6 DEF PInv
<1>2. IInv /\ PInv /\ [WholeNext]_wholeVars => IInv' /\ PInv'
  BY WholeNextPromise, WholeIsNetConfig, NetworkIsOne, NextInv
<1>3. IInv /\ PInv => NeverTorn
  BY WorkerFacts, RestHeld DEF NeverTorn, AtRest
<1> QED BY <1>1, <1>2, <1>3, PTL DEF WholeSpec
=============================================================================
