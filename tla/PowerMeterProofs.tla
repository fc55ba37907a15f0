-------------------------- MODULE PowerMeterProofs --------------------------
(***************************************************************************)
(* What is proved of PowerMeter, for every filter, every range of readings   *)
(* and every set of calibrations and parameters.                             *)
(***************************************************************************)
EXTENDS PowerMeter, TLAPS

(* Arithmetic of the mean.                                                 *)

LEMMA TimesStep ==
    ASSUME NEW n \in Nat, NEW b \in Nat
    PROVE  /\ n * b \in Nat
           /\ (n + 1) * b = n * b + b
  OBVIOUS

LEMMA Divides ==
    ASSUME NEW s \in Nat, NEW n \in Nat \ {0}
    PROVE  /\ s \div n \in Nat
           /\ n * (s \div n) <= s
           /\ s < n * (s \div n + 1)
  OBVIOUS

LEMMA TimesMonotone ==
    ASSUME NEW n \in Nat \ {0}, NEW a \in Nat, NEW b \in Nat, a <= b
    PROVE  n * a <= n * b
  OBVIOUS

\* The mean of n readings lies between the lowest and the highest.
LEMMA Mean ==
    ASSUME NEW s \in Nat, NEW n \in Nat \ {0}, NEW low \in Nat, NEW high \in Nat,
           n * low <= s, s <= n * high
    PROVE  s \div n \in low..high
  <1> DEFINE q == s \div n
  <1>1. q \in Nat /\ n * q <= s /\ s < n * (q + 1)
    BY Divides
  <1>2. low <= q
    <2>1. CASE q + 1 <= low
      <3>1. n * (q + 1) <= n * low
        BY <2>1, <1>1, TimesMonotone
      <3>2. n * (q + 1) \in Int /\ n * low \in Int
        BY <1>1
      <3> QED
        BY <3>1, <3>2, <1>1
    <2> QED
      BY <2>1, <1>1
  <1>3. q <= high
    <2>1. CASE high + 1 <= q
      <3>1. n * (high + 1) <= n * q
        BY <2>1, <1>1, TimesMonotone
      <3>2. n * (high + 1) = n * high + n
        OBVIOUS
      <3> QED
        BY <3>1, <3>2, <1>1
    <2> QED
      BY <2>1, <1>1
  <1> QED
    BY <1>1, <1>2, <1>3

----------------------------------------------------------------------------
(* The inductive invariant.                                                *)

\* The readings counted so far each lie between the lowest and the highest.
SumBounded == ctr * Low <= checksum /\ checksum <= ctr * High

\* Where no byte has been lost, only the bytes left to store differ from the EEPROM.
LeftToStore ==
    /\ job.bytes \in {<<>>, <<"last">>, <<"first", "last">>}
    /\ job.bytes = <<>> => job = NoJob
    /\ \A w \in Channels \ lost : \A b \in Bytes :
          ee[w][b] # cal[w][b] =>
             /\ w = job.of
             /\ \/ b = "last" /\ job.bytes # <<>>
                \/ job.bytes = <<"first", "last">>

\* Once a calibration has been asked for and the flag is left alone, each register
\* is among what it has held since, and what the calibration has read and computed
\* comes from there.
GainIsFresh == gain # Nothing /\ \A r \in Registers : gain[r] \in since[r]
Asked ==
    /\ pc # "expected" => got = Unread
    /\ since # Nothing =>
         /\ pc \in Running => enable = 1
         /\ enable = 1 => \A r \in Registers : params[r] \in since[r]
         /\ \A r \in DOMAIN got : got[r] \in since[r]
         /\ pc \in {"const", "done"} \/ enable = 0 => GainIsFresh
         /\ pc = "done" \/ enable = 0 => const \in since[Impulses]

Sampling == \E w \in Channels : Sample(w)
Showing == \E w \in Channels : Load(w) \/ Show(w)
Calibrating == TestFlag \/ CycleEnds \/ CycleTimesOut
               \/ (\E r \in Registers : ReadFactor(r)) \/ ComputeGain \/ ComputeConst \/ Answer

LEMMA NextCases ==
    ASSUME [Next]_vars
    PROVE  \/ Sampling \/ Showing \/ Calibrating \/ (\E w \in Channels : Calibrate(w))
           \/ WriteParam \/ AskCalibration \/ WriteFlag \/ StoreByte \/ PowerFail
           \/ UNCHANGED vars
  BY DEF Next, Progress, Request, RequestSlope, RequestEnergy, Sampling, Showing, Calibrating

LEMMA SampleType ==
    ASSUME TypeOK, SumBounded, NEW w \in Channels, Sample(w)
    PROVE  /\ pc' \in Steps
           /\ checksum' \in 0..(Filter * High) /\ ctr' \in 0..(Filter - 1)
           /\ rms' \in [Channels -> Nat]
           /\ SumBounded'
           /\ RmsWithinReadings => RmsWithinReadings'
  <1>p. PICK reading \in Readings :
          LET sum == checksum + reading
              n == ctr + Counts(reading)
          IN  IF Complete(n)
              THEN /\ rms' = [rms EXCEPT ![w] = sum \div Filter]
                   /\ checksum' = 0 /\ ctr' = 0
                   /\ pc' = IF w = "vrms" THEN "vrms load" ELSE "irms load"
              ELSE /\ checksum' = sum /\ ctr' = n
                   /\ UNCHANGED <<rms, pc>>
    BY DEF Sample
  <1> DEFINE sum == checksum + reading
             n == ctr + Counts(reading)
  <1>0. Filter \in Nat /\ Filter # 0 /\ Low \in Nat /\ High \in Nat /\ 0 < Low /\ Low <= High
    BY MeterAssumption
  <1>1. checksum \in Nat /\ ctr \in Nat /\ ctr <= Filter - 1 /\ rms \in [Channels -> Nat] /\ pc \in Steps
    <2>1. Filter * High \in Nat
      BY <1>0, TimesStep
    <2> QED
      BY <2>1, <1>0 DEF TypeOK
  <1>2. \/ reading = 0 /\ Counts(reading) = 0
        \/ reading \in Nat /\ Low <= reading /\ reading <= High /\ Counts(reading) = 1
    BY <1>0 DEF Readings, Counts
  <1>3. sum \in Nat /\ n \in Nat /\ n <= Filter
    BY <1>0, <1>1, <1>2
  <1>4. n * Low <= sum /\ sum <= n * High
    <2>1. CASE reading = 0
      <3>1. n = ctr /\ sum = checksum
        BY <2>1, <1>0, <1>1, <1>2
      <3> QED
        BY <3>1 DEF SumBounded
    <2>2. CASE reading # 0
      <3>1. /\ (ctr + 1) * Low = ctr * Low + Low /\ ctr * Low \in Nat
            /\ (ctr + 1) * High = ctr * High + High /\ ctr * High \in Nat
        BY <1>0, <1>1, TimesStep
      <3>2. n = ctr + 1 /\ Low <= reading /\ reading <= High /\ reading \in Nat
        BY <2>2, <1>2
      <3>3. ctr * Low <= checksum /\ checksum <= ctr * High
        BY DEF SumBounded
      <3>4. sum = checksum + reading
        OBVIOUS
      <3> HIDE DEF n, sum
      <3>5. ctr * Low + Low <= sum /\ sum <= ctr * High + High
        BY <3>1, <3>2, <3>3, <3>4, <1>0, <1>1
      <3> QED
        BY <3>1, <3>2, <3>5
    <2> QED
      BY <2>1, <2>2
  <1>5. IF Complete(n)
        THEN /\ rms' = [rms EXCEPT ![w] = sum \div Filter]
             /\ checksum' = 0 /\ ctr' = 0
             /\ pc' \in Steps
        ELSE checksum' = sum /\ ctr' = n /\ UNCHANGED <<rms, pc>>
    BY <1>p DEF Steps
  <1> HIDE DEF sum, n
  <1>6. Filter * High \in Nat /\ 0 * Low = 0 /\ 0 * High = 0
    BY <1>0, TimesStep
  <1>7. CASE Complete(n)
    <2>1. n = Filter
      BY <1>7, <1>3, <1>0 DEF Complete
    <2>2. sum \div Filter \in Low..High
      <3>1. Filter * Low <= sum /\ sum <= Filter * High
        BY <2>1, <1>4
      <3> QED
        BY <3>1, <1>0, <1>3, Mean
    <2>3. /\ rms' = [rms EXCEPT ![w] = sum \div Filter]
          /\ checksum' = 0 /\ ctr' = 0 /\ pc' \in Steps
      BY <1>7, <1>5
    <2>4. checksum' \in 0..(Filter * High) /\ ctr' \in 0..(Filter - 1) /\ SumBounded'
      BY <2>3, <1>6, <1>0 DEF SumBounded
    <2>5. rms' \in [Channels -> Nat]
      BY <2>2, <2>3, <1>0, <1>1
    <2>6. RmsWithinReadings => RmsWithinReadings'
      BY <2>2, <2>3, <1>1 DEF RmsWithinReadings
    <2> QED
      BY <2>3, <2>4, <2>5, <2>6
  <1>8. CASE ~Complete(n)
    <2>1. checksum' = sum /\ ctr' = n /\ UNCHANGED <<rms, pc>>
      BY <1>8, <1>5
    <2>2. n \in 0..(Filter - 1)
      BY <1>8, <1>3, <1>0 DEF Complete
    <2>3. n * High <= Filter * High
      <3>1. CASE High = 0
        BY <3>1, <1>0
      <3>2. CASE High # 0
        <4>1. High * n <= High * Filter
          BY <3>2, <2>2, <1>0, <1>3, TimesMonotone
        <4>2. n * High = High * n /\ Filter * High = High * Filter
          BY <1>3, <1>0
        <4> QED
          BY <4>1, <4>2
      <3> QED
        BY <3>1, <3>2
    <2>4. n * High \in Nat
      BY <1>0, <1>3, TimesStep
    <2>5. sum \in 0..(Filter * High)
      BY <2>3, <2>4, <1>3, <1>4, <1>6
    <2>6. SumBounded'
      BY <2>1, <1>4 DEF SumBounded
    <2> QED
      BY <2>1, <2>2, <2>5, <2>6, <1>1 DEF RmsWithinReadings
  <1> QED
    BY <1>7, <1>8

\* A request that stores its calibration.
LEMMA RecordType == ASSUME NEW s \in Slopes PROVE Record(s) \in [Bytes -> Slopes]
  BY DEF Record

LEMMA CalibrateType ==
    ASSUME TypeOK, NEW w \in Channels, Calibrate(w)
    PROVE  /\ cal' \in [Channels -> [Bytes -> Slopes]]
           /\ job' \in [of : Channels, bytes : Seq(Bytes)]
           /\ lost' \in SUBSET Channels
  <1>1. PICK v \in Values :
           cal' = [cal EXCEPT ![w] = Record(IF rms[w] = 0 THEN Infinite ELSE v)]
    BY DEF Calibrate
  <1>2. (IF rms[w] = 0 THEN Infinite ELSE v) \in Slopes
    BY DEF Slopes
  <1>3. Record(IF rms[w] = 0 THEN Infinite ELSE v) \in [Bytes -> Slopes]
    BY <1>2, RecordType
  <1>4. cal' \in [Channels -> [Bytes -> Slopes]]
    BY <1>1, <1>3 DEF TypeOK
  <1>5. StoreOrder \in Seq(Bytes)
    BY DEF StoreOrder, Bytes
  <1>6. lost' \in SUBSET Channels
    BY DEF Calibrate, TypeOK
  <1> QED
    BY <1>4, <1>5, <1>6 DEF Calibrate

LEMMA StoreType ==
    ASSUME TypeOK, StoreByte
    PROVE  /\ ee' \in [Channels -> [Bytes -> Slopes]]
           /\ job' \in [of : Channels, bytes : Seq(Bytes)]
           /\ lost' \in SUBSET Channels
  <1>1. job.bytes \in Seq(Bytes) /\ job.bytes # <<>> /\ job.of \in Channels
    BY DEF TypeOK, StoreByte
  <1>2. Head(job.bytes) \in Bytes /\ Tail(job.bytes) \in Seq(Bytes)
    BY <1>1
  <1>3. ee' \in {ee, [ee EXCEPT ![job.of][Head(job.bytes)] = cal[job.of][Head(job.bytes)]]}
    BY DEF StoreByte
  <1>8. cal[job.of][Head(job.bytes)] \in Slopes
    BY <1>1, <1>2 DEF TypeOK
  <1>4. ee' \in [Channels -> [Bytes -> Slopes]]
    <2> DEFINE of == job.of
               b == Head(job.bytes)
               stored == [ee[of] EXCEPT ![b] = cal[of][b]]
    <2>1. ee \in [Channels -> [Bytes -> Slopes]]
      BY DEF TypeOK
    <2>2. of \in Channels /\ b \in Bytes /\ cal[of][b] \in Slopes
      BY <1>1, <1>2, <1>8
    <2>3. ee' \in {ee, [ee EXCEPT ![of] = stored]}
      BY <1>3
    <2> HIDE DEF of, b
    <2>4. stored \in [Bytes -> Slopes]
      BY <2>1, <2>2
    <2> HIDE DEF stored
    <2> QED
      BY <2>1, <2>2, <2>3, <2>4
  <1>5. NoJob \in [of : Channels, bytes : Seq(Bytes)]
    BY DEF NoJob, Channels
  <1>6. [job EXCEPT !.bytes = Tail(job.bytes)] \in [of : Channels, bytes : Seq(Bytes)]
    BY <1>2 DEF TypeOK
  <1>7. lost' \in SUBSET Channels
    BY <1>1 DEF StoreByte, TypeOK
  <1> QED
    BY <1>4, <1>5, <1>6, <1>7 DEF StoreByte

LEMMA UnreadType == \E read \in SUBSET Registers : Unread \in [read -> Contents]
  <1>1. Unread \in [{} -> Contents]
    BY DEF Unread
  <1> QED
    BY <1>1

LEMMA ReadDomain ==
    ASSUME NEW r \in Registers, ReadFactor(r)
    PROVE  /\ got' = [s \in DOMAIN got \cup {r} |-> IF s = r THEN params[r] ELSE got[s]]
           /\ r \notin DOMAIN got
  BY DEF ReadFactor

LEMMA ReadType ==
    ASSUME TypeOK, NEW r \in Registers, ReadFactor(r)
    PROVE  \E read \in SUBSET Registers : got' \in [read -> Contents]
  <1> PICK read \in SUBSET Registers : got \in [read -> Contents]
    BY DEF TypeOK
  <1>1. params[r] \in Contents
    BY DEF TypeOK
  <1>2. got' \in [read \cup {r} -> Contents]
    BY <1>1, ReadDomain
  <1>3. read \cup {r} \in SUBSET Registers
    OBVIOUS
  <1> QED
    BY <1>2, <1>3

LEMMA RestartType ==
    ASSUME TypeOK, PowerFail
    PROVE  TypeOK' /\ SumBounded'
  <1> USE MeterAssumption
  <1>1. 0 \in 0..(Filter * High) /\ 0 \in 0..(Filter - 1)
    BY TimesStep
  <1>2. NoJob \in [of : Channels, bytes : Seq(Bytes)]
    BY DEF NoJob, Channels
  <1>3. SumBounded'
    BY DEF PowerFail, SumBounded
  <1>4. /\ Blank \in Slopes /\ "vrms" \in Steps
        /\ [r \in Registers |-> Zero] \in [Registers -> Contents]
    BY DEF Slopes, Steps, Contents
  <1>5. ee' = ee /\ cal' = ee /\ ee \in [Channels -> [Bytes -> Slopes]]
    BY DEF TypeOK, PowerFail
  <1> QED
    BY <1>1, <1>2, <1>3, <1>4, <1>5, UnreadType DEF TypeOK, PowerFail

\* Every step keeps the types and the bounds of the sum.
LEMMA TypeStep ==
    ASSUME TypeOK, SumBounded, [Next]_vars
    PROVE  TypeOK' /\ SumBounded'
  <1>1. CASE Sampling
    <2> PICK w \in Channels : Sample(w)
      BY <1>1 DEF Sampling
    <2>1. UNCHANGED <<reg, shown, calibrated, energy>>
      BY DEF Sample
    <2> QED
      BY <2>1, SampleType DEF TypeOK, calibrated, energy
  <1>2. CASE Showing
    <2> PICK w \in Channels : Load(w) \/ Show(w)
      BY <1>2 DEF Showing
    <2>1. UNCHANGED <<checksum, ctr, rms, calibrated, energy>>
      BY DEF Load, Show
    <2>2. pc' \in Steps
      BY DEF Load, Show, Steps
    <2>3. cal[w] \in [Bytes -> Slopes] /\ Blank \in Slopes /\ "last" \in Bytes
      BY DEF TypeOK, Slopes, Bytes
    <2>4. reg' \in Slopes \cup {Torn}
      BY <2>3 DEF Load, Show, SlopeOf, Slope
    <2>5. shown' \in [Channels -> Slopes \cup {Torn}]
      BY DEF Load, Show, TypeOK
    <2> QED
      BY <2>1, <2>2, <2>4, <2>5 DEF TypeOK, SumBounded, calibrated, energy
  <1>3. CASE Calibrating
    <2>1. CASE \E r \in Registers : ReadFactor(r)
      <3> PICK r \in Registers : ReadFactor(r)
        BY <2>1
      <3>1. UNCHANGED <<pc, measured, calibrated, enable, params, gain, const, since>>
        BY DEF ReadFactor
      <3>2. \E read \in SUBSET Registers : got' \in [read -> Contents]
        BY ReadType DEF TypeOK
      <3> QED
        BY <3>1, <3>2 DEF TypeOK, SumBounded, measured, calibrated
    <2>2. CASE ComputeGain
      <3>1. gain' \in [Registers -> Contents]
        BY <2>2 DEF ComputeGain, TypeOK
      <3>2. UNCHANGED <<measured, calibrated, enable, params, const, since>> /\ pc' \in Steps
        BY <2>2 DEF ComputeGain, Goto, Steps
      <3>3. got' = Unread
        BY <2>2 DEF ComputeGain
      <3>4. \E read \in SUBSET Registers : got' \in [read -> Contents]
        BY <3>3, UnreadType
      <3> QED
        BY <3>1, <3>2, <3>4 DEF TypeOK, SumBounded, measured, calibrated
    <2>3. CASE ComputeConst
      <3>1. const' \in Contents
        BY <2>3, MeterAssumption DEF ComputeConst, TypeOK
      <3>2. UNCHANGED <<measured, calibrated, enable, params, got, gain, since>> /\ pc' \in Steps
        BY <2>3 DEF ComputeConst, Goto, Steps
      <3> QED
        BY <3>1, <3>2 DEF TypeOK, SumBounded, measured, calibrated
    <2>4. CASE TestFlag \/ CycleEnds \/ CycleTimesOut \/ Answer
      <3>1. UNCHANGED <<measured, calibrated, params, got, gain, const, since>>
        BY <2>4 DEF TestFlag, CycleEnds, CycleTimesOut, Answer, Goto, energy
      <3>2. pc' \in Steps
        BY <2>4 DEF TestFlag, CycleEnds, CycleTimesOut, Answer, Goto, Steps, AfterTimeout
      <3>3. enable' \in 0..2
        BY <2>4 DEF TestFlag, CycleEnds, CycleTimesOut, Answer, Goto, energy, TypeOK
      <3> QED
        BY <3>1, <3>2, <3>3 DEF TypeOK, SumBounded, measured, calibrated
    <2> QED
      BY <1>3, <2>1, <2>2, <2>3, <2>4 DEF Calibrating
  <1>4. CASE \E w \in Channels : Calibrate(w)
    <2> PICK w \in Channels : Calibrate(w)
      BY <1>4
    <2>1. UNCHANGED <<pc, measured, ee, energy>>
      BY DEF Calibrate
    <2> QED
      BY <2>1, CalibrateType DEF TypeOK, SumBounded, measured, energy
  <1>5. CASE WriteParam \/ AskCalibration \/ WriteFlag
    <2>1. UNCHANGED <<pc, measured, calibrated, got, gain, const>> /\ enable' \in 0..2
      BY <1>5 DEF WriteParam, AskCalibration, WriteFlag, TypeOK
    <2>2. params' \in [Registers -> Contents]
      BY <1>5 DEF WriteParam, AskCalibration, WriteFlag, TypeOK, Contents
    <2>3. since' \in [Registers -> SUBSET Contents] \cup {Nothing}
      <3>1. CASE WriteParam
        BY <3>1 DEF WriteParam, TypeOK, Contents
      <3>2. CASE AskCalibration
        BY <3>2 DEF AskCalibration, TypeOK
      <3> QED
        BY <1>5, <3>1, <3>2 DEF WriteFlag
    <2> QED
      BY <2>1, <2>2, <2>3 DEF TypeOK, SumBounded, measured, calibrated
  <1>6. CASE StoreByte
    <2>1. UNCHANGED <<pc, measured, cal, energy>>
      BY <1>6 DEF StoreByte
    <2> QED
      BY <2>1, <1>6, StoreType DEF TypeOK, SumBounded, measured, energy
  <1>7. CASE PowerFail
    BY <1>7, RestartType
  <1>8. CASE UNCHANGED vars
    BY <1>8 DEF vars, measured, calibrated, energy, TypeOK, SumBounded
  <1> QED
    BY <1>1, <1>2, <1>3, <1>4, <1>5, <1>6, <1>7, <1>8, NextCases

LEMMA InitType == Init => TypeOK /\ SumBounded
  <1> SUFFICES ASSUME Init PROVE TypeOK /\ SumBounded
    OBVIOUS
  <1> USE MeterAssumption
  <1>1. 0 \in 0..(Filter * High) /\ 0 \in 0..(Filter - 1)
    BY TimesStep
  <1>2. NoJob \in [of : Channels, bytes : Seq(Bytes)]
    BY DEF NoJob, Channels
  <1>3. SumBounded
    BY DEF Init, SumBounded
  <1>4. /\ Blank \in Slopes /\ "vrms" \in Steps
        /\ [r \in Registers |-> Zero] \in [Registers -> Contents]
    BY DEF Slopes, Steps, Contents
  <1>5. ee = [w \in Channels |-> Record(Blank)] /\ cal = ee
    BY DEF Init
  <1>6. ee \in [Channels -> [Bytes -> Slopes]]
    BY <1>4, <1>5, RecordType
  <1> QED
    BY <1>1, <1>2, <1>3, <1>4, <1>5, <1>6, UnreadType DEF TypeOK, Init

\* The meter's variables keep their types whoever asks for what.
THEOREM TypeCorrect == Spec => []TypeOK
  <1>1. Init => TypeOK /\ SumBounded
    BY InitType
  <1>2. (TypeOK /\ SumBounded) /\ [Next]_vars => (TypeOK /\ SumBounded)'
    BY TypeStep
  <1> QED
    BY <1>1, <1>2, PTL DEF Spec
----------------------------------------------------------------------------
(* What is published.                                                      *)

\* Only Sample changes what is published, and a restart clears it.
LEMMA PublishedStep ==
    ASSUME TypeOK, SumBounded, RmsWithinReadings, [Next]_vars
    PROVE  RmsWithinReadings'
  <1>1. CASE Sampling
    BY <1>1, SampleType DEF Sampling
  <1>2. CASE UNCHANGED rms
    BY <1>2 DEF RmsWithinReadings
  <1>3. CASE PowerFail
    BY <1>3 DEF PowerFail, RmsWithinReadings
  <1>4. Showing \/ Calibrating \/ (\E w \in Channels : Calibrate(w)) \/ WriteParam
        \/ AskCalibration \/ WriteFlag \/ StoreByte \/ UNCHANGED vars => UNCHANGED rms
    BY DEF Showing, Load, Show, Calibrating, TestFlag, CycleEnds, CycleTimesOut, ReadFactor,
           ComputeGain, ComputeConst, Answer, Goto, Calibrate, WriteParam, AskCalibration, WriteFlag,
           StoreByte, vars, measured
  <1> QED
    BY <1>1, <1>2, <1>3, <1>4, NextCases

\* Whatever fails during a measurement, what is published lies between the lowest
\* and the highest reading, for every filter and every range of readings
\* (ADE7753.c:724-743).
THEOREM PublishedIsWithin == Spec => []RmsWithinReadings
  <1> DEFINE Inv == TypeOK /\ SumBounded /\ RmsWithinReadings
  <1>1. Init => Inv
    BY InitType DEF Init, RmsWithinReadings
  <1>2. Inv /\ [Next]_vars => Inv'
    BY TypeStep, PublishedStep
  <1>3. Inv => RmsWithinReadings
    OBVIOUS
  <1> QED
    BY <1>1, <1>2, <1>3, PTL DEF Spec

----------------------------------------------------------------------------
(* What is stored.                                                         *)

LEMMA OrderFacts ==
    /\ StoreOrder = <<"first", "last">>
    /\ Head(<<"first", "last">>) = "first" /\ Tail(<<"first", "last">>) = <<"last">>
    /\ Head(<<"last">>) = "last" /\ Tail(<<"last">>) = <<>>
    /\ <<"last">> # <<>> /\ <<"first", "last">> # <<>> /\ <<"first", "last">> # <<"last">>
  BY DEF StoreOrder

LEMMA CalibrateLeaves ==
    ASSUME TypeOK, LeftToStore, NEW w \in Channels, Calibrate(w)
    PROVE  LeftToStore'
  <1>1. /\ job = NoJob /\ job' = [of |-> w, bytes |-> StoreOrder] /\ ee' = ee
        /\ lost' = lost \ {w}
        /\ \E r : cal' = [cal EXCEPT ![w] = r]
    BY DEF Calibrate
  <1>2. \A v \in Channels \ lost : \A b \in Bytes : ee[v][b] = cal[v][b]
    BY <1>1, OrderFacts DEF LeftToStore, NoJob
  <1>3. \A v \in Channels : v # w => cal'[v] = cal[v]
    BY <1>1 DEF TypeOK
  <1>4. job'.of = w /\ job'.bytes = <<"first", "last">>
    BY <1>1, OrderFacts
  <1>5. \A v \in Channels \ lost' : \A b \in Bytes : ee'[v][b] # cal'[v][b] => v = w
    BY <1>1, <1>2, <1>3
  <1> QED
    BY <1>4, <1>5, OrderFacts DEF LeftToStore

\* A byte that is lost is of a channel that says nothing any more.
LEMMA StoreLeaves ==
    ASSUME TypeOK, LeftToStore, StoreByte
    PROVE  LeftToStore'
  <1> DEFINE b == Head(job.bytes)
  <1>1. /\ job.bytes # <<>> /\ cal' = cal
        /\ \/ ee' = [ee EXCEPT ![job.of][b] = cal[job.of][b]] /\ lost' = lost
           \/ ee' = ee /\ lost' = lost \cup {job.of}
        /\ job' = IF Tail(job.bytes) = <<>> THEN NoJob ELSE [job EXCEPT !.bytes = Tail(job.bytes)]
    BY DEF StoreByte
  <1>2. job.of \in Channels /\ job = [of |-> job.of, bytes |-> job.bytes]
    BY DEF TypeOK
  <1>3. \A w \in Channels \ lost' : \A g \in Bytes :
          /\ w \notin lost
          /\ ee'[w][g] = IF w = job.of /\ g = b THEN cal[w][g] ELSE ee[w][g]
    <2>1. CASE ee' = [ee EXCEPT ![job.of][b] = cal[job.of][b]] /\ lost' = lost
      BY <2>1, <1>2 DEF TypeOK
    <2>2. CASE ee' = ee /\ lost' = lost \cup {job.of}
      BY <2>2
    <2> QED
      BY <1>1, <2>1, <2>2
  <1>4. CASE job.bytes = <<"first", "last">>
    <2>1. b = "first" /\ job' = [of |-> job.of, bytes |-> <<"last">>]
      BY <1>1, <1>2, <1>4, OrderFacts
    <2>2. job'.of = job.of /\ job'.bytes = <<"last">>
      BY <2>1
    <2>3. ASSUME NEW w \in Channels \ lost', NEW g \in Bytes, ee'[w][g] # cal'[w][g]
          PROVE  w = job.of /\ g = "last"
      <3>1. ee[w][g] # cal[w][g] /\ ~(w = job.of /\ g = "first") /\ w \notin lost
        BY <2>3, <2>1, <1>1, <1>3
      <3> QED
        BY <3>1 DEF LeftToStore, Bytes
    <2> HIDE DEF b
    <2> QED
      BY <2>2, <2>3, OrderFacts DEF LeftToStore
  <1>5. CASE job.bytes = <<"last">>
    <2>1. b = "last" /\ job' = NoJob
      BY <1>1, <1>5, OrderFacts
    <2>2. ASSUME NEW w \in Channels \ lost', NEW g \in Bytes, ee'[w][g] # cal'[w][g]
          PROVE  FALSE
      <3>1. ee[w][g] # cal[w][g] /\ ~(w = job.of /\ g = "last") /\ w \notin lost
        BY <2>2, <2>1, <1>1, <1>3
      <3> QED
        BY <3>1, <1>5, OrderFacts DEF LeftToStore
    <2>3. job'.bytes = <<>>
      BY <2>1 DEF NoJob
    <2> HIDE DEF b
    <2> QED
      BY <2>1, <2>2, <2>3 DEF LeftToStore
  <1> QED
    BY <1>1, <1>4, <1>5 DEF LeftToStore

LEMMA StoredStep ==
    ASSUME TypeOK, LeftToStore, [Next]_vars
    PROVE  LeftToStore'
  <1>1. CASE \E w \in Channels : Calibrate(w)
    BY <1>1, CalibrateLeaves
  <1>2. CASE StoreByte
    BY <1>2, StoreLeaves
  <1>3. CASE PowerFail
    <2>1. cal' = ee /\ ee' = ee /\ job' = NoJob /\ NoJob.bytes = <<>>
      BY <1>3 DEF PowerFail, NoJob
    <2> QED
      BY <2>1 DEF LeftToStore
  <1>4. CASE UNCHANGED calibrated
    BY <1>4 DEF calibrated, LeftToStore
  <1>5. Sampling \/ Showing \/ Calibrating \/ WriteParam
        \/ AskCalibration \/ WriteFlag \/ UNCHANGED vars => UNCHANGED calibrated
    BY DEF Sampling, Sample, Showing, Load, Show, Calibrating, TestFlag, CycleEnds,
           CycleTimesOut, ReadFactor, ComputeGain, ComputeConst, Answer, Goto, WriteParam,
           AskCalibration, WriteFlag, vars
  <1> QED
    BY <1>1, <1>2, <1>3, <1>4, <1>5, NextCases

LEMMA LeftMeansStored == ASSUME TypeOK, LeftToStore PROVE CalibrationIsStored
  <1> SUFFICES ASSUME job = NoJob, NEW w \in Channels \ lost PROVE ee[w] = cal[w]
    BY DEF CalibrationIsStored
  <1>1. job.bytes = <<>>
    BY DEF NoJob
  <1>2. \A b \in Bytes : ee[w][b] = cal[w][b]
    BY <1>1, OrderFacts DEF LeftToStore
  <1> QED
    BY <1>2 DEF TypeOK

\* While nothing is left to store, a restart loads the calibration that is in force,
\* wherever power has failed before and whatever was lost of earlier calibrations,
\* unless a byte of this one was lost (modbus.c:708-719, main.c:512-530).
THEOREM CalibrationsAreStored == Spec => []CalibrationIsStored
  <1> DEFINE Inv == TypeOK /\ SumBounded /\ LeftToStore
  <1>1. Init => Inv
    <2>1. Init => LeftToStore
      BY DEF Init, LeftToStore, NoJob
    <2> QED
      BY <2>1, InitType
  <1>2. Inv /\ [Next]_vars => Inv'
    BY TypeStep, StoredStep
  <1>3. Inv => CalibrationIsStored
    BY LeftMeansStored
  <1> QED
    BY <1>1, <1>2, <1>3, PTL DEF Spec

----------------------------------------------------------------------------
(* What a finished calibration was computed from.                          *)

LEMMA TaskFresh ==
    ASSUME TypeOK, Asked, Calibrating
    PROVE  Asked'
  <1>1. CASE TestFlag \/ CycleEnds \/ CycleTimesOut
    BY <1>1 DEF TestFlag, CycleEnds, CycleTimesOut, MayTimeOut, Goto, energy, Asked, GainIsFresh,
                AfterTimeout, Running
  <1>2. CASE \E r \in Registers : ReadFactor(r)
    <2> PICK r \in Registers : ReadFactor(r)
      BY <1>2
    <2>1. /\ pc = "expected"
          /\ UNCHANGED <<pc, measured, calibrated, enable, params, gain, const, since>>
      BY DEF ReadFactor
    <2>2. since # Nothing => \A s \in DOMAIN got' : got'[s] \in since[s]
      <3> SUFFICES ASSUME since # Nothing, NEW s \in DOMAIN got' PROVE got'[s] \in since[s]
        OBVIOUS
      <3>1. CASE s \in DOMAIN got
        BY <3>1, ReadDomain DEF Asked
      <3>2. CASE s \notin DOMAIN got
        <4>1. s = r /\ got'[s] = params[r]
          BY <3>2, ReadDomain
        <4>2. enable = 1
          BY <2>1 DEF Asked, Running
        <4> QED
          BY <4>1, <4>2 DEF Asked
      <3> QED
        BY <3>1, <3>2
    <2> QED
      BY <2>1, <2>2 DEF Asked, GainIsFresh
  <1>3. CASE ComputeGain
    <2>1. /\ pc = "expected" /\ pc' = "const" /\ DOMAIN got = Registers
          /\ gain' = got /\ got' = Unread /\ UNCHANGED <<enable, params, const, since>>
      BY <1>3 DEF ComputeGain, Goto
    <2>2. got # Nothing
      BY <2>1, MeterAssumption DEF TypeOK
    <2>3. DOMAIN got' = {}
      BY <2>1 DEF Unread
    <2>4. since # Nothing => enable = 1
      BY <2>1 DEF Asked, Running
    <2> QED
      BY <2>1, <2>2, <2>3, <2>4 DEF Asked, GainIsFresh, Running
  <1>4. CASE ComputeConst
    <2>1. since # Nothing => enable = 1
      BY <1>4 DEF ComputeConst, Goto, Asked, Running
    <2>2. since # Nothing => params[Impulses] \in since[Impulses]
      BY <2>1, MeterAssumption DEF Asked
    <2> QED
      BY <1>4, <2>1, <2>2 DEF ComputeConst, Goto, Asked, GainIsFresh, Running
  <1>5. CASE Answer
    BY <1>5 DEF Answer, Goto, Asked, GainIsFresh, Running
  <1> QED
    BY <1>1, <1>2, <1>3, <1>4, <1>5 DEF Calibrating

LEMMA RequestFresh ==
    ASSUME TypeOK, Asked, WriteParam \/ AskCalibration \/ WriteFlag
    PROVE  Asked'
  <1>1. CASE WriteParam
    <2> PICK r \in Registers, p \in Params :
          /\ params' = [params EXCEPT ![r] = p]
          /\ since' = IF since = Nothing THEN Nothing
                      ELSE [since EXCEPT ![r] = IF enable = 1 THEN @ \cup {p} ELSE @]
      BY <1>1 DEF WriteParam
    <2>1. UNCHANGED <<pc, enable, got, gain, const>>
      BY <1>1 DEF WriteParam
    <2>2. since' # Nothing =>
            /\ since # Nothing
            /\ \A s \in Registers : since[s] \subseteq since'[s]
            /\ enable = 1 => p \in since'[r]
      BY DEF TypeOK
    <2>3. DOMAIN got \subseteq Registers
      BY DEF TypeOK
    <2>4. \A s \in Registers : params'[s] = IF s = r THEN p ELSE params[s]
      BY DEF TypeOK
    <2>5. since' # Nothing /\ enable = 1 => \A s \in Registers : params'[s] \in since'[s]
      BY <2>2, <2>4 DEF Asked
    <2>6. since' # Nothing => \A s \in DOMAIN got : got[s] \in since'[s]
      BY <2>2, <2>3 DEF Asked
    <2>7. since' # Nothing /\ GainIsFresh => GainIsFresh'
      BY <2>1, <2>2 DEF GainIsFresh
    <2>8. since' # Nothing /\ const \in since[Impulses] => const \in since'[Impulses]
      BY <2>2, MeterAssumption
    <2> QED
      BY <2>1, <2>2, <2>5, <2>6, <2>7, <2>8 DEF Asked
  <1>2. CASE AskCalibration
    <2>1. CASE pc \in Running
      BY <1>2, <2>1 DEF AskCalibration, Asked
    <2>2. CASE pc \notin Running
      <3>1. /\ since' = [r \in Registers |-> {params[r]}] /\ enable' = 1
            /\ UNCHANGED <<pc, params, got, gain, const>>
        BY <1>2, <2>2 DEF AskCalibration
      <3>2. got = Unread /\ DOMAIN got = {}
        BY <2>2 DEF Asked, Running, Unread
      <3> QED
        BY <2>2, <3>1, <3>2 DEF Asked, Running
    <2> QED
      BY <2>1, <2>2
  <1>3. CASE WriteFlag
    BY <1>3 DEF WriteFlag, Asked
  <1> QED
    BY <1>1, <1>2, <1>3

LEMMA AskedStep ==
    ASSUME TypeOK, Asked, [Next]_vars
    PROVE  Asked'
  <1>1. CASE PowerFail
    BY <1>1 DEF PowerFail, Asked
  <1>2. CASE Sampling \/ Showing
    <2>1. UNCHANGED energy /\ pc \notin Running /\ pc' \notin Running /\ pc # "expected" /\ pc' # "expected"
      <3>1. CASE Sampling
        BY <3>1 DEF Sampling, Sample, Running, Channels
      <3>2. CASE Showing
        BY <3>2 DEF Showing, Load, Show, Running, Channels
      <3> QED
        BY <1>2, <3>1, <3>2
    <2> QED
      BY <2>1 DEF energy, Asked, GainIsFresh, Running
  <1>3. CASE UNCHANGED <<pc, energy>>
    BY <1>3 DEF energy, Asked, GainIsFresh
  <1>4. (\E w \in Channels : Calibrate(w)) \/ StoreByte \/ UNCHANGED vars => UNCHANGED <<pc, energy>>
    BY DEF Calibrate, StoreByte, vars
  <1> QED
    BY <1>1, <1>2, <1>3, <1>4, TaskFresh, RequestFresh, NextCases

\* If nobody writes the flag after a request that comes while no calibration runs, a
\* flag that is 0 says that gain and constant have been computed since, from values
\* that their registers have held since, for any registers and parameters and
\* whoever changes them meanwhile (main.c:95-105, ADE7753.c:1015-1033).
THEOREM DoneIsCalibrated == Spec => []DoneMeansCalibrated
  <1> DEFINE Inv == TypeOK /\ SumBounded /\ Asked
  <1>1. Init => Inv
    BY InitType DEF Init, Asked
  <1>2. Inv /\ [Next]_vars => Inv'
    BY TypeStep, AskedStep
  <1>3. Inv => DoneMeansCalibrated
    BY DEF Asked, GainIsFresh, DoneMeansCalibrated
  <1> QED
    BY <1>1, <1>2, <1>3, PTL DEF Spec

----------------------------------------------------------------------------
(* What a calibration that is asked for comes to.                          *)

\* The order of the task's steps, cycle by cycle and calibration by calibration.
LEMMA Positions ==
    /\ Position["vrms load"] > Position["vrms"]
    /\ Position["vrms show"] > Position["vrms load"]
    /\ Position["irms"] > Position["vrms show"]
    /\ Position["irms load"] > Position["irms"]
    /\ Position["irms show"] > Position["irms load"]
    /\ Position["flag"] > Position["irms show"]
    /\ Position["first"] > Position["flag"]
    /\ Position["second"] > Position["first"]
    /\ Position["expected"] > Position["second"]
    /\ Position["const"] > Position["expected"]
    /\ Position["done"] > Position["const"]
    /\ Position["failed"] > Position["first"] /\ Position["failed"] > Position["second"]
  BY DEF Position, Steps

\* A reading is counted, completes the mean, or was 0 and changes nothing.
LEMMA SampleNearer ==
    ASSUME TypeOK, NEW w \in Channels, Sample(w)
    PROVE  \/ Position[pc'] > Position[pc]
           \/ pc' = pc /\ ctr' > ctr
           \/ UNCHANGED vars
  <1>1. checksum \in Nat /\ ctr \in Nat
    <2>1. Filter \in Nat /\ High \in Nat
      BY MeterAssumption
    <2>2. Filter * High \in Nat
      BY <2>1, TimesStep
    <2> DEFINE top == Filter * High
    <2>3. top \in Nat /\ checksum \in 0..top /\ ctr \in 0..(Filter - 1)
      BY <2>2 DEF TypeOK
    <2> HIDE DEF top
    <2> QED
      BY <2>1, <2>3
  <1> PICK reading \in Readings :
          LET sum == checksum + reading
              n == ctr + Counts(reading)
          IN  IF Complete(n)
              THEN pc' = IF w = "vrms" THEN "vrms load" ELSE "irms load"
              ELSE /\ checksum' = sum /\ ctr' = n
                   /\ UNCHANGED <<rms, pc>>
    BY DEF Sample
  <1> DEFINE sum == checksum + reading
             n == ctr + Counts(reading)
  <1>2. pc = w /\ UNCHANGED <<reg, shown, calibrated, energy>>
    BY DEF Sample
  <1>3. CASE Complete(n)
    <2>1. pc' = IF w = "vrms" THEN "vrms load" ELSE "irms load"
      BY <1>3
    <2> QED
      BY <2>1, <1>2, Positions DEF Channels
  <1>4. CASE ~Complete(n) /\ reading = 0
    <2>1. n = ctr /\ sum = checksum
      BY <1>1, <1>4 DEF Counts
    <2> QED
      BY <2>1, <1>2, <1>4 DEF vars, measured
  <1>5. CASE ~Complete(n) /\ reading # 0
    <2>1. n = ctr + 1
      BY <1>5 DEF Counts
    <2> QED
      BY <2>1, <1>1, <1>5
  <1> QED
    BY <1>3, <1>4, <1>5

\* Whatever the task does while a calibration is asked for, it does nearer to its
\* answer: the part of CalibrationAnswered that needs no fairness.
LEMMA ProgressNearer ==
    ASSUME TypeOK, Progress, enable = 1, enable' = 1
    PROVE  \/ Position[pc'] > Position[pc]
           \/ pc' = pc /\ ctr' > ctr
           \/ pc' = pc /\ DOMAIN got \subseteq DOMAIN got' /\ got' # got
           \/ UNCHANGED vars
  <1>1. CASE \E w \in Channels : Sample(w)
    BY <1>1, SampleNearer
  <1>2. CASE \E w \in Channels : Load(w) \/ Show(w)
    BY <1>2, Positions DEF Load, Show
  <1>3. CASE TestFlag
    BY <1>3, Positions DEF TestFlag, Goto
  <1>4. CASE CycleTimesOut
    BY <1>4, Positions DEF CycleTimesOut, MayTimeOut, AfterTimeout, Goto
  <1>5. CASE ComputeGain \/ ComputeConst
    BY <1>5, Positions DEF ComputeGain, ComputeConst, Goto
  <1>6. CASE \E r \in Registers : ReadFactor(r)
    BY <1>6, ReadDomain DEF ReadFactor
  <1>7. ~Answer
    BY DEF Answer
  <1> QED
    BY <1>1, <1>2, <1>3, <1>4, <1>5, <1>6, <1>7 DEF Progress

\* What others do leaves the task where it is, or ends a cycle of the chip for it.
LEMMA OthersSetNothingBack ==
    ASSUME [Next]_vars, ~Progress, enable' = 1
    PROVE  Position[pc'] > Position[pc] \/ UNCHANGED <<pc, ctr>>
  <1>1. CASE CycleEnds
    BY <1>1, Positions DEF CycleEnds, Goto
  <1>2. CASE Request
    BY <1>2 DEF Request, RequestSlope, RequestEnergy, Calibrate, WriteParam, AskCalibration, WriteFlag, measured
  <1>3. CASE StoreByte
    BY <1>3 DEF StoreByte, measured
  <1>4. ~PowerFail
    BY DEF PowerFail
  <1>5. CASE UNCHANGED vars
    BY <1>5 DEF vars, measured
  <1> QED
    BY <1>1, <1>2, <1>3, <1>4, <1>5 DEF Next

\* For every filter and every range of readings, a calibration that is asked for
\* is brought nearer to its answer by every step of the task, and by no step of
\* anybody taken back (main.c:72-111).
THEOREM NothingDelaysTheAnswer == Spec => AnswerComesNearer
  <1> DEFINE Nearer == enable = 1 /\ enable' = 1
                         => \/ Position[pc'] > Position[pc]
                            \/ pc' = pc /\ ctr' > ctr
                            \/ pc' = pc /\ DOMAIN got \subseteq DOMAIN got' /\ got' # got
                            \/ pc' = pc /\ ctr' = ctr /\ ~Progress
  <1>1. TypeOK /\ [Next]_vars => [Nearer]_vars
    <2> SUFFICES ASSUME TypeOK, [Next]_vars, enable = 1, enable' = 1, ~UNCHANGED vars
                 PROVE  \/ Position[pc'] > Position[pc]
                        \/ pc' = pc /\ ctr' > ctr
                        \/ pc' = pc /\ DOMAIN got \subseteq DOMAIN got' /\ got' # got
                        \/ pc' = pc /\ ctr' = ctr /\ ~Progress
      OBVIOUS
    <2> QED
      BY ProgressNearer, OthersSetNothingBack
  <1> QED
    BY <1>1, TypeCorrect, PTL DEF Spec, AnswerComesNearer
=============================================================================
