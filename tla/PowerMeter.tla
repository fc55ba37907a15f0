----------------------------- MODULE PowerMeter -----------------------------
(***************************************************************************)
(* The power meter: the meter task (USER/main.c:72-111), which measures and *)
(* calibrates phase B through HARDWARE/ADE7753/ADE7753.c, and the requests   *)
(* that calibrate it (MODBUS/modbus.c:702-745).  The task has priority 1,    *)
(* requests come in between any two of its steps.                            *)
(* Phases A and C have the same requests, but the task never serves them.    *)
(***************************************************************************)
EXTENDS Integers, Sequences

CONSTANTS Low, High,    \* readings of the chip that are not zero
          Filter,       \* VOLTAGE_FILTER and CURRENT_FILTER, both 100
          Values,       \* what a master says the voltage or the current is
          Infinite,     \* the slope value / 0
          Blank,        \* the slope ff ff ff ff of a blank EEPROM
          Torn,         \* a slope of which some bytes are of another calibration
          Registers,    \* cf_imp_per_kwh, Vtest and Itest, written by masters
          Impulses,     \* the first of them
          Params,       \* what masters write to them
          Zero,         \* what they hold before
          Nothing       \* no gain or constant has been computed

Contents == Params \cup {Zero}

ASSUME MeterAssumption ==
    /\ Low \in Nat /\ High \in Nat /\ 0 < Low /\ Low <= High
    /\ Filter \in Nat \ {0}
    /\ Impulses \in Registers
    /\ Nothing \notin [Registers -> Contents]

Channels == {"vrms", "irms"}
Slopes == Values \cup {Infinite, Blank}

\* The slope in vrms_cal[PHASE_B] or irms_cal[PHASE_B], known by its first and last
\* byte, and each byte by the calibration it is from.  The point (value and adc),
\* which is stored before it in the same way, is only shown to masters.
Bytes == {"first", "last"}

\* Mutant: the last byte is not stored.
StoreOrderShort == <<"first">>

StoreOrder == <<"first", "last">>
Record(s) == [b \in Bytes |-> s]

VARIABLES pc,       \* where the meter task is
          checksum, ctr,   \* of get_vrms and get_irms
          rms,      \* ro_voltage_rms, ro_current_rms
          reg,      \* the slope that is being multiplied
          shown,    \* ro_vrms_value, ro_irms_value: by which slope
          cal,      \* vrms_cal, irms_cal in RAM
          ee,       \* and in EEPROM
          job,      \* what the requesting task has still to store
          lost,     \* history: the channels of whose calibration a byte was lost
          enable,   \* cf_calibration_enable
          params,   \* the registers that cf_expected is computed from
          got,      \* those that the computation has read
          gain,     \* rw_power_gain: from what it was computed
          const,    \* const_w_lsb: from which cf_imp_per_kwh
          since     \* history: what each register has held since the calibration
                    \* was asked for; Nothing when no answer to it is promised

measured == <<checksum, ctr, rms, reg, shown>>
calibrated == <<cal, ee, job, lost>>
energy == <<enable, params, got, gain, const, since>>
vars == <<pc, measured, calibrated, energy>>

Steps == {"vrms", "vrms load", "vrms show", "irms", "irms load", "irms show",
          "flag", "first", "second", "expected", "const", "done", "failed"}

Unread == [r \in {} |-> Zero]

\* In watt_hour_calibration_cf and the statement after it.
Running == {"first", "second", "expected", "const", "done", "failed"}

NoJob == [of |-> "vrms", bytes |-> <<>>]

\* EEP_Dat_Init loads the slopes without a test of what they are.
Init ==
    /\ pc = "vrms" /\ checksum = 0 /\ ctr = 0 /\ reg = Blank
    /\ rms = [w \in Channels |-> 0]
    /\ shown = [w \in Channels |-> Blank]
    /\ ee = [w \in Channels |-> Record(Blank)]
    /\ cal = ee /\ job = NoJob /\ lost = {}
    /\ enable = 0 /\ params = [r \in Registers |-> Zero] /\ got = Unread
    /\ gain = Nothing /\ const = Nothing /\ since = Nothing

----------------------------------------------------------------------------
(* Measuring: get_vrms and get_irms.                                       *)

\* poll_vrms and poll_irms are 0 when the voltage has not crossed zero for
\* 100 ticks; the current may be 0 by itself.
Readings == {0} \cup Low..High

\* Mutant: a reading that timed out is counted.
CountsAlways(reading) == 1

\* A reading of 0 is not counted.
Counts(reading) == IF reading = 0 THEN 0 ELSE 1

\* Mutant: one reading too many is awaited.
CompleteLate(n) == n > Filter

Complete(n) == n >= Filter

Sample(w) ==
    /\ pc = w
    /\ \E reading \in Readings :
          LET sum == checksum + reading
              n == ctr + Counts(reading)
          IN  IF Complete(n)
              THEN /\ rms' = [rms EXCEPT ![w] = sum \div Filter]
                   /\ checksum' = 0 /\ ctr' = 0
                   /\ pc' = IF w = "vrms" THEN "vrms load" ELSE "irms load"
              ELSE /\ checksum' = sum /\ ctr' = n
                   /\ UNCHANGED <<rms, pc>>
    /\ UNCHANGED <<reg, shown, calibrated, energy>>

Slope(record) == IF record["first"] = record["last"] THEN record["last"] ELSE Torn

\* Mutant: get_irms multiplies by the slope of the voltage.
SlopeOfVoltage(w) == Slope(cal["vrms"])

\* The multiplication takes its slope before it has its result.
SlopeOf(w) == Slope(cal[w])

Load(w) ==
    /\ \/ w = "vrms" /\ pc = "vrms load" /\ pc' = "vrms show"
       \/ w = "irms" /\ pc = "irms load" /\ pc' = "irms show"
    /\ reg' = SlopeOf(w)
    /\ UNCHANGED <<checksum, ctr, rms, shown, calibrated, energy>>

Show(w) ==
    /\ \/ w = "vrms" /\ pc = "vrms show" /\ pc' = "irms"
       \/ w = "irms" /\ pc = "irms show" /\ pc' = "flag"
    /\ shown' = [shown EXCEPT ![w] = reg]
    /\ reg' = Blank
    /\ UNCHANGED <<checksum, ctr, rms, calibrated, energy>>

----------------------------------------------------------------------------
(* The energy calibration: main.c:95-105, watt_hour_calibration_cf.        *)

Goto(from, to) ==
    /\ pc = from /\ pc' = to
    /\ UNCHANGED <<measured, calibrated>>

TestFlag == /\ Goto("flag", IF enable = 1 THEN "first" ELSE "vrms")
            /\ UNCHANGED energy

\* do_lincyc waits for the end of two accumulations over line cycles.  The chip
\* need not accumulate: its mode is never written, write_ade7753_mode_register
\* reads it instead.
CycleEnds ==
    /\ Goto("first", "second") \/ Goto("second", "expected")
    /\ UNCHANGED energy

\* Mutant: the first wait of do_lincyc has no timeout.
MayTimeOutOnce == pc = "second"

\* 546000 ticks are over; some settings of LINECYC take longer.
MayTimeOut == pc \in {"first", "second"}

\* Mutant: the result of do_lincyc is not looked at.
AfterTimeoutGoesOn == "done"

\* Mutant: after a timeout the request is left for the next turn of the task.
AfterTimeoutRetries == "vrms"

AfterTimeout == "failed"

CycleTimesOut == /\ MayTimeOut
                 /\ Goto(pc, AfterTimeout)
                 /\ UNCHANGED energy

\* The factors of cf_expected are read in an order that C leaves open, and
\* cf_imp_per_kwh once more for the constant.
ReadFactor(r) ==
    /\ pc = "expected" /\ r \notin DOMAIN got
    /\ got' = [s \in DOMAIN got \cup {r} |-> IF s = r THEN params[r] ELSE got[s]]
    /\ UNCHANGED <<pc, measured, calibrated, enable, params, gain, const, since>>

ComputeGain == /\ Goto("expected", "const")
               /\ DOMAIN got = Registers
               /\ gain' = got /\ got' = Unread
               /\ UNCHANGED <<enable, params, const, since>>

ComputeConst == /\ Goto("const", "done")
                /\ const' = params[Impulses]
                /\ UNCHANGED <<enable, params, got, gain, since>>

Answer == /\ \/ Goto("done", "vrms") /\ enable' = 0
             \/ Goto("failed", "vrms") /\ enable' = 2
          /\ UNCHANGED <<params, got, gain, const, since>>

----------------------------------------------------------------------------
(* Requests.                                                               *)

\* One task calibrates voltage and current, it stores all bytes before it
\* takes the next request.
Calibrate(w) ==
    /\ job = NoJob
    /\ \E v \in Values :
          cal' = [cal EXCEPT ![w] = Record(IF rms[w] = 0 THEN Infinite ELSE v)]
    /\ job' = [of |-> w, bytes |-> StoreOrder]
    /\ lost' = lost \ {w}
    /\ UNCHANGED <<pc, measured, ee, energy>>

\* AT24CXX_WriteOneByte.  The chip ignores the byte when another task, which
\* stores its settings, closes the write protection in this one's sleep or
\* keeps the chip programming (EepromBus); nobody looks at the acknowledgement.
StoreByte ==
    /\ job.bytes # <<>>
    /\ LET b == Head(job.bytes)
           rest == Tail(job.bytes)
       IN  /\ \/ /\ ee' = [ee EXCEPT ![job.of][b] = cal[job.of][b]]
                 /\ UNCHANGED lost
              \/ /\ lost' = lost \cup {job.of}
                 /\ UNCHANGED ee
           /\ job' = IF rest = <<>> THEN NoJob ELSE [job EXCEPT !.bytes = rest]
    /\ UNCHANGED <<pc, measured, cal, energy>>

WriteParam ==
    /\ \E r \in Registers, p \in Params :
          /\ params' = [params EXCEPT ![r] = p]
          /\ since' = IF since = Nothing THEN Nothing
                      ELSE [since EXCEPT ![r] = IF enable = 1 THEN @ \cup {p} ELSE @]
    /\ UNCHANGED <<pc, measured, calibrated, enable, got, gain, const>>

\* A request that comes while a calibration runs is overwritten by its answer.
AskCalibration ==
    /\ enable' = 1
    /\ since' = IF pc \in Running THEN Nothing ELSE [r \in Registers |-> {params[r]}]
    /\ UNCHANGED <<pc, measured, calibrated, params, got, gain, const>>

\* Any value but 1 asks for nothing, and what has been asked for is withdrawn.
WriteFlag ==
    /\ enable' \in {0, 2} /\ since' = Nothing
    /\ UNCHANGED <<pc, measured, calibrated, params, got, gain, const>>

\* The device restarts; the EEPROM keeps what has been stored.
PowerFail ==
    /\ pc' = "vrms" /\ checksum' = 0 /\ ctr' = 0 /\ reg' = Blank
    /\ rms' = [w \in Channels |-> 0]
    /\ shown' = [w \in Channels |-> Blank]
    /\ cal' = ee /\ job' = NoJob /\ lost' = {}
    /\ enable' = 0 /\ params' = [r \in Registers |-> Zero] /\ got' = Unread
    /\ gain' = Nothing /\ const' = Nothing /\ since' = Nothing
    /\ UNCHANGED ee

\* What the task does by itself, if readings other than 0 come in the end; a
\* step that does not count its reading changes nothing.
Progress == \/ \E w \in Channels : Sample(w) \/ Load(w) \/ Show(w)
            \/ TestFlag \/ CycleTimesOut
            \/ (\E r \in Registers : ReadFactor(r)) \/ ComputeGain \/ ComputeConst \/ Answer
RequestSlope == \E w \in Channels : Calibrate(w)
RequestEnergy == WriteParam \/ AskCalibration \/ WriteFlag
Request == RequestSlope \/ RequestEnergy

Next == Progress \/ CycleEnds \/ Request \/ StoreByte \/ PowerFail

Spec == Init /\ [][Next]_vars
FairSpec == Spec /\ WF_vars(Progress)

----------------------------------------------------------------------------
(* Properties.                                                             *)

\* The meter's variables keep their types; never more readings are counted than
\* the filter takes, and their sum stays below that many highest readings.
TypeOK ==
    /\ pc \in Steps
    /\ checksum \in 0..(Filter * High) /\ ctr \in 0..(Filter - 1)
    /\ rms \in [Channels -> Nat]
    /\ reg \in Slopes \cup {Torn} /\ shown \in [Channels -> Slopes \cup {Torn}]
    /\ cal \in [Channels -> [Bytes -> Slopes]]
    /\ ee \in [Channels -> [Bytes -> Slopes]]
    /\ job \in [of : Channels, bytes : Seq(Bytes)]
    /\ lost \in SUBSET Channels
    /\ enable \in 0..2
    /\ params \in [Registers -> Contents]
    /\ \E read \in SUBSET Registers : got \in [read -> Contents]
    /\ gain \in [Registers -> Contents] \cup {Nothing}
    /\ const \in Contents \cup {Nothing}
    /\ since \in [Registers -> SUBSET Contents] \cup {Nothing}

\* However often the mains or the load fail during a measurement, what is
\* published lies between the lowest and the highest reading of the chip
\* (ADE7753.c:724-743); it is 0 only before the first measurement is complete.
RmsWithinReadings == \A w \in Channels : rms[w] = 0 \/ rms[w] \in Low..High

\* While no byte is left to store, a restart loads the calibration that is in
\* force, wherever power has failed before and whatever was lost of earlier ones,
\* unless the chip has ignored a byte of this one (modbus.c:708-719, main.c:512-530).
CalibrationIsStored == job = NoJob => \A w \in Channels \ lost : ee[w] = cal[w]

\* A master sets the flag to 1 while no calibration runs, nobody writes the flag
\* after that, and it becomes 0: gain and constant have been computed since, each
\* from values that its registers have held since, whoever changed them meanwhile
\* and whatever timed out before (main.c:95-105, ADE7753.c:1015-1033).
DoneMeansCalibrated ==
    enable = 0 /\ since # Nothing
        => /\ gain # Nothing /\ \A r \in Registers : gain[r] \in since[r]
           /\ const \in since[Impulses]

\* Every request for a calibration is answered by done or failed, also when the
\* chip never ends a line cycle (ADE7753.c:977, 995); a restart forgets it.
CalibrationAnswered == enable = 1 ~> enable # 1

\* How far the task is on its way to the answer.
Position == [s \in Steps |->
    CASE s = "vrms" -> 0 [] s = "vrms load" -> 1 [] s = "vrms show" -> 2
      [] s = "irms" -> 3 [] s = "irms load" -> 4 [] s = "irms show" -> 5
      [] s = "flag" -> 6 [] s = "first" -> 7 [] s = "second" -> 8
      [] s = "expected" -> 9 [] s = "const" -> 10 [] OTHER -> 11]

\* While a calibration is asked for, whatever the task does brings its answer
\* nearer, a timeout of the chip included, and no request of any master and no
\* answer of the chip takes it back a step (main.c:72-111, ADE7753.c:724-743, 977).
AnswerComesNearer ==
    [][enable = 1 /\ enable' = 1
         => \/ Position[pc'] > Position[pc]
            \/ pc' = pc /\ ctr' > ctr
            \/ pc' = pc /\ DOMAIN got \subseteq DOMAIN got' /\ got' # got
            \/ pc' = pc /\ ctr' = ctr /\ ~Progress]_vars

\* When masters stop calibrating and power stops failing, both values are in the
\* end shown by the slope that is in force, whatever was in the multiplication
\* when it was set (ADE7753.c:743-745, 796-798).
CalibrationShows ==
    <>[][cal' = cal /\ ~PowerFail]_vars => <>[](\A w \in Channels : shown[w] = Slope(cal[w]))
=============================================================================
