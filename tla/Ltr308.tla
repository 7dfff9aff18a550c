------------------------------- MODULE Ltr308 -------------------------------
(***************************************************************************)
(* The ambient light sensor driver ltr308.cpp, one step per I2C            *)
(* transaction, and the sensor, which measures on its own.                 *)
(*                                                                         *)
(* The sensor is external.  The driver relies on this much of it: a        *)
(* measurement replaces the three data registers together and raises the   *)
(* data status; reading the first data register lowers it; a measurement   *)
(* is scaled by the gain and integration time in force.  Light is not      *)
(* modelled: a data byte stands for the measurement it belongs to.         *)
(***************************************************************************)
EXTENDS Integers

RETRY_COUNT == 5

VARIABLES
  pc,          \* the transaction the driver makes next
  initDone,    \* g_initDone
  i,           \* the loop counter of AlsGetValue
  ret,         \* what AlsGetValue returned last
  raw,         \* the measurements low, middle and high were read from
  gain,        \* the local gain of AlsGetValue, 0 until it is read
  lux,         \* the caller's *lux: what it was computed from
  chip,        \* (external) the registers of the sensor; faulty: I2C
               \* transactions may fail
  failed,      \* some transaction of the running call has failed
  polled       \* AlsGetValue has seen the data status raised

driver == <<pc, initDone, i, ret, raw, gain, lux, failed, polled>>
vars == <<driver, chip>>

\* A measurement: its settings, and whether its low byte has been read before.
Sample == [gain: 0 .. 4, resolution: 0 .. 4, read: BOOLEAN]

NoSample == [gain |-> 0, resolution |-> 0, read |-> TRUE]
NoRaw == [k \in 1 .. 3 |-> NoSample]
NoLux == [gain |-> 0, itTimeMs |-> 0]

\* GetLtr308GainRange: the local keeps its value, 0, for the codes it does not know.
GainRange(code) ==
  CASE code = 0 -> 1 [] code = 1 -> 3 [] code = 2 -> 6 [] code = 3 -> 9
    [] code = 4 -> 18 [] OTHER -> 0

ConvertResolutionIndexToItTime(resolution) ==
  CASE resolution = 0 -> 400 [] resolution = 1 -> 200 [] resolution = 2 -> 100
    [] resolution = 3 -> 50 [] resolution = 4 -> 25 [] OTHER -> 100

Init ==
  /\ pc = "idle" /\ initDone = 0 /\ i = 0 /\ ret = -1
  /\ raw = NoRaw /\ gain = 0 /\ lux = NoLux
  /\ failed = FALSE /\ polled = FALSE
  \* The sensor after power-on.
  /\ chip \in [on: {FALSE}, gain: {1}, resolution: {2}, new: {FALSE},
              settled: {TRUE}, sample: {NoSample}, faulty: BOOLEAN]

-----------------------------------------------------------------------------
(* The sensor (external).  It finishes a measurement: settled says that it *)
(* has done so since its settings or its mode were last written.           *)

Measure ==
  /\ chip.on
  /\ chip' = [chip EXCEPT !.new = TRUE, !.settled = TRUE,
                          !.sample = [gain |-> chip.gain, read |-> FALSE,
                                      resolution |-> chip.resolution]]
  /\ UNCHANGED driver

-----------------------------------------------------------------------------
(* One I2C transaction: it reads or changes the chip, or fails.            *)

Fault ==
  /\ chip.faulty
  /\ failed' = TRUE
  /\ UNCHANGED chip

\* A register write whose result the caller ignores; then is the next step.
WriteReg(from, newChip, then) ==
  /\ pc = from
  /\ pc' = then
  /\ \/ Fault
     \/ chip' = newChip /\ UNCHANGED failed
  /\ UNCHANGED <<i, ret, raw, gain, lux, polled>>

\* AlsGetValue returns r and its locals are gone.
Return(r) ==
  /\ pc' = "idle"
  /\ ret' = r
  /\ i' = 0
  /\ raw' = NoRaw
  /\ gain' = 0
  /\ polled' = FALSE

\* Mutant: the return value of the read is not looked at.
ReadFailsUnseen(from) ==
  /\ pc = from
  /\ Fault
  /\ Return(0)
  /\ UNCHANGED <<initDone, lux>>

\* A register read by AlsGetValue: a failure makes it return RET_ERROR.
ReadFails(from) ==
  /\ pc = from
  /\ Fault
  /\ Return(-1)
  /\ UNCHANGED <<initDone, lux>>

-----------------------------------------------------------------------------
(* AlsInit, AlsEnable, AlsDisable: all void *)

Begin(first) ==
  /\ pc = "idle"
  /\ pc' = first
  /\ failed' = FALSE
  /\ UNCHANGED <<initDone, i, ret, raw, gain, lux, chip, polled>>

AlsInit    == Begin("part id")
AlsEnable  == Begin("enable")
AlsDisable == Begin("disable")

\* The part id is read and dropped.
ReadPartId == WriteReg("part id", chip, "gain") /\ UNCHANGED initDone

SetGain ==
  /\ WriteReg("gain", [chip EXCEPT !.gain = 4, !.settled = FALSE], "rate")
  /\ UNCHANGED initDone

\* g_initDone is set before the sensor is enabled, and whatever failed so far.
SetMeasRate ==
  /\ WriteReg("rate", [chip EXCEPT !.resolution = 0, !.settled = FALSE],
              "enable")
  /\ initDone' = 1

\* Mutant: no delay after the sensor is switched on.
EnableAtOnce ==
  /\ WriteReg("enable", [chip EXCEPT !.on = TRUE, !.settled = chip.on /\ @], "idle")
  /\ UNCHANGED initDone

Enable ==
  /\ WriteReg("enable", [chip EXCEPT !.on = TRUE, !.settled = chip.on /\ @], "delay")
  /\ UNCHANGED initDone

\* The 500 ms after the write are enough for a measurement of a sensor that is
\* on, at every setting.
EnableDelay ==
  /\ pc = "delay"
  /\ chip.on => chip.settled
  /\ pc' = "idle"
  /\ UNCHANGED <<initDone, i, ret, raw, gain, lux, chip, failed, polled>>

Disable == WriteReg("disable", [chip EXCEPT !.on = FALSE], "idle") /\ UNCHANGED initDone

-----------------------------------------------------------------------------
(* AlsGetValue *)

AlsGetValue ==
  /\ pc = "idle"
  /\ failed' = FALSE
  /\ \/ initDone = 0 /\ Return(-1)
     \/ initDone = 1 /\ pc' = "status" /\ UNCHANGED <<ret, i, raw, gain, polled>>
  /\ UNCHANGED <<initDone, lux, chip>>

\* Mutant: the loop ends at the first poll, whatever it finds.
PollStatusOnce ==
  /\ pc = "status"
  /\ pc' = "data 0"
  /\ polled' = chip.new
  /\ UNCHANGED <<initDone, i, ret, raw, gain, lux, chip, failed>>

\* Mutant: polls are not counted.
PollStatusForEver ==
  /\ pc = "status"
  /\ IF chip.new THEN pc' = "data 0" /\ polled' = TRUE ELSE UNCHANGED <<pc, polled>>
  /\ UNCHANGED <<initDone, i, ret, raw, gain, lux, chip, failed>>

\* One poll; after the last one the driver goes on with the data it has.
PollStatus ==
  /\ pc = "status"
  /\ \/ /\ chip.new
        /\ pc' = "data 0"
        /\ polled' = TRUE
        /\ UNCHANGED i
     \/ /\ ~chip.new
        /\ i' = i + 1
        /\ pc' = IF i + 1 < RETRY_COUNT THEN "status" ELSE "data 0"
        /\ UNCHANGED polled
  /\ UNCHANGED <<initDone, ret, raw, gain, lux, chip, failed>>

\* The low, middle and high byte are three transactions.
ReadData(from, k, then) ==
  /\ pc = from
  /\ raw' = [raw EXCEPT ![k] = chip.sample]
  /\ chip' = IF k = 1 THEN [chip EXCEPT !.new = FALSE, !.sample.read = TRUE] ELSE chip
  /\ pc' = then
  /\ UNCHANGED <<initDone, i, ret, gain, lux, failed, polled>>

\* Mutant: the gain AlsInit has asked for is taken for granted.
ReadGainAssumed ==
  /\ pc = "gain range"
  /\ gain' = GainRange(4)
  /\ pc' = "meas rate"
  /\ UNCHANGED <<initDone, i, ret, raw, lux, chip, failed, polled>>

ReadGain ==
  /\ pc = "gain range"
  /\ gain' = GainRange(chip.gain)
  /\ pc' = "meas rate"
  /\ UNCHANGED <<initDone, i, ret, raw, lux, chip, failed, polled>>

ReadMeasRate ==
  /\ pc = "meas rate"
  /\ lux' = [gain |-> gain,
             itTimeMs |-> ConvertResolutionIndexToItTime(chip.resolution)]
  /\ Return(0)
  /\ UNCHANGED <<initDone, chip, failed>>

Reads == {"status", "data 0", "data 1", "data 2", "gain range", "meas rate"}

Driver ==
  \/ ReadPartId \/ SetGain \/ SetMeasRate \/ Enable \/ EnableDelay \/ Disable
  \/ PollStatus
  \/ ReadData("data 0", 1, "data 1")
  \/ ReadData("data 1", 2, "data 2")
  \/ ReadData("data 2", 3, "gain range")
  \/ ReadGain \/ ReadMeasRate
  \/ \E from \in Reads : ReadFails(from)

Next == Measure \/ AlsInit \/ AlsEnable \/ AlsDisable \/ AlsGetValue \/ Driver

\* The driver keeps running, and a sensor that is on keeps measuring.
Spec == Init /\ [][Next]_vars /\ WF_vars(Driver) /\ WF_vars(Measure)

-----------------------------------------------------------------------------
(* Properties *)

TypeOK ==
  /\ pc \in {"idle", "part id", "gain", "rate", "enable", "delay", "disable"} \cup Reads
  /\ initDone \in {0, 1}
  /\ i \in 0 .. RETRY_COUNT
  /\ ret \in {-1, 0}
  /\ raw \in [1 .. 3 -> Sample]
  /\ gain \in {0, 1, 3, 6, 9, 18}

\* The value AlsGetValue stores is scaled by the gain and integration time the
\* measurement was made with: the driver reads both back from the sensor, so
\* the settings AlsInit writes, and the calls made before it, cannot make the
\* two disagree.  When transactions fail this is so while the sensor is on:
\* AlsInit does not tell that it could not switch it on, and AlsGetValue then
\* scales what an earlier measurement left behind.
ScaleMatchesSample ==
  [][ pc = "meas rate" /\ pc' = "idle" /\ ret' = 0 /\ (chip.faulty => chip.on) =>
        \A k \in 1 .. 3 : raw[k].gain # NoSample.gain =>
          /\ lux'.gain = GainRange(raw[k].gain)
          /\ lux'.itTimeMs = ConvertResolutionIndexToItTime(raw[k].resolution) ]_vars

\* AlsGetValue returns 0 only when every one of its transactions succeeded and
\* after AlsInit, and it stores a value exactly when it returns 0; an error on
\* the way leaves the value of the caller alone.
ErrorsAreReported ==
  [][ /\ lux' # lux => ret' = 0
      /\ pc \in Reads /\ pc' = "idle" => (ret' = 0 <=> ~failed')
      /\ pc' = "status" => initDone = 1 ]_vars

\* A value whose measurement was read before is stored again only after the
\* status was polled RETRY_COUNT times in vain.
StaleOnlyAfterRetries ==
  [][ pc = "meas rate" /\ pc' = "idle" /\ ret' = 0 /\ raw[1].read =>
        i = RETRY_COUNT /\ ~polled ]_vars

\* Every call returns, also when the sensor is off and its status never rises.
CallsReturn == pc # "idle" ~> pc = "idle"

\* ltr308.h:12 - "continuous ALS sensing is enabled with new data ready every
\* 100ms": the integration time of a measurement is at most that long.
DataEvery100ms ==
  pc = "idle" /\ initDone = 1 /\ chip.on /\ ~failed =>
    ConvertResolutionIndexToItTime(chip.resolution) <= 100

\* ltr308.h:24-25 - AlsGetValue returns 0 on an error and more than 0 when it
\* has stored a value.
ReturnsPositiveOnValue ==
  [][ lux' # lux => ret' > 0 ]_vars
=============================================================================
