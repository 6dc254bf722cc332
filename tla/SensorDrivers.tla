--------------------------- MODULE SensorDrivers ---------------------------
(* The STM32 sensor tasks and the flight loop that drains their signals:    *)
(* BMI08x and ADIS16500 IMUs, DPS310 barometer, IIS2MDC and IST8308         *)
(* magnetometers, LLV3HP lidar, MS4525 and DLHR pitot sensors. The tasks    *)
(* run in interrupt executors, so what a task does between two awaits is    *)
(* one step to the flight loop, and they preempt it between any two takes.  *)
(* A signal holds the last result only. Of a reading only what a consumer   *)
(* relies on is kept: whether it is a measurement not handed out before,    *)
(* which the device's registers settle, not what the driver took it for.    *)
EXTENDS Integers, FiniteSets

CONSTANT Boards          \* boards and builds of them: <<fitted, realtime, counting>>

Imus == {"bmi", "adis"}
Polled == {"dps", "iis", "ist", "llv", "dlhr"}
Known == Imus \cup Polled \cup {"ms"}

(* The drivers that keep publish counters. The one board that counts what   *)
(* it takes fits no other.                                                  *)
Recorders == {"bmi", "dps", "ist", "llv", "ms"}

ASSUME DriversAssumption ==
  /\ Boards \subseteq (SUBSET Known) \X BOOLEAN \X BOOLEAN
  /\ \A b \in Boards : b[3] => b[1] \subseteq Recorders

VARIABLES
  fitted,      \* the drivers whose tasks the board spawns
  realtime,    \* the flight loop drains the IMU apart from the rest
  counting,    \* a build with the diagnostics' counters
  pc,          \* where each task stands: init, sleep, wait, waitT, dead
  named,       \* BMI08x: both chip ids were recognised
  conv,        \* a device's data registers: old, busy converting, new
  readyP,      \* DPS310: the pressure status read earlier in this round
  summed,      \* MS4525: what the sums hold: none, new readings only, or one again
  slot,        \* each Signal: empty, err, or Ok with a new, repeated or blank reading
  heard,       \* the last result the flight loop took
  todo,        \* signals the running drain has yet to try
  taken,       \* results of the running drain, not counted yet
  balance      \* publish counter - overwrite counter - consume counter

boardVars == <<fitted, realtime, counting>>
vars == <<boardVars, pc, named, conv, readyP, summed, slot, heard, todo, taken, balance>>
loopVars == <<heard, todo, taken>>

Results == {"err", "new", "again", "blank"}
MaxBalance == 4

(* One type invariant. *)
TypeOK ==
  /\ boardVars \in Boards
  /\ pc \in [fitted -> {"init", "sleep", "wait", "waitT", "dead"}]
  /\ named \in BOOLEAN /\ readyP \in BOOLEAN /\ summed \in {"none", "new", "again"}
  /\ conv \in [fitted -> {"old", "busy", "new"}]
  /\ slot \in [fitted -> Results \cup {"empty"}]
  /\ heard \in [fitted -> Results \cup {"empty"}]
  /\ todo \subseteq fitted /\ taken \subseteq fitted
  /\ balance \in [fitted -> -MaxBalance .. MaxBalance]

Init ==
  /\ \E b \in Boards : fitted = b[1] /\ realtime = b[2] /\ counting = b[3]
  /\ pc = [d \in fitted |-> IF d = "dlhr" THEN "sleep" ELSE "init"]
  /\ named = FALSE /\ readyP = FALSE /\ summed = "none"
  /\ conv = [d \in fitted |-> "old"]
  /\ slot = [d \in fitted |-> "empty"]
  /\ heard = [d \in fitted |-> "empty"]
  /\ todo = {} /\ taken = {}
  /\ balance = [d \in fitted |-> 0]

-----------------------------------------------------------------------------
(* Where the diagnostics count what a driver publishes.                     *)
Records(d) == counting /\ d \in Recorders

(* Mutated form: a result that replaces one is counted as one more. *)
PublishUnasked(d, r) ==
  /\ slot' = [slot EXCEPT ![d] = r]
  /\ balance' = [balance EXCEPT ![d] = IF Records(d) /\ @ < MaxBalance THEN @ + 1 ELSE @]

(* signal(), after the producer's counters where they are kept: a result    *)
(* still pending is overwritten and counted as such.                        *)
Publish(d, r) ==
  /\ slot' = [slot EXCEPT ![d] = r]
  /\ balance' = [balance EXCEPT ![d] =
       IF Records(d) /\ slot[d] = "empty" /\ @ < MaxBalance THEN @ + 1 ELSE @]

Silent == UNCHANGED <<slot, balance>>

Goto(d, p) == pc' = [pc EXCEPT ![d] = p]

(* The set-up of a sensor: identity, reset, configuration. The first step   *)
(* that fails publishes its error and ends the task for good.               *)
Starts(d) ==
  /\ d \in fitted /\ pc[d] = "init"
  /\ \/ Goto(d, "sleep") /\ Silent
     \/ Goto(d, "dead") /\ Publish(d, "err")
  /\ UNCHANGED <<named, conv, readyP, summed>> /\ UNCHANGED loopVars

SetupAdis == Starts("adis")    \* product id, self test, filter, rate
SetupDps == Starts("dps")      \* product id, coefficients, configuration
SetupIis == Starts("iis")      \* id, reset, configuration read back
SetupIst == Starts("ist")      \* id, reset, averaging, range, mode
SetupLlv == Starts("llv")      \* status, health, acquisition registers
SetupMs == Starts("ms")        \* two trial reads and a status

(* BMI08x ignores what the bus answers: an id it does not recognise leaves  *)
(* a scale of zero, and sampling begins all the same.                       *)
BmiIds == BOOLEAN

SetupBmi ==
  /\ "bmi" \in fitted /\ pc["bmi"] = "init"
  /\ Goto("bmi", "sleep")
  /\ named' \in BmiIds
  /\ Silent /\ UNCHANGED <<conv, readyP, summed>> /\ UNCHANGED loopVars

(* A transfer that fails, a checksum or a status that is wrong is an error. *)
AdisResults == {"new", "err"}

(* A data-ready edge of an IMU, the read it wakes, and the result. The BMI  *)
(* publishes zeros when the read failed.                                    *)
SampleBmi ==
  /\ "bmi" \in fitted /\ pc["bmi"] = "sleep" /\ conv["bmi"] = "new"
  /\ conv' = [conv EXCEPT !["bmi"] = "old"]
  /\ \E read \in BOOLEAN : Publish("bmi", IF named /\ read THEN "new" ELSE "blank")
  /\ UNCHANGED <<pc, named, readyP, summed>> /\ UNCHANGED loopVars

SampleAdis ==
  /\ "adis" \in fitted /\ pc["adis"] = "sleep" /\ conv["adis"] = "new"
  /\ conv' = [conv EXCEPT !["adis"] = "old"]
  /\ \E r \in AdisResults : Publish("adis", r)
  /\ UNCHANGED <<pc, named, readyP, summed>> /\ UNCHANGED loopVars

(* The start of a round: the measurement is commanded. A failed command     *)
(* ends the round with an error, or, for the lidar and the DLHR, leaves one *)
(* behind and the round goes on to its reading.                             *)
Commands(d, onError) ==
  /\ d \in fitted /\ pc[d] = "sleep"
  /\ \/ Goto(d, "wait") /\ Silent /\ conv' = [conv EXCEPT ![d] = "busy"]
     \/ Goto(d, onError) /\ Publish(d, "err") /\ UNCHANGED conv
  /\ UNCHANGED <<named, readyP, summed>> /\ UNCHANGED loopVars

CommandDps == Commands("dps", "sleep")
CommandIis == Commands("iis", "sleep")
CommandIst == Commands("ist", "sleep")
CommandLlv == Commands("llv", "wait")

(* The DLHR waits for an edge from now on: one before a failed command,     *)
(* late from the last round, wakes nobody.                                  *)
CommandDlhr ==
  \/ conv["dlhr"] # "new" /\ Commands("dlhr", "wait")
  \/ /\ pc["dlhr"] = "sleep" /\ conv["dlhr"] = "new" /\ Goto("dlhr", "wait")
     /\ \/ Silent /\ conv' = [conv EXCEPT !["dlhr"] = "busy"]
        \/ Publish("dlhr", "err") /\ conv' = [conv EXCEPT !["dlhr"] = "old"]
     /\ UNCHANGED <<named, readyP, summed>> /\ UNCHANGED loopVars

(* The status read together with the data, and what the data are.           *)
Ready(d) == conv[d] = "new"
Reading(fresh) == IF fresh THEN "new" ELSE "again"
ReadOut(d) == [conv EXCEPT ![d] = IF @ = "new" THEN "old" ELSE @]

(* Mutated form: data are taken for a measurement whatever the status. *)
AcceptsAny(d, ready) == TRUE

(* What a driver takes for a measurement: what its status says is one, or,  *)
(* for the lidar, which reads no status, anything.                          *)
Accepts(d, ready) == d = "llv" \/ ready

(* The end of a round, by the data-ready edge or by the time allotted to it. *)
(* A reading that is refused is an error, or not mentioned.                  *)
Collects(d, refused) ==
  /\ d \in fitted /\ pc[d] = "wait"
  /\ Goto(d, "sleep")
  /\ IF Accepts(d, Ready(d)) THEN Publish(d, Reading(Ready(d)))
     ELSE IF refused = "silent" THEN Silent ELSE Publish(d, refused)
  /\ conv' = ReadOut(d)
  /\ UNCHANGED <<named, readyP, summed>> /\ UNCHANGED loopVars

ReadFails(d) ==
  /\ d \in fitted /\ pc[d] = "wait"
  /\ Goto(d, "sleep") /\ Publish(d, "err")
  /\ UNCHANGED <<named, conv, readyP, summed>> /\ UNCHANGED loopVars

(* The IIS2MDC reports a status that is not ready, the IST8308 skips it.    *)
CollectIis == Collects("iis", "err") \/ ReadFails("iis")
CollectIst == Collects("ist", "silent") \/ ReadFails("ist")
CollectLlv == Collects("llv", "silent") \/ ReadFails("llv")

(* The DLHR is read after an edge only; without one nothing is said.        *)
CollectDlhr ==
  \/ Ready("dlhr") /\ (Collects("dlhr", "silent") \/ ReadFails("dlhr"))
  \/ /\ pc["dlhr"] = "wait" /\ Goto("dlhr", "sleep") /\ Silent
     /\ UNCHANGED <<named, conv, readyP, summed>> /\ UNCHANGED loopVars

(* DPS310: the pressure is read ready or not once its time is up, its       *)
(* status kept, and the temperature commanded.                              *)
CollectPressure ==
  /\ "dps" \in fitted /\ pc["dps"] = "wait"
  /\ \/ /\ Goto("dps", "waitT") /\ Silent
        /\ readyP' = Ready("dps")
        /\ conv' = [conv EXCEPT !["dps"] = "busy"]
     \/ /\ Goto("dps", "sleep") /\ Publish("dps", "err")
        /\ readyP' = FALSE /\ UNCHANGED conv
  /\ UNCHANGED <<named, summed>> /\ UNCHANGED loopVars

(* DPS310: only both status bytes together make a reading.                  *)
DpsAccepts(high, low) == high /\ low

CollectTemperature ==
  /\ "dps" \in fitted /\ pc["dps"] = "waitT"
  /\ Goto("dps", "sleep") /\ readyP' = FALSE
  /\ \/ /\ Publish("dps", IF DpsAccepts(readyP, Ready("dps"))
                          THEN Reading(readyP /\ Ready("dps")) ELSE "err")
        /\ conv' = ReadOut("dps")
     \/ Publish("dps", "err") /\ UNCHANGED conv
  /\ UNCHANGED <<named, summed>> /\ UNCHANGED loopVars

(* MS4525: what the sums are with this reading, if it counts.               *)
Summed ==
  IF ~Accepts("ms", Ready("ms")) THEN summed
  ELSE IF summed = "again" THEN "again" ELSE Reading(Ready("ms"))

(* MS4525: one slot of the 400 Hz loop, with what is good summed up. At a   *)
(* multiple of 10 ms, which a late loop steps over, the average goes out    *)
(* and the sums start again; a failed read leaves the slot before that.     *)
TickMs ==
  /\ "ms" \in fitted /\ pc["ms"] = "sleep"
  /\ \/ Publish("ms", "err") /\ UNCHANGED <<summed, conv>>
     \/ \E boundary \in BOOLEAN :
          /\ summed' = (IF boundary THEN "none" ELSE Summed)
          /\ IF boundary THEN Publish("ms", IF Summed = "none" THEN "err" ELSE Summed) ELSE Silent
          /\ conv' = ReadOut("ms")
  /\ UNCHANGED <<pc, named, readyP>> /\ UNCHANGED loopVars

(* The device finishes a measurement: one commanded, or, for the free       *)
(* running sensors, the next.                                               *)
Measure(d) ==
  /\ conv[d] = (IF d \in Polled THEN "busy" ELSE "old")
  /\ conv' = [conv EXCEPT ![d] = "new"]
  /\ UNCHANGED <<pc, named, readyP, summed, slot, balance>> /\ UNCHANGED loopVars

-----------------------------------------------------------------------------
(* The flight loop. update_imu_sensor drains the IMU, and                   *)
(* update_service_sensor_bus the rest; update_sensor_bus drains all.        *)
Drains(signals) ==
  /\ todo = {} /\ taken = {}
  /\ todo' = signals
  /\ Silent /\ UNCHANGED <<pc, named, conv, readyP, summed, heard, taken>>

UpdateImuSensor == realtime /\ Drains(fitted \cap Imus)
UpdateServiceSensorBus == realtime /\ Drains(fitted \ Imus)
UpdateSensorBus == ~realtime /\ Drains(fitted)

Take(d) ==
  /\ d \in todo
  /\ todo' = todo \ {d}
  /\ slot' = [slot EXCEPT ![d] = "empty"]
  /\ heard' = [heard EXCEPT ![d] = IF slot[d] = "empty" THEN @ ELSE slot[d]]
  /\ taken' = IF slot[d] = "empty" THEN taken ELSE taken \cup {d}
  /\ UNCHANGED <<pc, named, readyP, summed, balance>> /\ UNCHANGED conv

(* The consumer's counters, after the drain: record_bus for the service     *)
(* sensors, the counters of update_imu_sensor for the IMU, which            *)
(* update_sensor_bus does not count. The other board has none.              *)
Counts(d) == counting /\ (realtime \/ d \notin Imus)

Record ==
  /\ todo = {} /\ taken # {}
  /\ taken' = {}
  /\ balance' = [d \in fitted |->
       IF d \in taken /\ Counts(d) THEN balance[d] - 1 ELSE balance[d]]
  /\ UNCHANGED <<pc, named, conv, readyP, summed, heard, todo, slot>>

Next ==
  /\ UNCHANGED boardVars
  /\ \/ SetupAdis \/ SetupDps \/ SetupIis \/ SetupIst \/ SetupLlv \/ SetupMs \/ SetupBmi
     \/ SampleBmi \/ SampleAdis \/ TickMs
     \/ CommandDps \/ CommandIis \/ CommandIst \/ CommandLlv \/ (("dlhr" \in fitted) /\ CommandDlhr)
     \/ CollectPressure \/ CollectTemperature
     \/ CollectIis \/ CollectIst \/ CollectLlv \/ (("dlhr" \in fitted) /\ CollectDlhr)
     \/ \E d \in fitted : Measure(d)
     \/ \E d \in fitted : Take(d)
     \/ UpdateImuSensor \/ UpdateServiceSensorBus \/ UpdateSensorBus \/ Record

Spec == Init /\ [][Next]_vars

-----------------------------------------------------------------------------
(* A reading published as good is a measurement that was not published      *)
(* before, by the device's registers, whatever commands, conversions and    *)
(* reads failed or ran late in the rounds before. (Not so for the lidar and *)
(* the BMI08x, whose drivers look at neither a status nor the bus.)         *)
OkIsNewMeasurement ==
  \A d \in fitted \ {"llv", "bmi"} : slot[d] \in {"empty", "err", "new"}

(* The last the flight loop hears of a sensor whose task gave up is the     *)
(* error: it is waiting in the signal, or was the last result taken.        *)
FailedStartHeard ==
  \A d \in fitted : pc[d] = "dead" =>
    slot[d] = "err" \/ (slot[d] = "empty" /\ heard[d] = "err")

(* On the board that counts, every published result is accounted for: it    *)
(* waits, was replaced, or was consumed, also when a task publishes while   *)
(* the loop is between taking and counting.                                 *)
SamplesAccounted ==
  \A d \in fitted : Counts(d) =>
    balance[d] = (IF slot[d] = "empty" THEN 0 ELSE 1) + (IF d \in taken THEN 1 ELSE 0)

(* A barometer or an IIS2MDC compass that was started reports again and     *)
(* again, a result or an error, even if the device never finishes a         *)
(* measurement or raises an edge: the waits are bounded.                    *)
KeepsReporting ==
  \A d \in {"dps", "iis"} :
    [](d \in fitted /\ pc[d] # "dead") => []<>(d \in fitted /\ slot[d] # "empty")
=============================================================================
