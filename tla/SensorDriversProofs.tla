------------------------ MODULE SensorDriversProofs ------------------------
(***************************************************************************)
(* The signals between the sensor tasks and the flight loop, for every set *)
(* of boards: no result is unaccounted for where the diagnostics count, no *)
(* reading goes out twice, and a task that gave up at its start is heard.  *)
(* The u-blox receiver's set-up for every set *)
(* of messages it comes up with, the time stamps of positions for every    *)
(* period that divides the second, and the day number for every year. The  *)
(* order of RC packets for every capacity of their queue, and of the bytes *)
(* of the companion link for ports of any sizes.                           *)
(***************************************************************************)
EXTENDS MCStm32, TLAPS, SequenceTheorems, FiniteSetTheorems

(* A result is taken and counted once a drain: what was taken is not tried *)
(* again before it was counted.                                            *)
TakenOnce == todo \cap taken = {}
(* The sums of the MS4525 hold no reading that was averaged before.        *)
SumsFresh == summed # "again"
(* Where the loop counts, the driver does.                                 *)
BothCount == counting => fitted \subseteq Recorders
IInv ==
  /\ TypeOK /\ OkIsNewMeasurement /\ FailedStartHeard /\ SamplesAccounted
  /\ TakenOnce /\ SumsFresh /\ BothCount

(* The results of the drivers that look at what they read. *)
Says(d) == IF d \in {"llv", "bmi"} THEN Results ELSE {"err", "new"}

Places == {"init", "sleep", "wait", "waitT", "dead"}
TasksTyped ==
  /\ pc \in [fitted -> Places] /\ named \in BOOLEAN /\ readyP \in BOOLEAN
  /\ summed \in {"none", "new"}
  /\ conv \in [fitted -> {"old", "busy", "new"}]

LEMMA InitIInv == Init => IInv
  <1> SUFFICES ASSUME Init PROVE IInv
    OBVIOUS
  <1> USE DEF Init
  <1>1. TypeOK
    <2>1. 0 \in -MaxBalance .. MaxBalance
      BY DEF MaxBalance
    <2>2. balance \in [fitted -> -MaxBalance .. MaxBalance]
      BY <2>1
    <2>3. boardVars \in Boards
      BY DriversAssumption DEF boardVars
    <2> QED
      BY <2>2, <2>3 DEF TypeOK, Results
  <1>2. FailedStartHeard
    BY DEF FailedStartHeard
  <1>3. SamplesAccounted
    BY DEF SamplesAccounted
  <1>4. OkIsNewMeasurement
    BY DEF OkIsNewMeasurement
  <1>5. BothCount
    BY DriversAssumption DEF BothCount
  <1> QED
    BY <1>1, <1>2, <1>3, <1>4, <1>5 DEF IInv, TakenOnce, SumsFresh

-----------------------------------------------------------------------------
(* What every task does to the signals in one step: nothing, or it         *)
(* publishes a result of its own; it ends only with its error published,   *)
(* and one that ended does nothing.                                        *)
TaskStep(d) ==
  /\ UNCHANGED boardVars
  /\ \/ Silent
     \/ pc[d] # "dead" /\ \E r \in Says(d) : Publish(d, r)
  /\ \A e \in fitted : pc'[e] = "dead" => pc[e] = "dead" \/ (e = d /\ Publish(d, "err"))
  /\ TasksTyped' /\ UNCHANGED loopVars

LEMMA PublishTyped ==
  ASSUME TypeOK, NEW d \in fitted, NEW r \in Results, Publish(d, r)
  PROVE  /\ slot' \in [fitted -> Results \cup {"empty"}] /\ slot'[d] = r /\ r # "empty"
         /\ balance' \in [fitted -> -MaxBalance .. MaxBalance]
         /\ \A e \in fitted \ {d} : slot'[e] = slot[e] /\ balance'[e] = balance[e]
         /\ balance'[d] = IF Records(d) /\ slot[d] = "empty" /\ balance[d] < MaxBalance THEN balance[d] + 1
                          ELSE balance[d]
  <1>1. /\ slot \in [fitted -> Results \cup {"empty"}]
        /\ balance \in [fitted -> -MaxBalance .. MaxBalance]
    BY DEF TypeOK
  <1>2. slot' = [slot EXCEPT ![d] = r] /\ r # "empty"
    BY DEF Publish, Results, Says
  <1>3. balance' = [balance EXCEPT ![d] =
                      IF Records(d) /\ slot[d] = "empty" /\ balance[d] < MaxBalance THEN balance[d] + 1
                      ELSE balance[d]]
    BY DEF Publish
  <1>4. \A b \in -MaxBalance .. MaxBalance : b < MaxBalance => b + 1 \in -MaxBalance .. MaxBalance
    BY DEF MaxBalance
  <1> QED
    BY <1>1, <1>2, <1>3, <1>4

LEMMA TaskKeeps ==
  ASSUME IInv, NEW d \in fitted, TaskStep(d)
  PROVE  IInv'
  <1>1. /\ TypeOK /\ TasksTyped' /\ heard' = heard /\ todo' = todo /\ taken' = taken
        /\ fitted' = fitted /\ realtime' = realtime /\ counting' = counting
    BY DEF IInv, TaskStep, loopVars, boardVars
  <1>2. TakenOnce' /\ SumsFresh' /\ BothCount'
    BY <1>1 DEF IInv, TakenOnce, SumsFresh, BothCount, TasksTyped
  <1>3. CASE Silent
    <2>1. slot' = slot /\ balance' = balance
      BY <1>3 DEF Silent
    <2>2. TypeOK'
      BY <1>1, <2>1 DEF TypeOK, TasksTyped, Places, boardVars
    <2>3. SamplesAccounted'
      BY <1>1, <2>1 DEF IInv, SamplesAccounted, Counts
    <2>4. FailedStartHeard'
      <3> SUFFICES ASSUME NEW e \in fitted, pc'[e] = "dead"
                   PROVE  slot'[e] = "err" \/ (slot'[e] = "empty" /\ heard'[e] = "err")
        BY <1>1 DEF FailedStartHeard
      <3>1. CASE pc[e] = "dead"
        BY <1>1, <2>1, <3>1 DEF IInv, FailedStartHeard
      <3>2. CASE Publish(d, "err") /\ e = d
        <4>1. slot' = [slot EXCEPT ![d] = "err"]
          BY <3>2 DEF Publish
        <4> QED
          BY <1>1, <3>2, <4>1 DEF TypeOK
      <3> QED
        BY <3>1, <3>2 DEF TaskStep
    <2>5. OkIsNewMeasurement'
      BY <1>1, <2>1 DEF IInv, OkIsNewMeasurement
    <2> QED
      BY <1>2, <2>2, <2>3, <2>4, <2>5 DEF IInv
  <1>4. CASE pc[d] # "dead" /\ \E r \in Says(d) : Publish(d, r)
    <2>1. PICK r \in Says(d) : Publish(d, r) /\ r \in Results
      BY <1>4 DEF Says, Results
    <2>2. /\ slot' \in [fitted -> Results \cup {"empty"}] /\ slot'[d] = r /\ r # "empty"
          /\ balance' \in [fitted -> -MaxBalance .. MaxBalance]
          /\ \A e \in fitted \ {d} : slot'[e] = slot[e] /\ balance'[e] = balance[e]
          /\ balance'[d] = IF Records(d) /\ slot[d] = "empty" /\ balance[d] < MaxBalance THEN balance[d] + 1
                           ELSE balance[d]
      BY <1>1, <2>1, PublishTyped
    <2>3. TypeOK'
      BY <1>1, <2>2 DEF TypeOK, TasksTyped, Places, boardVars
    <2>4. SamplesAccounted'
      <3> SUFFICES ASSUME NEW e \in fitted, Counts(e)
                   PROVE  balance'[e] = (IF slot'[e] = "empty" THEN 0 ELSE 1)
                                        + (IF e \in taken' THEN 1 ELSE 0)
        BY <1>1 DEF SamplesAccounted, Counts
      <3>0. Records(e)
        BY DEF Counts, Records, IInv, BothCount
      <3>1. balance[e] = (IF slot[e] = "empty" THEN 0 ELSE 1) + (IF e \in taken THEN 1 ELSE 0)
        BY DEF IInv, SamplesAccounted
      <3> QED
        BY <1>1, <2>2, <3>0, <3>1 DEF MaxBalance
    <2>5. FailedStartHeard'
      <3> SUFFICES ASSUME NEW e \in fitted, pc'[e] = "dead"
                   PROVE  slot'[e] = "err" \/ (slot'[e] = "empty" /\ heard'[e] = "err")
        BY <1>1 DEF FailedStartHeard
      <3>1. CASE pc[e] = "dead"
        BY <1>1, <1>4, <2>2, <3>1 DEF IInv, FailedStartHeard
      <3>2. CASE Publish(d, "err") /\ e = d
        <4>1. slot' = [slot EXCEPT ![d] = "err"]
          BY <3>2 DEF Publish
        <4> QED
          BY <1>1, <3>2, <4>1 DEF TypeOK
      <3> QED
        BY <3>1, <3>2 DEF TaskStep
    <2>6. OkIsNewMeasurement'
      BY <1>1, <2>1, <2>2 DEF IInv, OkIsNewMeasurement, Says
    <2> QED
      BY <1>2, <2>3, <2>4, <2>5, <2>6 DEF IInv
  <1> QED
    BY <1>3, <1>4 DEF TaskStep

-----------------------------------------------------------------------------
(* The loop: a signal taken moves from waiting to taken.                   *)
LEMMA TakeIInv ==
  ASSUME IInv, UNCHANGED boardVars, NEW d \in fitted, Take(d)
  PROVE  IInv'
  <1> USE DEF Take
  <1>1. TypeOK
    BY DEF IInv
  <1>2. /\ d \in todo /\ d \notin taken
        /\ slot' = [slot EXCEPT ![d] = "empty"] /\ balance' = balance /\ pc' = pc
        /\ heard' = [heard EXCEPT ![d] = IF slot[d] = "empty" THEN heard[d] ELSE slot[d]]
        /\ taken' = IF slot[d] = "empty" THEN taken ELSE taken \cup {d}
        /\ todo' = todo \ {d}
        /\ fitted' = fitted /\ counting' = counting /\ summed' = summed
    BY DEF IInv, TakenOnce, boardVars
  <1>3. TypeOK'
    BY <1>1, <1>2 DEF TypeOK, boardVars
  <1>4. TakenOnce' /\ SumsFresh' /\ BothCount'
    BY <1>2 DEF IInv, TakenOnce, SumsFresh, BothCount
  <1>5. SamplesAccounted'
    <2> SUFFICES ASSUME NEW e \in fitted, Counts(e)
                 PROVE  balance'[e] = (IF slot'[e] = "empty" THEN 0 ELSE 1)
                                      + (IF e \in taken' THEN 1 ELSE 0)
      BY DEF SamplesAccounted, Counts, boardVars
    <2>1. balance[e] = (IF slot[e] = "empty" THEN 0 ELSE 1) + (IF e \in taken THEN 1 ELSE 0)
      BY DEF IInv, SamplesAccounted
    <2>2. CASE e = d
      BY <1>1, <1>2, <2>1, <2>2 DEF TypeOK
    <2>3. CASE e # d
      BY <1>1, <1>2, <2>1, <2>3 DEF TypeOK
    <2> QED
      BY <2>2, <2>3
  <1>6. FailedStartHeard'
    <2> SUFFICES ASSUME NEW e \in fitted, pc[e] = "dead"
                 PROVE  slot'[e] = "err" \/ (slot'[e] = "empty" /\ heard'[e] = "err")
      BY <1>2 DEF FailedStartHeard
    <2>1. slot[e] = "err" \/ (slot[e] = "empty" /\ heard[e] = "err")
      BY DEF IInv, FailedStartHeard
    <2>2. CASE e = d
      BY <1>1, <1>2, <2>1, <2>2 DEF TypeOK
    <2>3. CASE e # d
      BY <1>1, <1>2, <2>1, <2>3 DEF TypeOK
    <2> QED
      BY <2>2, <2>3
  <1>7. OkIsNewMeasurement'
    BY <1>1, <1>2 DEF IInv, TypeOK, OkIsNewMeasurement
  <1> QED
    BY <1>3, <1>4, <1>5, <1>6, <1>7 DEF IInv

LEMMA RecordIInv ==
  ASSUME IInv, UNCHANGED boardVars, Record
  PROVE  IInv'
  <1>1. /\ todo' = todo /\ taken' = {} /\ slot' = slot /\ heard' = heard /\ pc' = pc
        /\ balance' = [d \in fitted |->
             IF d \in taken /\ Counts(d) THEN balance[d] - 1 ELSE balance[d]]
        /\ fitted' = fitted /\ realtime' = realtime /\ counting' = counting /\ summed' = summed
    BY DEF Record, boardVars
  <1>2. SamplesAccounted'
    BY <1>1 DEF IInv, TypeOK, SamplesAccounted, Counts
  <1>3. TypeOK'
    <2>1. \A d \in fitted : balance'[d] \in -MaxBalance .. MaxBalance
      <3> TAKE d \in fitted
      <3>1. balance[d] \in -MaxBalance .. MaxBalance
        BY DEF IInv, TypeOK
      <3>2. CASE Counts(d)
        <4>1. balance[d] = (IF slot[d] = "empty" THEN 0 ELSE 1) + (IF d \in taken THEN 1 ELSE 0)
          BY <3>2 DEF IInv, SamplesAccounted, Counts
        <4> QED
          BY <1>1, <3>1, <4>1 DEF MaxBalance
      <3>3. CASE ~Counts(d)
        BY <1>1, <3>1, <3>3
      <3> QED
        BY <3>2, <3>3
    <2> QED
      BY <1>1, <2>1 DEF Record, IInv, TypeOK, boardVars
  <1>4. TakenOnce' /\ FailedStartHeard' /\ OkIsNewMeasurement' /\ SumsFresh' /\ BothCount'
    BY <1>1 DEF IInv, TakenOnce, FailedStartHeard, OkIsNewMeasurement, SumsFresh, BothCount
  <1> QED
    BY <1>2, <1>3, <1>4 DEF IInv

LEMMA DrainsIInv ==
  ASSUME IInv, UNCHANGED boardVars, NEW signals \in SUBSET fitted, Drains(signals)
  PROVE  IInv'
  <1>1. /\ todo' \subseteq fitted /\ taken' = {} /\ slot' = slot /\ balance' = balance
        /\ heard' = heard /\ pc' = pc /\ taken = {} /\ summed' = summed
        /\ fitted' = fitted /\ realtime' = realtime /\ counting' = counting
    BY DEF Drains, Silent, boardVars
  <1>2. TypeOK'
    BY <1>1 DEF Drains, IInv, TypeOK, boardVars
  <1>3. SamplesAccounted' /\ FailedStartHeard' /\ TakenOnce' /\ OkIsNewMeasurement'
    BY <1>1 DEF IInv, SamplesAccounted, Counts, FailedStartHeard, TakenOnce, OkIsNewMeasurement
  <1>4. SumsFresh' /\ BothCount'
    BY <1>1 DEF IInv, SumsFresh, BothCount
  <1> QED
    BY <1>2, <1>3, <1>4 DEF IInv

-----------------------------------------------------------------------------
(* Each step of a task is a TaskStep. *)
LEMMA StartsStep ==
  ASSUME TypeOK, SumsFresh, UNCHANGED boardVars, NEW d, Starts(d)
  PROVE  d \in fitted /\ TaskStep(d)
  BY DEF Starts, Goto, TaskStep, TypeOK, TasksTyped, Places, SumsFresh, boardVars, Results, Says, loopVars

LEMMA BmiStep ==
  ASSUME TypeOK, SumsFresh, UNCHANGED boardVars, SetupBmi \/ SampleBmi
  PROVE  "bmi" \in fitted /\ TaskStep("bmi")
  <1>1. CASE SetupBmi
    BY <1>1 DEF SetupBmi, BmiIds, Goto, TaskStep, TypeOK, TasksTyped, Places, SumsFresh, boardVars, loopVars
  <1>2. CASE SampleBmi
    <2>1. \E r \in Says("bmi") : Publish("bmi", r)
      BY <1>2 DEF SampleBmi, Results, Says
    <2>2. TasksTyped' /\ pc' = pc
      BY <1>2 DEF SampleBmi, TypeOK, TasksTyped, Places, SumsFresh, boardVars
    <2> QED
      BY <1>2, <2>1, <2>2 DEF SampleBmi, TaskStep, loopVars
  <1> QED
    BY <1>1, <1>2

LEMMA AdisStep ==
  ASSUME TypeOK, SumsFresh, UNCHANGED boardVars, SampleAdis
  PROVE  "adis" \in fitted /\ TaskStep("adis")
  <1>1. \E r \in Says("adis") : Publish("adis", r)
    BY DEF SampleAdis, AdisResults, Results, Says
  <1>2. TasksTyped' /\ pc' = pc
    BY DEF SampleAdis, TypeOK, TasksTyped, Places, SumsFresh, boardVars
  <1> QED
    BY <1>1, <1>2 DEF SampleAdis, TaskStep, loopVars

LEMMA CommandsStep ==
  ASSUME TypeOK, SumsFresh, UNCHANGED boardVars, NEW d, NEW onError \in {"sleep", "wait"},
         Commands(d, onError)
  PROVE  d \in fitted /\ TaskStep(d)
  BY DEF Commands, Goto, TaskStep, TypeOK, TasksTyped, Places, SumsFresh, boardVars, Results, Says, loopVars

LEMMA CollectsStep ==
  ASSUME TypeOK, SumsFresh, UNCHANGED boardVars, NEW d, NEW refused \in {"silent", "err"}, Collects(d, refused)
  PROVE  d \in fitted /\ TaskStep(d)
  <1>1. d \in fitted /\ pc[d] = "wait" /\ TasksTyped' /\ UNCHANGED loopVars
    BY DEF Collects, ReadOut, Goto, TypeOK, TasksTyped, Places, SumsFresh, boardVars
  <1>2. \A e \in fitted : pc'[e] = "dead" => pc[e] = "dead"
    BY DEF Collects, Goto, TypeOK
  <1>3. Silent \/ \E r \in Says(d) : Publish(d, r)
    BY DEF Collects, Accepts, Ready, Reading, Results, Says
  <1> QED
    BY <1>1, <1>2, <1>3 DEF TaskStep

LEMMA ReadFailsStep ==
  ASSUME TypeOK, SumsFresh, UNCHANGED boardVars, NEW d, ReadFails(d)
  PROVE  d \in fitted /\ TaskStep(d)
  BY DEF ReadFails, Goto, TaskStep, TypeOK, TasksTyped, Places, SumsFresh, boardVars, Results, Says, loopVars

LEMMA CommandDlhrStep ==
  ASSUME TypeOK, SumsFresh, UNCHANGED boardVars, "dlhr" \in fitted, CommandDlhr
  PROVE  TaskStep("dlhr")
  <1>1. CASE Commands("dlhr", "wait")
    <2>1. "wait" \in {"sleep", "wait"}
      OBVIOUS
    <2> QED
      BY <1>1, <2>1, CommandsStep
  <1>2. CASE ~Commands("dlhr", "wait")
    <2>1. /\ pc["dlhr"] = "sleep" /\ Goto("dlhr", "wait")
          /\ \/ Silent /\ conv' = [conv EXCEPT !["dlhr"] = "busy"]
             \/ Publish("dlhr", "err") /\ conv' = [conv EXCEPT !["dlhr"] = "old"]
          /\ UNCHANGED <<named, readyP, summed>> /\ UNCHANGED loopVars
      BY <1>2 DEF CommandDlhr
    <2> QED
      BY <2>1 DEF Goto, TaskStep, TypeOK, TasksTyped, Places, SumsFresh, boardVars, Results, Says
  <1> QED
    BY <1>1, <1>2

LEMMA DlhrStep ==
  ASSUME TypeOK, SumsFresh, UNCHANGED boardVars, "dlhr" \in fitted, CollectDlhr
  PROVE  TaskStep("dlhr")
  <1>1. CASE Collects("dlhr", "silent")
    <2>1. "silent" \in {"silent", "err"}
      OBVIOUS
    <2> QED
      BY <1>1, <2>1, CollectsStep
  <1>2. CASE ReadFails("dlhr")
    BY <1>2, ReadFailsStep
  <1>3. CASE /\ pc["dlhr"] = "wait" /\ Goto("dlhr", "sleep") /\ Silent
             /\ UNCHANGED <<named, conv, readyP, summed>> /\ UNCHANGED loopVars
    BY <1>3 DEF Goto, TaskStep, TypeOK, TasksTyped, Places, SumsFresh, boardVars
  <1> QED
    BY <1>1, <1>2, <1>3 DEF CollectDlhr

LEMMA DpsStep ==
  ASSUME TypeOK, SumsFresh, UNCHANGED boardVars, CollectPressure \/ CollectTemperature
  PROVE  "dps" \in fitted /\ TaskStep("dps")
  <1>1. CASE CollectPressure
    BY <1>1
    DEF CollectPressure, Ready, Goto, TaskStep, TypeOK, TasksTyped, Places, SumsFresh, boardVars, Results, Says, loopVars
  <1>2. CASE CollectTemperature
    <2>1. \E r \in Says("dps") : Publish("dps", r)
      BY <1>2 DEF CollectTemperature, DpsAccepts, Reading, Ready, Results, Says
    <2>2. TasksTyped' /\ \A e \in fitted : pc'[e] = "dead" => pc[e] = "dead"
      BY <1>2 DEF CollectTemperature, ReadOut, Goto, TypeOK, TasksTyped, Places, SumsFresh, boardVars
    <2> QED
      BY <1>2, <2>1, <2>2 DEF CollectTemperature, TaskStep, loopVars
  <1> QED
    BY <1>1, <1>2

LEMMA MsStep ==
  ASSUME TypeOK, SumsFresh, UNCHANGED boardVars, TickMs
  PROVE  "ms" \in fitted /\ TaskStep("ms")
  <1>1. "ms" \in fitted /\ pc["ms"] = "sleep" /\ pc' = pc /\ UNCHANGED loopVars
    BY DEF TickMs
  <1>2. Summed \in {"none", "new"}
    BY DEF Summed, Accepts, Reading, TypeOK, SumsFresh
  <1>3. Silent \/ \E r \in Says("ms") : Publish("ms", r)
    BY <1>2 DEF TickMs, Results, Says
  <1>4. TasksTyped'
    <2>1. summed' \in {"none", "new"}
      BY <1>2 DEF TickMs, TypeOK, SumsFresh
    <2>2. conv' \in [fitted -> {"old", "busy", "new"}]
      BY DEF TickMs, ReadOut, TypeOK
    <2> QED
      BY <2>1, <2>2 DEF TickMs, TypeOK, TasksTyped, Places, boardVars
  <1> QED
    BY <1>1, <1>3, <1>4 DEF TaskStep

LEMMA MeasureStep ==
  ASSUME TypeOK, SumsFresh, UNCHANGED boardVars, NEW d \in fitted, Measure(d)
  PROVE  TaskStep(d)
  BY DEF Measure, Silent, TaskStep, TypeOK, TasksTyped, Places, SumsFresh, boardVars, loopVars

LEMMA NextIInv == IInv /\ [Next]_vars => IInv'
  <1> SUFFICES ASSUME IInv, [Next]_vars PROVE IInv'
    OBVIOUS
  <1>u. UNCHANGED boardVars
    BY DEF Next, vars, boardVars
  <1>0. TypeOK /\ SumsFresh
    BY DEF IInv
  <1>1. CASE SetupAdis \/ SetupDps \/ SetupIis \/ SetupIst \/ SetupLlv \/ SetupMs
    <2>1. \E d : Starts(d)
      BY <1>1 DEF SetupAdis, SetupDps, SetupIis, SetupIst, SetupLlv, SetupMs
    <2> QED
      BY <1>u, <1>0, <2>1, StartsStep, TaskKeeps
  <1>2. CASE SetupBmi \/ SampleBmi \/ SampleAdis \/ TickMs
    BY <1>u, <1>0, <1>2, BmiStep, AdisStep, MsStep, TaskKeeps
  <1>3. CASE CommandDps \/ CommandIis \/ CommandIst \/ CommandLlv
    <2>1. \E d : \E onError \in {"sleep", "wait"} : Commands(d, onError)
      BY <1>3 DEF CommandDps, CommandIis, CommandIst, CommandLlv
    <2> QED
      BY <1>u, <1>0, <2>1, CommandsStep, TaskKeeps
  <1>4. CASE CollectPressure \/ CollectTemperature
    BY <1>u, <1>0, <1>4, DpsStep, TaskKeeps
  <1>5. CASE CollectIis \/ CollectIst \/ CollectLlv
    <2>1. \/ \E d : \E refused \in {"silent", "err"} : Collects(d, refused)
          \/ \E d : ReadFails(d)
      BY <1>5 DEF CollectIis, CollectIst, CollectLlv
    <2> QED
      BY <1>u, <1>0, <2>1, CollectsStep, ReadFailsStep, TaskKeeps
  <1>6. CASE "dlhr" \in fitted /\ (CommandDlhr \/ CollectDlhr)
    BY <1>u, <1>0, <1>6, CommandDlhrStep, DlhrStep, TaskKeeps
  <1>7. CASE \E d \in fitted : Measure(d)
    BY <1>u, <1>0, <1>7, MeasureStep, TaskKeeps
  <1>8. CASE \E d \in fitted : Take(d)
    BY <1>u, <1>8, TakeIInv
  <1>9. CASE UpdateImuSensor \/ UpdateServiceSensorBus \/ UpdateSensorBus
    <2>1. \E signals \in SUBSET fitted : Drains(signals)
      BY <1>9 DEF UpdateImuSensor, UpdateServiceSensorBus, UpdateSensorBus
    <2> QED
      BY <1>u, <2>1, DrainsIInv
  <1>10. CASE Record
    BY <1>u, <1>10, RecordIInv
  <1>11. CASE UNCHANGED vars
    BY <1>11 DEF vars, boardVars, IInv, TypeOK, OkIsNewMeasurement, FailedStartHeard,
               SamplesAccounted, Counts, TakenOnce, SumsFresh, BothCount
  <1> QED
    BY <1>1, <1>2, <1>3, <1>4, <1>5, <1>6, <1>7, <1>8, <1>9, <1>10, <1>11 DEF Next

(* The last the flight loop hears of a sensor whose task gave up is its    *)
(* error (the run functions of the stm_32 drivers).                        *)
THEOREM GivenUpHeard == Spec => []FailedStartHeard
  <1>1. IInv => FailedStartHeard
    BY DEF IInv
  <1> QED
    BY InitIInv, NextIInv, <1>1, PTL DEF Spec

-----------------------------------------------------------------------------
(* The receiver's set-up: one step of the search for the rate, or of the   *)
(* configuration, of which the last message is number n.                   *)
Searches ==
  /\ ubx_phase = "sync" /\ UNCHANGED <<ubx_emits, ubx_k, ubx_unheard>>
  /\ \/ /\ ubx_rcv' = M8!Desired /\ ubx_host' = M8!Desired /\ ubx_phase' = "cfg" /\ ubx_synced' = TRUE
        /\ ubx_try' = ubx_try
     \/ /\ ubx_rcv' \in {ubx_rcv, M8!Desired} /\ ubx_synced' = FALSE
        /\ IF ubx_try = Retries * 5 THEN ubx_phase' = "cfg" /\ UNCHANGED <<ubx_try, ubx_host>>
           ELSE /\ ubx_try' = ubx_try + 1 /\ ubx_host' = M8!Bauds[(ubx_try % 5) + 1]
                /\ ubx_phase' = ubx_phase
Configures(n) ==
  /\ ubx_phase = "cfg" /\ ubx_k <= n /\ ubx_k' = ubx_k + 1
  /\ \/ /\ ubx_unheard' = ubx_unheard
        /\ ubx_emits' = IF ubx_k < 11 THEN ubx_emits \ {M8!Off[ubx_k + 1]}
                        ELSE IF ubx_k = 11 THEN ubx_emits \cup {"NavPvt"} ELSE ubx_emits
     \/ ubx_unheard' = TRUE /\ ubx_emits' = ubx_emits
  /\ UNCHANGED <<ubx_rcv, ubx_host, ubx_phase, ubx_try, ubx_synced>>
ComesToRead(n) ==
  /\ ubx_phase = "cfg" /\ ubx_k > n /\ ubx_phase' = "read"
  /\ UNCHANGED <<ubx_rcv, ubx_emits, ubx_host, ubx_try, ubx_k, ubx_synced, ubx_unheard>>
Stays == UNCHANGED <<ubx_rcv, ubx_emits, ubx_host, ubx_phase, ubx_try, ubx_k, ubx_synced, ubx_unheard>>
SetsUp(n) == Searches \/ Configures(n) \/ ComesToRead(n) \/ Stays

LEMMA UbxFacts ==
  /\ Retries \in Nat \ {0} /\ Factory \subseteq {M8!Off[i] : i \in 1 .. 11}
  /\ Retries * 5 \in Nat \ {0} /\ ((Retries * 5 - 1) % 5) + 1 = 5
  <1>1. Len(M8!Off) = 11
    BY DEF M8!Off
  <1>2. Retries \in Nat \ {0} /\ Factory \subseteq {M8!Off[i] : i \in 1 .. 11}
    BY <1>1, UbxAssumption DEF M8!UbxConfigAssumption
  <1> QED
    BY <1>2

LEMMA M8Steps == [M8!Next]_ubxVars => SetsUp(14)
  <1>1. Len(M8!Bauds) = 5 /\ Len(M8!Off) = 11 /\ Len(M8!Settings) = 3
    BY SMT DEF M8!Bauds, M8!Off, M8!Settings, M8!SettingsAll
  <1>2. M8!TryRate => Searches
    BY <1>1 DEF M8!TryRate, M8!Acked, M8!NotAcked, Searches
  <1>3. M8!Configure => Configures(14)
    BY <1>1 DEF M8!Configure, Configures
  <1>4. M8!Read => ComesToRead(14)
    BY <1>1 DEF M8!Read, ComesToRead
  <1>5. M8!PowerOn \/ M8!Reading \/ UNCHANGED ubxVars => Stays
    BY DEF M8!PowerOn, M8!Reading, M8!vars, ubxVars, Stays
  <1> QED
    BY <1>2, <1>3, <1>4, <1>5 DEF M8!Next, SetsUp

LEMMA M9Steps == [M9!Next]_ubxVars => SetsUp(11)
  <1>1. Len(M9!Bauds) = 5 /\ M9!Desired = M8!Desired /\ Len(M9!Off) = 11 /\ Len(M9!Settings) = 0
        /\ M9!Bauds = M8!Bauds /\ M9!Off = M8!Off
    BY SMT DEF M9!Bauds, M9!Desired, M8!Desired, M9!Off, M9!Settings, M8!Bauds, M8!Off
  <1>2. M9!TryRate => Searches
    BY <1>1 DEF M9!TryRate, M9!Acked, M9!NotAcked, Searches
  <1>3. M9!Configure => Configures(11)
    BY <1>1 DEF M9!Configure, Configures
  <1>4. M9!Read => ComesToRead(11)
    BY <1>1 DEF M9!Read, ComesToRead
  <1>5. M9!PowerOn \/ M9!Reading \/ UNCHANGED ubxVars => Stays
    BY DEF M9!PowerOn, M9!Reading, M9!vars, ubxVars, Stays
  <1> QED
    BY <1>2, <1>3, <1>4, <1>5 DEF M9!Next, SetsUp

(* What a receiver that heard everything still sends after k messages. *)
Left(k) ==
  IF k <= 11 THEN {m \in Factory : \A i \in 1 .. k : M8!Off[i] # m} ELSE {"NavPvt"}
RateOf(i) == M8!Bauds[((i - 1) % 5) + 1]
SetUpInv(n) ==
  /\ ubx_try \in 1 .. Retries * 5 /\ ubx_k \in 0 .. n + 1 /\ ubx_phase \in {"sync", "cfg", "read"}
  /\ ubx_synced \in BOOLEAN /\ ubx_unheard \in BOOLEAN
  /\ ubx_phase = "sync" => ubx_host = RateOf(ubx_try) /\ ~ ubx_synced /\ ubx_k = 0
  /\ ubx_phase # "sync" => ubx_host = M8!Desired
  /\ ubx_phase = "read" => ubx_k = n + 1
  /\ ubx_synced => ubx_rcv = M8!Desired
  /\ ~ ubx_unheard => ubx_emits = Left(ubx_k)

LEMMA LeftStart == Left(0) = Factory
  BY DEF Left

LEMMA LeftNext ==
  ASSUME NEW k \in Nat
  PROVE  /\ k < 11 => Left(k + 1) = Left(k) \ {M8!Off[k + 1]}
         /\ k = 11 => Left(k + 1) = Left(k) \cup {"NavPvt"}
         /\ k > 11 => Left(k + 1) = Left(k)
  <1>1. ASSUME k < 11 PROVE Left(k + 1) = Left(k) \ {M8!Off[k + 1]}
    <2>1. \A i : i \in 1 .. k + 1 <=> i \in 1 .. k \/ i = k + 1
      OBVIOUS
    <2> QED
      BY <1>1, <2>1 DEF Left
  <1>2. ASSUME k = 11 PROVE Left(k + 1) = Left(k) \cup {"NavPvt"}
    <2>1. Left(11) = {}
      BY UbxFacts DEF Left
    <2> QED
      BY <1>2, <2>1 DEF Left
  <1>3. k > 11 => Left(k + 1) = Left(k)
    BY DEF Left
  <1> QED
    BY <1>1, <1>2, <1>3

LEMMA SetUpInit ==
  ASSUME M8!Init, NEW n \in Nat
  PROVE  SetUpInv(n)
  <1>1. (1 - 1) % 5 = 0 /\ 0 + 1 = 1
    OBVIOUS
  <1>2. /\ ubx_try = 1 /\ ubx_k = 0 /\ ubx_phase = "sync" /\ ubx_synced = FALSE /\ ubx_unheard = FALSE
        /\ ubx_host = M8!Bauds[1] /\ ubx_emits = Factory
    BY DEF M8!Init
  <1>3. RateOf(1) = M8!Bauds[1]
    BY <1>1, Zenon DEF RateOf
  <1>4. 1 \in 1 .. Retries * 5 /\ 0 \in 0 .. n + 1
    BY UbxFacts
  <1>5. ubx_emits = Left(ubx_k)
    BY <1>2, LeftStart
  <1>6. ubx_host = RateOf(ubx_try)
    BY <1>2, <1>3
  <1>7. ubx_try \in 1 .. Retries * 5 /\ ubx_k \in 0 .. n + 1
    BY <1>2, <1>4
  <1> QED
    BY <1>2, <1>5, <1>6, <1>7 DEF SetUpInv

LEMMA SetUpNext ==
  ASSUME NEW n \in 11 .. 14, SetUpInv(n), SetsUp(n)
  PROVE  SetUpInv(n)'
  <1>1. CASE Searches
    <2>1. ubx_try \in 1 .. Retries * 5 /\ (ubx_try + 1) - 1 = ubx_try
      BY UbxFacts DEF SetUpInv
    <2>2. RateOf(Retries * 5) = M8!Desired
      <3>1. ((Retries * 5 - 1) % 5) + 1 = 5
        BY UbxFacts
      <3>2. M8!Bauds[5] = M8!Desired
        BY SMT DEF M8!Bauds, M8!Desired
      <3> QED
        BY <3>1, <3>2, Zenon DEF RateOf
    <2>3. RateOf(ubx_try + 1) = M8!Bauds[(ubx_try % 5) + 1]
      BY <2>1, Zenon DEF RateOf
    <2>4. CASE ubx_phase' = "cfg"
      <3>1. ubx_host' = M8!Desired
        BY <1>1, <2>2, <2>4 DEF Searches, SetUpInv
      <3> QED
        BY <1>1, <2>1, <2>4, <3>1 DEF Searches, SetUpInv
    <2>5. CASE ubx_phase' = "sync"
      <3>1. ubx_try # Retries * 5 /\ ubx_try' = ubx_try + 1 /\ ubx_host' = RateOf(ubx_try') /\ ubx_synced' = FALSE
        BY <1>1, <2>3, <2>5 DEF Searches
      <3>2. ubx_try' \in 1 .. Retries * 5
        BY <2>1, <3>1, UbxFacts
      <3> QED
        BY <1>1, <2>5, <3>1, <3>2 DEF Searches, SetUpInv
    <2> QED
      BY <1>1, <2>4, <2>5 DEF Searches
  <1>2. CASE Configures(n)
    <2>1. ubx_k \in Nat /\ ubx_k' \in 0 .. n + 1
      BY <1>2 DEF Configures, SetUpInv
    <2>2. ~ ubx_unheard' => ubx_emits' = Left(ubx_k')
      <3> SUFFICES ASSUME ~ ubx_unheard' PROVE ubx_emits' = Left(ubx_k + 1)
        BY <1>2 DEF Configures
      <3>1. /\ ubx_emits = Left(ubx_k)
            /\ ubx_emits' = IF ubx_k < 11 THEN ubx_emits \ {M8!Off[ubx_k + 1]}
                            ELSE IF ubx_k = 11 THEN ubx_emits \cup {"NavPvt"} ELSE ubx_emits
        BY <1>2 DEF Configures, SetUpInv
      <3>2. ubx_k < 11 \/ ubx_k = 11 \/ ubx_k > 11
        BY <2>1
      <3> QED
        BY <2>1, <3>1, <3>2, LeftNext
    <2>3. ubx_unheard' \in BOOLEAN
      BY <1>2 DEF Configures, SetUpInv
    <2> QED
      BY <1>2, <2>1, <2>2, <2>3 DEF Configures, SetUpInv
  <1>3. CASE ComesToRead(n)
    BY <1>3 DEF ComesToRead, SetUpInv
  <1>4. CASE Stays
    BY <1>4 DEF Stays, SetUpInv
  <1> QED
    BY <1>1, <1>2, <1>3, <1>4 DEF SetsUp

(* The settings: the M8 takes them one by one, the M9 with the port. *)
TakenM8 == ~ ubx_unheard => /\ ubx_k >= 13 => "cfg_rate" \in ubx_set
                            /\ ubx_k >= 15 => "cfg_nav5" \in ubx_set
TakenM9 == ubx_synced => {"cfg_rate", "cfg_nav5"} \subseteq ubx_set
M8Inv == SetUpInv(14) /\ TakenM8
M9Inv == SetUpInv(11) /\ TakenM9

LEMMA M8Next ==
  ASSUME M8Inv, [M8!Next]_ubxVars
  PROVE  M8Inv'
  <1>1. SetUpInv(14)'
    BY SetUpNext, M8Steps DEF M8Inv
  <1>2. ubx_k \in 0 .. 15
    BY DEF M8Inv, SetUpInv
  <1>3. CASE M8!Configure
    <2>1. /\ ubx_k' = ubx_k + 1
          /\ ~ ubx_unheard' => ~ ubx_unheard /\ ubx_set' = ubx_set \cup M8!SetBy(ubx_k)
      BY <1>3 DEF M8!Configure, M8Inv, SetUpInv
    <2>2. /\ ubx_k = 12 => "cfg_rate" \in M8!SetBy(ubx_k)
          /\ ubx_k = 14 => "cfg_nav5" \in M8!SetBy(ubx_k)
      BY DEF M8!SetBy, M8!Off, M8!Settings, M8!SettingsAll
    <2>3. /\ ubx_k' >= 13 => ubx_k >= 13 \/ ubx_k = 12
          /\ ubx_k' >= 15 => ubx_k >= 15 \/ ubx_k = 14
      BY <1>2, <2>1
    <2>4. TakenM8'
      BY <2>1, <2>2, <2>3 DEF M8Inv, TakenM8
    <2> QED
      BY <1>1, <2>4 DEF M8Inv
  <1>4. CASE ~ M8!Configure
    <2>1. UNCHANGED <<ubx_k, ubx_unheard>> /\ ubx_set \subseteq ubx_set'
      BY <1>4 DEF M8!Next, M8!TryRate, M8!Read, M8!PowerOn, M8!Reading, M8!vars, ubxVars
    <2> QED
      BY <1>1, <2>1 DEF M8Inv, TakenM8
  <1> QED
    BY <1>3, <1>4

LEMMA M9Next ==
  ASSUME M9Inv, [M9!Next]_ubxVars
  PROVE  M9Inv'
  <1>1. SetUpInv(11)'
    BY SetUpNext, M9Steps DEF M9Inv
  <1>2. CASE M9!TryRate
    BY <1>1, <1>2 DEF M9!TryRate, M9!Acked, M9!NotAcked, M9!SettingsOfPort, M9Inv, TakenM9
  <1>3. CASE ~ M9!TryRate
    <2>1. ubx_synced' = ubx_synced /\ ubx_set \subseteq ubx_set'
      BY <1>3 DEF M9!Next, M9!Configure, M9!Read, M9!PowerOn, M9!Reading, M9!vars, ubxVars
    <2> QED
      BY <1>1, <2>1 DEF M9Inv, TakenM9
  <1> QED
    BY <1>2, <1>3

LEMMA SetUpImplies ==
  /\ M8Inv => M8!TypeOK /\ M8!SyncedAgree /\ M8!ReadsAtDesired /\ M8!ConfiguredWhenHeard
  /\ M9Inv => M9!ConfiguredWhenHeard
  <1>1. /\ Len(M8!Bauds) = 5 /\ Len(M8!Off) = 11 /\ Len(M8!Settings) = 3
    BY SMT DEF M8!Bauds, M8!Off, M8!Settings, M8!SettingsAll
  <1>2. Left(15) = {"NavPvt"} /\ Left(12) = {"NavPvt"}
    BY DEF Left
  <1>3. ASSUME M8Inv PROVE M8!TypeOK
    BY <1>1, <1>3 DEF M8Inv, SetUpInv, RateOf, M8!TypeOK
  <1>4. ASSUME M8Inv PROVE M8!SyncedAgree /\ M8!ReadsAtDesired
    BY <1>1, <1>4 DEF M8Inv, SetUpInv, M8!SyncedAgree, M8!ReadsAtDesired
  <1>5. ASSUME M8Inv PROVE M8!ConfiguredWhenHeard
    <2>1. ubx_phase = "read" => ubx_k = 15
      BY <1>5 DEF M8Inv, SetUpInv
    <2> QED
      BY <1>2, <1>5, <2>1 DEF M8Inv, SetUpInv, TakenM8, M8!ConfiguredWhenHeard
  <1>6. ASSUME M9Inv PROVE M9!ConfiguredWhenHeard
    <2>1. ubx_phase = "read" => ubx_k = 12
      BY <1>6 DEF M9Inv, SetUpInv
    <2> QED
      BY <1>2, <1>6, <2>1 DEF M9Inv, SetUpInv, TakenM9, M9!ConfiguredWhenHeard
  <1> QED
    BY <1>3, <1>4, <1>5, <1>6

-----------------------------------------------------------------------------
(* Division by a positive number. *)
LEMMA DivMod ==
  ASSUME NEW a \in Nat, NEW s \in Nat \ {0}
  PROVE  a \div s \in Nat /\ (a % s) \in 0 .. s - 1 /\ a = (a \div s) * s + (a % s)
  BY SMT

LEMMA ModOfSum ==
  ASSUME NEW k \in Nat, NEW s \in Nat \ {0}, NEW r \in 0 .. s - 1
  PROVE  ((k * s + r) % s) = r
  BY SMT

LEMMA MultNext ==
  ASSUME NEW a \in Nat, NEW b \in Nat, NEW s \in Nat \ {0}, a % s = 0, b % s = 0, a < b
  PROVE  a + s <= b
  <1> DEFINE i == a \div s
             j == b \div s
  <1>1. i \in Nat /\ j \in Nat /\ a = i * s /\ b = j * s
    BY DivMod, SMT
  <1> HIDE DEF i, j
  <1>2. i < j
    BY <1>1, SMT
  <1>3. i + 1 <= j
    BY <1>1, <1>2, SMT
  <1>4. (i + 1) * s <= j * s
    BY <1>1, <1>3, SMT
  <1> QED
    BY <1>1, <1>4, SMT

LEMMA MultAdd ==
  ASSUME NEW a \in Nat, NEW s \in Nat \ {0}, a % s = 0
  PROVE  (a + s) % s = 0
  <1> DEFINE i == a \div s
  <1>1. i \in Nat /\ a = i * s
    BY DivMod, SMT
  <1> HIDE DEF i
  <1>2. a + s = (i + 1) * s + 0
    BY <1>1, SMT
  <1> QED
    BY <1>1, <1>2, ModOfSum, SMT

LEMMA MultMult ==
  ASSUME NEW a \in Nat, NEW s \in Nat \ {0}, NEW p \in Nat \ {0}, a % s = 0, s % p = 0
  PROVE  a % p = 0
  <1> DEFINE i == a \div s
             c == s \div p
  <1>1. i \in Nat /\ c \in Nat /\ a = i * s /\ s = c * p
    BY DivMod, SMT
  <1> HIDE DEF i, c
  <1> DEFINE n == i * c
  <1>2. n \in Nat /\ a = n * p + 0
    BY <1>1, SMT
  <1> HIDE DEF n
  <1>3. 0 \in 0 .. p - 1
    OBVIOUS
  <1>4. ((n * p + 0) % p) = 0
    BY <1>2, <1>3, ModOfSum
  <1> QED
    BY <1>2, <1>4

(* Instant the last edge was at, of those the PPS task saw by now.          *)
Edge == IF time_signal # 0 THEN time_signal ELSE time_pps
EdgeInv ==
  /\ time_now \in Nat /\ time_pps \in Nat /\ time_signal \in Nat
  /\ time_pps % Second = 0 /\ time_signal % Second = 0
  /\ time_pps <= time_now /\ time_signal <= time_now
  /\ time_now < Edge + Second
(* An epoch lies on the grid of the navigation period, or a tick before a   *)
(* full second.                                                             *)
OnGrid(f) == f % Period = 0 \/ f % Second = Second - 1
FrameInv ==
  /\ time_stage \in {"top", "wait", "done"}
  /\ time_done \in Nat /\ time_done <= time_now
  /\ time_frame # -1 => time_frame \in Nat /\ time_frame <= time_now /\ OnGrid(time_frame)
  /\ time_frame # -1 /\ time_stage # "done" => time_now <= time_frame + Late
  /\ time_stage = "done" => /\ time_frame # -1
                            /\ time_frame + 2 <= time_done /\ time_done <= time_frame + Late
StampInv ==
  LET o == time_out
  IN  /\ o.epoch \in Nat /\ o.stamp \in Int /\ o.sec \in Nat /\ o.nano \in Nat
      /\ o.nano < Second /\ o.sec * Second + o.nano = o.epoch
      /\ o.epoch > 0 => o.stamp - o.epoch < Period /\ o.epoch - o.stamp < Period
TimeInv == EdgeInv /\ FrameInv /\ StampInv

LEMMA TimeConstants ==
  /\ Second \in Nat \ {0} /\ Period \in Nat /\ Period >= 3 /\ Second >= Period
  /\ Second % Period = 0 /\ Late \in 2 .. Period - 1
  /\ Typical \in 0 .. Late /\ Preempted \in Nat /\ MaxSecs \in Nat
  BY TimeAssumption, SMT DEF Time!GnssTimeAssumption

LEMMA Grid ==
  /\ \A a \in Nat : /\ a \div Second \in Nat /\ (a % Second) \in 0 .. Second - 1
                    /\ a = (a \div Second) * Second + (a % Second)
                    /\ (a \div Second) * Second \in Nat /\ (((a \div Second) * Second) % Second) = 0
                    /\ a % Second = 0 => ((a + Second) % Second) = 0 /\ a % Period = 0
  /\ \A a, b \in Nat : /\ a % Second = 0 /\ b % Second = 0 /\ a < b => a + Second <= b
                       /\ a % Period = 0 /\ b % Period = 0 /\ a < b => a + Period <= b
  <1>1. Second \in Nat \ {0} /\ Period \in Nat \ {0} /\ Second % Period = 0 /\ 0 \in 0 .. Second - 1
    BY TimeConstants, SMT
  <1>2. ASSUME NEW a \in Nat
        PROVE  /\ a \div Second \in Nat /\ (a % Second) \in 0 .. Second - 1
               /\ a = (a \div Second) * Second + (a % Second)
    BY <1>1, DivMod
  <1>3. ASSUME NEW a \in Nat
        PROVE  (a \div Second) * Second \in Nat /\ (((a \div Second) * Second) % Second) = 0
    <2> DEFINE q == a \div Second
    <2>1. q \in Nat
      BY <1>2
    <2> HIDE DEF q
    <2>2. q * Second + 0 = q * Second /\ q * Second \in Nat
      BY <1>1, <2>1, SMT
    <2>3. ((q * Second + 0) % Second) = 0
      BY <1>1, <2>1, ModOfSum
    <2> QED
      BY <2>2, <2>3, Zenon DEF q
  <1>4. ASSUME NEW a \in Nat, a % Second = 0 PROVE ((a + Second) % Second) = 0 /\ a % Period = 0
    BY <1>1, <1>4, MultAdd, MultMult
  <1>5. ASSUME NEW a \in Nat, NEW b \in Nat, a % Second = 0 /\ b % Second = 0 /\ a < b PROVE a + Second <= b
    BY <1>1, <1>5, MultNext
  <1>6. ASSUME NEW a \in Nat, NEW b \in Nat, a % Period = 0 /\ b % Period = 0 /\ a < b PROVE a + Period <= b
    BY <1>1, <1>6, MultNext
  <1> QED
    BY <1>2, <1>3, <1>4, <1>5, <1>6, Zenon

(* What GnssTimestamp makes of a frame and the last edge: the edge that is  *)
(* before the end of the frame is that of the second the receiver counted   *)
(* the epoch in.                                                            *)
LEMMA StampNear ==
  ASSUME NEW e \in Nat, NEW f \in Nat, NEW end \in Nat, NEW now \in Nat, NEW valid \in BOOLEAN,
         e % Second = 0, e <= now, now < e + Second, OnGrid(f),
         f + 2 <= end, end <= f + Late, end <= now
  PROVE  LET stamp == Time!GnssTimestamp(e, end, Time!Fraction(f)[2], valid)
         IN  stamp \in Int /\ stamp - f < Period /\ f - stamp < Period
  <1> DEFINE base == (f \div Second) * Second
             r == f % Second
             nano == Time!Fraction(f)[2]
  <1>1. base \in Nat /\ r \in 0 .. Second - 1 /\ f = base + r
    BY Grid, Zenon
  <1>2. base % Second = 0
    BY Grid, Zenon
  <1>3. nano = IF r = Second - 1 THEN -1 ELSE r
    BY SMT DEF Time!Fraction
  <1> HIDE DEF base, r, nano
  <1>4. CASE ~ (e # 0 /\ e < end /\ valid)
    <2>1. Time!GnssTimestamp(e, end, nano, valid) = end - Typical
      BY <1>4, Zenon DEF Time!GnssTimestamp
    <2>2. end - Typical \in Int /\ (end - Typical) - f < Period /\ f - (end - Typical) < Period
      BY TimeConstants, SMT
    <2> QED
      BY <2>1, <2>2, Zenon DEF nano
  <1>5. CASE e # 0 /\ e < end /\ valid
    <2>1. Time!GnssTimestamp(e, end, nano, valid) = e + nano
      BY <1>5, Zenon DEF Time!GnssTimestamp
    <2>2. e + nano = f
      <3>1. CASE r = Second - 1
        <4> DEFINE full == base + Second
        <4>1. full \in Nat /\ full = f + 1
          BY <1>1, <3>1, TimeConstants, SMT
        <4>f. full % Second = 0
          BY <1>1, <1>2, Grid, Zenon
        <4> HIDE DEF full
        <4>2. ~ (e < full)
          <5>1. e < full => e + Second <= full
            BY <4>1, <4>f, Grid, Zenon
          <5> QED
            BY <4>1, <5>1, TimeConstants, SMT
        <4>3. ~ (full < e)
          <5>1. full < e => full + Second <= e
            BY <4>1, <4>f, Grid, Zenon
          <5> QED
            BY <1>5, <4>1, <5>1, TimeConstants, SMT
        <4> QED
          BY <1>3, <3>1, <4>1, <4>2, <4>3, SMT
      <3>2. CASE r # Second - 1
        <4>1. f % Period = 0
          BY <3>2, Zenon DEF OnGrid, r
        <4> DEFINE full == base + Second
        <4>2. full \in Nat /\ f < full
          BY <1>1, TimeConstants, SMT
        <4>f. full % Second = 0
          BY <1>1, <1>2, Grid, Zenon
        <4>u. full = base + Second
          OBVIOUS
        <4> HIDE DEF full
        <4>3. full % Period = 0
          BY <4>2, <4>f, Grid, Zenon
        <4>4. f + Period <= full
          BY <4>1, <4>2, <4>3, Grid, Zenon
        <4>5. e < full
          BY <1>5, <4>2, <4>4, TimeConstants, SMT
        <4>6. ~ (base < e)
          <5>1. base < e => base + Second <= e
            BY <1>1, <1>2, Grid, Zenon
          <5> QED
            BY <1>1, <4>2, <4>5, <4>u, <5>1, TimeConstants, SMT
        <4>7. ~ (e < base)
          <5>1. e < base => e + Second <= base
            BY <1>1, <1>2, Grid, Zenon
          <5> QED
            BY <1>1, <5>1, TimeConstants, SMT
        <4> QED
          BY <1>1, <1>3, <3>2, <4>6, <4>7, SMT
      <3> QED
        BY <3>1, <3>2
    <2>3. f \in Int /\ f - f < Period
      BY TimeConstants, SMT
    <2> QED
      BY <2>1, <2>2, <2>3, Zenon DEF nano
  <1> QED
    BY <1>4, <1>5, Zenon

(* Second and fraction as published are the epoch's quotient and remainder. *)
LEMMA UtcIs ==
  ASSUME NEW f \in Nat
  PROVE  LET utc == Time!Utc(Time!Fraction(f)[1], Time!Fraction(f)[2])
         IN  /\ utc[1] \in Nat /\ utc[2] \in Nat /\ utc[2] < Second
             /\ utc[1] * Second + utc[2] = f
  <1>1. f \div Second \in Nat /\ (f % Second) \in 0 .. Second - 1 /\ f = (f \div Second) * Second + (f % Second)
    BY Grid, Zenon
  <1>2. LET utc == Time!Utc(Time!Fraction(f)[1], Time!Fraction(f)[2])
        IN  utc[1] = f \div Second /\ utc[2] = f % Second
    BY <1>1, TimeConstants, SMT DEF Time!Utc, Time!Fraction
  <1>3. (f % Second) \in Nat /\ f % Second < Second
    BY <1>1, TimeConstants, SMT
  <1> QED
    BY <1>1, <1>2, <1>3, Zenon

LEMMA TimeInitInv ==
  ASSUME Time!Init
  PROVE  TimeInv
  <1>1. /\ time_now = 1 /\ time_signal = 0 /\ time_pps = 0 /\ time_frame = -1 /\ time_stage = "top"
        /\ time_done = 0 /\ time_out = [stamp |-> 0, sec |-> 0, nano |-> 0, epoch |-> 0]
    BY DEF Time!Init
  <1>2. 0 % Second = 0
    BY TimeConstants, SMT
  <1>3. EdgeInv
    BY <1>1, <1>2, TimeConstants, SMT DEF EdgeInv, Edge
  <1>4. FrameInv
    BY <1>1, SMT DEF FrameInv
  <1>5. StampInv
    BY <1>1, TimeConstants, SMT DEF StampInv
  <1> QED
    BY <1>3, <1>4, <1>5 DEF TimeInv

LEMMA TickEdge ==
  ASSUME EdgeInv, Time!Tick
  PROVE  EdgeInv'
  <1>1. /\ time_now' = time_now + 1 /\ time_pps' = time_pps
        /\ time_signal' = IF (time_now + 1) % Second = 0 THEN time_now + 1 ELSE time_signal
    BY DEF Time!Tick
  <1> DEFINE e == Edge
  <1>2. /\ e \in Nat /\ e % Second = 0 /\ e <= time_now /\ time_now < e + Second /\ time_now \in Nat
    BY DEF EdgeInv, Edge
  <1> HIDE DEF e
  <1>3. CASE (time_now + 1) % Second = 0
    <2>1. time_signal' = time_now + 1
      BY <1>1, <1>3, Zenon
    <2>2. Edge' = time_now + 1
      <3>1. time_now + 1 # 0
        BY <1>2, SMT
      <3> QED
        BY <2>1, <3>1, Zenon DEF Edge
    <2>3. time_signal' % Second = 0
      BY <1>3, <2>1, Zenon
    <2> QED
      BY <1>1, <2>1, <2>2, <2>3, TimeConstants, SMT DEF EdgeInv
  <1>4. CASE ~ ((time_now + 1) % Second = 0)
    <2>1. time_signal' = time_signal
      BY <1>1, <1>4, Zenon
    <2>2. Edge' = e
      BY <1>1, <2>1, Zenon DEF Edge, e
    <2>3. ((e + Second) % Second) = 0
      BY <1>2, Grid, Zenon
    <2>4. time_now + 1 # e + Second
      BY <1>4, <2>3, Zenon
    <2>5. time_now + 1 < e + Second
      BY <1>2, <2>4, TimeConstants, SMT
    <2> QED
      BY <1>1, <2>1, <2>2, <2>5, TimeConstants, SMT DEF EdgeInv
  <1> QED
    BY <1>3, <1>4

(* Taking the signal changes where the edge is kept, not which it is. *)
LEMMA TakeEdge ==
  ASSUME EdgeInv, time_now' = time_now, time_pps' = Time!EdgeTaken, time_signal' = 0
  PROVE  EdgeInv'
  <1>1. Time!EdgeTaken = Edge /\ Edge' = Edge
    <2>1. Time!EdgeTaken = Edge
      BY DEF Time!EdgeTaken, Edge
    <2>2. Edge' = time_pps'
      BY DEF Edge
    <2> QED
      BY <2>1, <2>2
  <1>2. Edge \in Nat /\ Edge % Second = 0 /\ Edge <= time_now
    BY DEF EdgeInv, Edge
  <1>3. 0 % Second = 0
    BY TimeConstants, SMT
  <1>4. time_pps' = Edge
    BY <1>1
  <1> QED
    BY <1>1, <1>2, <1>3, <1>4, SMT DEF EdgeInv

LEMMA PublishInv ==
  ASSUME TimeInv, Time!Publish
  PROVE  TimeInv'
  <1>1. /\ time_stage = "done" /\ time_stage' = "top" /\ time_frame' = -1
        /\ time_now' = time_now /\ time_done' = time_done
        /\ time_pps' = Time!EdgeTaken /\ time_signal' = 0
    BY DEF Time!Publish
  <1>2. EdgeInv'
    BY <1>1, TakeEdge DEF TimeInv
  <1>3. FrameInv'
    BY <1>1, SMT DEF TimeInv, FrameInv
  <1>4. StampInv'
    <2> DEFINE f == time_frame
               e == Time!EdgeTaken
    <2>1. /\ f \in Nat /\ OnGrid(f) /\ f + 2 <= time_done /\ time_done <= f + Late
          /\ time_done <= time_now /\ time_done \in Nat /\ time_now \in Nat
      BY <1>1 DEF TimeInv, FrameInv, EdgeInv
    <2>2. e \in Nat /\ e % Second = 0 /\ e <= time_now /\ time_now < e + Second
      BY DEF TimeInv, EdgeInv, Edge, Time!EdgeTaken
    <2>3. PICK valid \in BOOLEAN :
            LET utc == Time!Utc(Time!Fraction(f)[1], Time!Fraction(f)[2])
            IN  time_out' = [stamp |-> Time!GnssTimestamp(e, time_done, Time!Fraction(f)[2], valid),
                             sec |-> utc[1], nano |-> utc[2], epoch |-> f]
      BY Zenon DEF Time!Publish
    <2> HIDE DEF e, f
    <2> DEFINE stamp == Time!GnssTimestamp(e, time_done, Time!Fraction(f)[2], valid)
               utc == Time!Utc(Time!Fraction(f)[1], Time!Fraction(f)[2])
    <2>4. stamp \in Int /\ stamp - f < Period /\ f - stamp < Period
      BY <2>1, <2>2, StampNear, Zenon
    <2>5. utc[1] \in Nat /\ utc[2] \in Nat /\ utc[2] < Second /\ utc[1] * Second + utc[2] = f
      BY <2>1, UtcIs, Zenon
    <2>6. time_out' = [stamp |-> stamp, sec |-> utc[1], nano |-> utc[2], epoch |-> f]
      BY <2>3, Zenon
    <2> HIDE DEF stamp, utc
    <2>7. /\ time_out'.stamp = stamp /\ time_out'.sec = utc[1] /\ time_out'.nano = utc[2]
          /\ time_out'.epoch = f
      BY <2>6, Zenon
    <2> QED
      BY <2>1, <2>4, <2>5, <2>7, Zenon DEF StampInv
  <1> QED
    BY <1>2, <1>3, <1>4 DEF TimeInv

LEMMA TimeNextInv ==
  ASSUME TimeInv, [Time!Next]_timeVars
  PROVE  TimeInv'
  <1>u. CASE UNCHANGED timeVars
    BY <1>u, Zenon DEF timeVars, TimeInv, EdgeInv, Edge, FrameInv, StampInv
  <1>s. CASE Time!Stop
    BY <1>s, <1>u, Zenon DEF Time!Stop, Time!vars, timeVars
  <1>o. ASSUME UNCHANGED time_out PROVE StampInv'
    BY <1>o, Zenon DEF TimeInv, StampInv
  <1>t. CASE Time!Tick
    <2>1. EdgeInv'
      BY <1>t, TickEdge DEF TimeInv
    <2>2. FrameInv'
      <3>1. /\ time_now' = time_now + 1 /\ UNCHANGED <<time_frame, time_stage, time_done>>
            /\ time_frame # -1 /\ time_stage # "done" => time_now < time_frame + Late
        BY <1>t, Zenon DEF Time!Tick
      <3>2. time_now \in Nat /\ FrameInv
        BY DEF TimeInv, EdgeInv
      <3>3. OnGrid(time_frame)' <=> OnGrid(time_frame)
        BY <3>1, Zenon DEF OnGrid
      <3> QED
        BY <3>1, <3>2, <3>3, TimeConstants, SMT DEF FrameInv
    <2>3. time_out' = time_out
      BY <1>t DEF Time!Tick
    <2> QED
      BY <2>1, <2>2, <2>3, <1>o, Zenon DEF TimeInv
  <1>e. CASE Time!Epoch
    <2>1. /\ UNCHANGED <<time_now, time_signal, time_pps, time_stage, time_done, time_out>>
          /\ time_frame' = time_now /\ OnGrid(time_now) /\ time_stage # "done"
      BY <1>e DEF Time!Epoch, OnGrid
    <2>2. EdgeInv'
      BY <2>1, Zenon DEF TimeInv, EdgeInv, Edge
    <2>g. OnGrid(time_frame')
      BY <2>1, Zenon
    <2>3. FrameInv'
      BY <2>1, <2>g, TimeConstants, SMT DEF TimeInv, EdgeInv, FrameInv
    <2> QED
      BY <2>1, <2>2, <2>3, <1>o, Zenon DEF TimeInv
  <1>l. CASE Time!LoopTop
    <2>1. /\ time_stage = "top" /\ time_stage' = "wait" /\ time_pps' = Time!EdgeTaken /\ time_signal' = 0
          /\ UNCHANGED <<time_now, time_frame, time_done, time_out>>
      BY <1>l DEF Time!LoopTop
    <2>2. EdgeInv'
      BY <2>1, TakeEdge DEF TimeInv
    <2>3. FrameInv'
      BY <2>1, SMT DEF TimeInv, FrameInv, OnGrid
    <2> QED
      BY <2>1, <2>2, <2>3, <1>o, Zenon DEF TimeInv
  <1>f. CASE Time!FrameEnds
    <2>1. /\ time_stage = "wait" /\ time_frame # -1 /\ time_now >= time_frame + 2
          /\ time_stage' = "done" /\ time_done' = time_now
          /\ UNCHANGED <<time_now, time_signal, time_pps, time_frame, time_out>>
      BY <1>f DEF Time!FrameEnds
    <2>2. EdgeInv'
      BY <2>1, Zenon DEF TimeInv, EdgeInv, Edge
    <2>3. FrameInv'
      BY <2>1, SMT DEF TimeInv, EdgeInv, FrameInv, OnGrid
    <2> QED
      BY <2>1, <2>2, <2>3, <1>o, Zenon DEF TimeInv
  <1>p. CASE Time!Publish
    BY <1>p, PublishInv
  <1> QED
    BY <1>u, <1>s, <1>t, <1>e, <1>l, <1>f, <1>p DEF Time!Next

LEMMA TimeImplies == TimeInv => Time!TypeOK /\ Time!StampNearEpoch /\ Time!UtcKept
  BY SMT DEF TimeInv, EdgeInv, FrameInv, StampInv, Time!TypeOK, Time!StampNearEpoch, Time!UtcKept

-----------------------------------------------------------------------------
(* The days before the year that starts in March of yy, and before month m  *)
(* of that year.                                                            *)
YearDays(yy) ==
  (yy \div 400) * 146097 + (yy - (yy \div 400) * 400) * 365
  + ((yy - (yy \div 400) * 400) \div 4) - ((yy - (yy \div 400) * 400) \div 100)
MonthDays(month) == (153 * Date!MonthIndex(month) + 2) \div 5
IsLeap(year) == year % 4 = 0 /\ (year % 100 # 0 \/ year % 400 = 0)

LEMMA YearDaysClosed ==
  ASSUME NEW yy \in Nat
  PROVE  YearDays(yy) = 365 * yy + (yy \div 4) - (yy \div 100) + (yy \div 400)
  <1>1. ASSUME NEW e \in Nat, NEW r \in 0 .. 399, yy = 400 * e + r
        PROVE  YearDays(yy) = 365 * yy + (yy \div 4) - (yy \div 100) + (yy \div 400)
    <2>1. yy \div 400 = e /\ yy \div 4 = 100 * e + (r \div 4) /\ yy \div 100 = 4 * e + (r \div 100)
      BY <1>1, SMT
    <2>2. yy - e * 400 = r
      BY <1>1, SMT
    <2> QED
      BY <1>1, <2>1, <2>2, SMT DEF YearDays
  <1> QED
    <2>1. yy \div 400 \in Nat /\ (yy % 400) \in 0 .. 399 /\ yy = 400 * (yy \div 400) + (yy % 400)
      BY SMT
    <2> QED
      BY <1>1, <2>1, SMT

LEMMA YearDaysNext ==
  ASSUME NEW yy \in Nat
  PROVE  YearDays(yy + 1) = YearDays(yy) + (IF IsLeap(yy + 1) THEN 366 ELSE 365)
  <1>1. /\ (yy + 1) \div 4 = (yy \div 4) + (IF (yy + 1) % 4 = 0 THEN 1 ELSE 0)
        /\ (yy + 1) \div 100 = (yy \div 100) + (IF (yy + 1) % 100 = 0 THEN 1 ELSE 0)
        /\ (yy + 1) \div 400 = (yy \div 400) + (IF (yy + 1) % 400 = 0 THEN 1 ELSE 0)
    BY SMT
  <1>2. /\ (yy + 1) % 400 = 0 => (yy + 1) % 100 = 0
        /\ (yy + 1) % 100 = 0 => (yy + 1) % 4 = 0
    BY SMT
  <1>3. YearDays(yy + 1) = 365 * (yy + 1) + ((yy + 1) \div 4) - ((yy + 1) \div 100) + ((yy + 1) \div 400)
    BY YearDaysClosed
  <1> QED
    BY <1>1, <1>2, <1>3, YearDaysClosed, SMT DEF IsLeap

LEMMA UnixDayIs ==
  ASSUME NEW year \in Nat \ {0}, NEW month \in 1 .. 12, NEW day \in Nat
  PROVE  Date!UnixDay(year, month, day) =
           YearDays(IF month <= 2 THEN year - 1 ELSE year) + MonthDays(month) + day - 719469
  <1> DEFINE yy == IF month <= 2 THEN year - 1 ELSE year
  <1>1. yy \in Nat
    BY SMT
  <1>2. Date!EraOff(yy) = yy \div 400
    BY <1>1, SMT DEF Date!EraOff, Date!Div
  <1> HIDE DEF yy
  <1>3. yy - (yy \div 400) * 400 \in 0 .. 399
    BY <1>1, SMT
  <1>4. /\ Date!Div(yy - (yy \div 400) * 400, 4) = (yy - (yy \div 400) * 400) \div 4
        /\ Date!Div(yy - (yy \div 400) * 400, 100) = (yy - (yy \div 400) * 400) \div 100
    BY <1>3, SMT DEF Date!Div
  <1>5. Date!Div(153 * Date!MonthIndex(month) + 2, 5) = MonthDays(month) /\ MonthDays(month) \in Nat
    BY SMT DEF Date!Div, MonthDays, Date!MonthIndex
  <1>u. Date!UnixDay(year, month, day) =
          Date!EraOff(yy) * 146097 + ((yy - Date!EraOff(yy) * 400) * 365
          + Date!Div(yy - Date!EraOff(yy) * 400, 4) - Date!Div(yy - Date!EraOff(yy) * 400, 100)
          + (Date!Div(153 * Date!MonthIndex(month) + 2, 5) + day - 1)) - 719468
    BY SMT DEF Date!UnixDay, yy
  <1>6. Date!UnixDay(year, month, day) =
          (yy \div 400) * 146097 + ((yy - (yy \div 400) * 400) * 365
          + ((yy - (yy \div 400) * 400) \div 4) - ((yy - (yy \div 400) * 400) \div 100)
          + (MonthDays(month) + day - 1)) - 719468
    BY <1>u, <1>2, <1>4, <1>5, SMT
  <1> QED
    BY <1>1, <1>5, <1>6, SMT DEF YearDays, yy

LEMMA MonthTable ==
  /\ MonthDays(1) = 306 /\ MonthDays(2) = 337 /\ MonthDays(3) = 0 /\ MonthDays(4) = 31
  /\ MonthDays(5) = 61 /\ MonthDays(6) = 92 /\ MonthDays(7) = 122 /\ MonthDays(8) = 153
  /\ MonthDays(9) = 184 /\ MonthDays(10) = 214 /\ MonthDays(11) = 245 /\ MonthDays(12) = 275
  BY SMT DEF MonthDays, Date!MonthIndex

LEMMA DaysInIs ==
  /\ date_m = 2 => Date!DaysIn = IF IsLeap(date_y) THEN 29 ELSE 28
  /\ date_m \in {4, 6, 9, 11} => Date!DaysIn = 30
  /\ date_m \in {1, 3, 5, 7, 8, 10, 12} => Date!DaysIn = 31
  <1>1. Date!Leap <=> IsLeap(date_y)
    BY Zenon DEF Date!Leap, IsLeap
  <1>2. ASSUME date_m = 2 PROVE Date!DaysIn = IF IsLeap(date_y) THEN 29 ELSE 28
    <2>1. ~ (date_m \in {4, 6, 9, 11})
      BY <1>2, SMT
    <2> QED
      BY <1>1, <1>2, <2>1, Zenon DEF Date!DaysIn
  <1>3. ASSUME date_m \in {4, 6, 9, 11} PROVE Date!DaysIn = 30
    <2>1. date_m # 2
      BY <1>3, SMT
    <2> QED
      BY <1>3, <2>1, Zenon DEF Date!DaysIn
  <1>4. ASSUME date_m \in {1, 3, 5, 7, 8, 10, 12} PROVE Date!DaysIn = 31
    <2>1. date_m # 2 /\ ~ (date_m \in {4, 6, 9, 11})
      BY <1>4, SMT
    <2> QED
      BY <2>1, Zenon DEF Date!DaysIn
  <1> QED
    BY <1>2, <1>3, <1>4, Zenon

DateInv ==
  /\ date_y \in Nat \ {0} /\ date_m \in 1 .. 12 /\ date_d \in 1 .. 31
  /\ date_d <= Date!DaysIn /\ Date!DaysIn \in 28 .. 31
  /\ date_count = Date!UnixDay(date_y, date_m, date_d)

LEMMA DaysInRange == date_m \in 1 .. 12 => Date!DaysIn \in 28 .. 31
  <1> SUFFICES ASSUME date_m \in 1 .. 12 PROVE Date!DaysIn \in 28 .. 31
    OBVIOUS
  <1>1. date_m = 2 \/ date_m \in {4, 6, 9, 11} \/ date_m \in {1, 3, 5, 7, 8, 10, 12}
    BY SMT
  <1>2. CASE date_m = 2
    <2>1. Date!DaysIn = 28 \/ Date!DaysIn = 29
      BY <1>2, DaysInIs, Zenon
    <2> QED
      BY <2>1, SMT
  <1>3. CASE date_m \in {4, 6, 9, 11}
    <2>1. Date!DaysIn = 30
      BY <1>3, DaysInIs, Zenon
    <2> QED
      BY <2>1, SMT
  <1>4. CASE date_m \in {1, 3, 5, 7, 8, 10, 12}
    <2>1. Date!DaysIn = 31
      BY <1>4, DaysInIs, Zenon
    <2> QED
      BY <2>1, SMT
  <1> QED
    BY <1>1, <1>2, <1>3, <1>4, Zenon

(* The first of the month after month m of year yy is a day later than the *)
(* last of that month.                                                     *)
LEMMA MonthEnd ==
  ASSUME date_y \in Nat \ {0}, date_m \in 1 .. 12
  PROVE  /\ date_m < 12 => Date!UnixDay(date_y, date_m + 1, 1) = Date!UnixDay(date_y, date_m, Date!DaysIn) + 1
         /\ date_m = 12 => Date!UnixDay(date_y + 1, 1, 1) = Date!UnixDay(date_y, 12, Date!DaysIn) + 1
  <1> DEFINE day == Date!DaysIn
  <1>1. day \in 28 .. 31
    BY DaysInRange
  <1>2. Date!UnixDay(date_y, date_m, day) =
          YearDays(IF date_m <= 2 THEN date_y - 1 ELSE date_y) + MonthDays(date_m) + day - 719469
    BY <1>1, UnixDayIs, SMT
  <1> HIDE DEF day
  <1>3. date_m < 12 => Date!UnixDay(date_y, date_m + 1, 1) =
          YearDays(IF date_m + 1 <= 2 THEN date_y - 1 ELSE date_y) + MonthDays(date_m + 1) + 1 - 719469
    BY UnixDayIs, SMT
  <1>4. Date!UnixDay(date_y + 1, 1, 1) = YearDays((date_y + 1) - 1) + MonthDays(1) + 1 - 719469
    BY UnixDayIs, SMT
  <1>5. YearDays(date_y) = YearDays(date_y - 1) + (IF IsLeap(date_y) THEN 366 ELSE 365)
    <2> DEFINE last == date_y - 1
    <2>1. last \in Nat /\ last + 1 = date_y
      BY SMT
    <2> HIDE DEF last
    <2>2. YearDays(last + 1) = YearDays(last) + (IF IsLeap(last + 1) THEN 366 ELSE 365)
      BY <2>1, YearDaysNext
    <2>3. YearDays(date_y) = YearDays(last) + (IF IsLeap(date_y) THEN 366 ELSE 365)
      BY <2>1, <2>2
    <2> QED
      BY <2>3, SMT DEF last
  <1>6. YearDays(date_y) \in Int /\ YearDays(date_y - 1) \in Int
    BY SMT DEF YearDays
  <1>7. CASE date_m = 2
    <2>1. day = IF IsLeap(date_y) THEN 29 ELSE 28
      BY <1>7, DaysInIs, Zenon DEF day
    <2> QED
      BY <1>2, <1>3, <1>5, <1>6, <1>7, <2>1, MonthTable, SMT DEF day
  <1>8. CASE date_m \in {4, 6, 9, 11}
    <2>1. day = 30
      BY <1>8, DaysInIs, Zenon DEF day
    <2> QED
      BY <1>2, <1>3, <1>6, <1>8, <2>1, MonthTable, SMT DEF day
  <1>9. CASE date_m \in {1, 3, 5, 7, 8, 10, 12}
    <2>1. day = 31
      BY <1>9, DaysInIs, Zenon DEF day
    <2> QED
      BY <1>2, <1>3, <1>4, <1>6, <1>9, <2>1, MonthTable, SMT DEF day
  <1>10. date_m = 2 \/ date_m \in {4, 6, 9, 11} \/ date_m \in {1, 3, 5, 7, 8, 10, 12}
    BY SMT
  <1> QED
    BY <1>7, <1>8, <1>9, <1>10, Zenon DEF day

LEMMA DateInitInv ==
  ASSUME Date!Init
  PROVE  DateInv
  <1>1. /\ FirstYear \in Nat \ {0}
        /\ FirstDay = 365 * (FirstYear - 1970) + ((FirstYear - 1) \div 4) - ((FirstYear - 1) \div 100)
                        + ((FirstYear - 1) \div 400) - 477
    BY DateAssumption DEF Date!GnssDateAssumption
  <1>2. date_y = FirstYear /\ date_m = 1 /\ date_d = 1 /\ date_count = FirstDay
    BY DEF Date!Init
  <1>3. Date!UnixDay(FirstYear, 1, 1) = YearDays(FirstYear - 1) + MonthDays(1) + 1 - 719469
    BY <1>1, UnixDayIs, SMT
  <1>4. YearDays(FirstYear - 1) = 365 * (FirstYear - 1) + ((FirstYear - 1) \div 4)
          - ((FirstYear - 1) \div 100) + ((FirstYear - 1) \div 400)
    <2> DEFINE past == FirstYear - 1
    <2>1. past \in Nat
      BY <1>1, SMT
    <2> HIDE DEF past
    <2>2. YearDays(past) = 365 * past + (past \div 4) - (past \div 100) + (past \div 400)
      BY <2>1, YearDaysClosed
    <2> QED
      BY <2>2, SMT DEF past
  <1>5. Date!UnixDay(FirstYear, 1, 1) = FirstDay
    BY <1>1, <1>3, <1>4, MonthTable, SMT
  <1>6. Date!DaysIn \in 28 .. 31
    BY <1>2, DaysInRange, SMT
  <1>7. date_count = Date!UnixDay(date_y, date_m, date_d)
    BY <1>2, <1>5, Zenon
  <1> QED
    BY <1>1, <1>2, <1>6, <1>7, SMT DEF DateInv

LEMMA DateNextInv ==
  ASSUME DateInv, [Date!Next]_dateVars
  PROVE  DateInv'
  <1>s. CASE UNCHANGED dateVars
    BY <1>s DEF dateVars, DateInv, Date!DaysIn, Date!Leap
  <1>n. CASE Date!NextDay
    <2>1. /\ date_y \in Nat \ {0} /\ date_m \in 1 .. 12 /\ date_d \in 1 .. 31
          /\ date_d <= Date!DaysIn /\ Date!DaysIn \in 28 .. 31
          /\ date_count = Date!UnixDay(date_y, date_m, date_d)
      BY DEF DateInv
    <2>2. CASE date_d < Date!DaysIn
      <3>1. date_y' = date_y /\ date_m' = date_m /\ date_d' = date_d + 1 /\ date_count' = date_count + 1
        BY <1>n, <2>2 DEF Date!NextDay
      <3>2. Date!UnixDay(date_y, date_m, date_d + 1) = Date!UnixDay(date_y, date_m, date_d) + 1
        <4>1. /\ Date!UnixDay(date_y, date_m, date_d) =
                   YearDays(IF date_m <= 2 THEN date_y - 1 ELSE date_y) + MonthDays(date_m) + date_d - 719469
              /\ Date!UnixDay(date_y, date_m, date_d + 1) =
                   YearDays(IF date_m <= 2 THEN date_y - 1 ELSE date_y) + MonthDays(date_m) + (date_d + 1) - 719469
          BY <2>1, UnixDayIs, SMT
        <4>2. YearDays(IF date_m <= 2 THEN date_y - 1 ELSE date_y) \in Int /\ MonthDays(date_m) \in Int
          BY <2>1, SMT DEF YearDays, MonthDays, Date!MonthIndex
        <4> QED
          BY <2>1, <4>1, <4>2, SMT
      <3>3. Date!DaysIn' = Date!DaysIn
        BY <3>1 DEF Date!DaysIn, Date!Leap
      <3>4. date_count' = Date!UnixDay(date_y', date_m', date_d')
        BY <2>1, <3>1, <3>2, Zenon
      <3>5. date_d' \in 1 .. 31 /\ date_d' <= Date!DaysIn
        BY <2>1, <2>2, <3>1, SMT
      <3> QED
        BY <2>1, <3>1, <3>3, <3>4, <3>5, Zenon DEF DateInv
    <2>3. CASE ~ (date_d < Date!DaysIn)
      <3>1. date_d = Date!DaysIn
        BY <2>1, <2>3, SMT
      <3>2. date_d' = 1 /\ date_count' = date_count + 1
            /\ IF date_m < 12 THEN date_m' = date_m + 1 /\ date_y' = date_y ELSE date_m' = 1 /\ date_y' = date_y + 1
        BY <1>n, <2>3 DEF Date!NextDay
      <3>3. date_y' \in Nat \ {0} /\ date_m' \in 1 .. 12
        BY <2>1, <3>2, SMT
      <3>4. date_count' = Date!UnixDay(date_y', date_m', 1)
        <4>1. CASE date_m < 12
          BY <2>1, <3>1, <3>2, <4>1, MonthEnd, Zenon
        <4>2. CASE ~ (date_m < 12)
          <5>1. date_m = 12
            BY <2>1, <4>2, SMT
          <5> QED
            BY <2>1, <3>1, <3>2, <4>2, <5>1, MonthEnd, Zenon
        <4> QED
          BY <4>1, <4>2
      <3>5. (Date!DaysIn \in 28 .. 31)'
        <4>1. (date_m \in 1 .. 12 => Date!DaysIn \in 28 .. 31)'
          BY DaysInRange, PTL
        <4> QED
          BY <3>3, <4>1
      <3>6. (date_d <= Date!DaysIn)' /\ date_d' \in 1 .. 31
        BY <3>2, <3>5, SMT
      <3>7. date_count' = Date!UnixDay(date_y', date_m', date_d')
        BY <3>2, <3>4, Zenon
      <3> QED
        BY <3>3, <3>5, <3>6, <3>7, Zenon DEF DateInv
    <2> QED
      BY <2>2, <2>3
  <1>t. CASE Date!Stop
    BY <1>t DEF Date!Stop, Date!vars, DateInv, Date!DaysIn, Date!Leap
  <1> QED
    BY <1>s, <1>n, <1>t DEF Date!Next

-----------------------------------------------------------------------------
(* The SBUS task and the RC queue, for every capacity.                     *)
Cells == 1 .. 4
(* Of the parts of a frame that are in the buffer the front is of the newer *)
(* one, as a short read replaces it.                                        *)
FrontNewer(c) == c[1] > 0 /\ c[2] > 0 => c[1] >= c[2]
Chans(m) == (-1 .. m) \X (-1 .. m)
RcPackets(m) == [timestamp : 0 .. m, chan : Chans(m), timeout : BOOLEAN]
(* Packets were made one after the other: the one taken last, those in the  *)
(* queue, the one in hand.                                                  *)
RcOrder ==
  /\ sbus_got.timestamp <= sbus_packet.timestamp /\ sbus_packet.timestamp <= sbus_sent
  /\ \A i \in 1 .. Len(sbus_queue) : /\ sbus_got.timestamp <= sbus_queue[i].timestamp
                                    /\ sbus_queue[i].timestamp <= sbus_packet.timestamp
  /\ \A i, j \in 1 .. Len(sbus_queue) : i < j => sbus_queue[i].timestamp <= sbus_queue[j].timestamp
RcFront ==
  /\ \A i, j \in Cells : i < j /\ sbus_buffer[i] > 0 /\ sbus_buffer[j] > 0 => sbus_buffer[i] >= sbus_buffer[j]
  /\ FrontNewer(sbus_rcChan) /\ FrontNewer(sbus_packet.chan)
  /\ \A i \in 1 .. Len(sbus_queue) : FrontNewer(sbus_queue[i].chan)
RcTyped ==
  /\ sbus_sent \in 0 .. MaxRcFrames
  /\ sbus_buffer \in [Cells -> -1 .. sbus_sent] /\ sbus_whole \subseteq 1 .. sbus_sent
  /\ sbus_pc \in {"read", "publish", "check", "publishLoss"} /\ sbus_late \in BOOLEAN
  /\ sbus_packet \in RcPackets(MaxRcFrames) /\ sbus_got \in RcPackets(MaxRcFrames)
  /\ sbus_rcChan \in Chans(MaxRcFrames)
  /\ sbus_queue \in Seq(RcPackets(MaxRcFrames)) /\ Len(sbus_queue) <= Capacity
RcInv == RcTyped /\ RcOrder /\ RcFront

LEMMA RcConstants == MaxRcFrames \in Nat /\ Capacity \in Nat \ {0}
  BY RcAssumption DEF Sbus!SbusAssumption

LEMMA RcNumbers ==
  ASSUME RcInv
  PROVE  /\ sbus_packet.timestamp \in Nat /\ sbus_got.timestamp \in Nat /\ sbus_sent \in Nat
         /\ \A i \in 1 .. Len(sbus_queue) : sbus_queue[i].timestamp \in Nat
  <1>1. /\ sbus_packet \in RcPackets(MaxRcFrames) /\ sbus_got \in RcPackets(MaxRcFrames)
        /\ \A i \in 1 .. Len(sbus_queue) : sbus_queue[i] \in RcPackets(MaxRcFrames)
        /\ sbus_sent \in Nat
    BY RcConstants DEF RcInv, RcTyped
  <1>2. ASSUME NEW p \in RcPackets(MaxRcFrames) PROVE p.timestamp \in Nat
    BY RcConstants DEF RcPackets
  <1> QED
    BY <1>1, <1>2

LEMMA RcInit ==
  ASSUME Sbus!Init
  PROVE  RcInv
  <1>1. /\ sbus_sent = 0 /\ sbus_buffer = [i \in Cells |-> 0] /\ sbus_whole = {}
        /\ sbus_rcChan = <<0, 0>> /\ sbus_late = FALSE /\ sbus_pc = "read"
        /\ sbus_packet = [timestamp |-> 0, chan |-> <<0, 0>>, timeout |-> FALSE]
        /\ sbus_queue = <<>> /\ sbus_got = sbus_packet
    BY DEF Sbus!Init, Sbus!Zero, Sbus!Cells, Cells
  <1>2. MaxRcFrames \in Nat /\ Capacity \in Nat \ {0}
    BY RcConstants
  <1>3. <<0, 0>> \in Chans(MaxRcFrames)
    BY <1>2 DEF Chans
  <1>4. sbus_packet \in RcPackets(MaxRcFrames)
    BY <1>1, <1>2, <1>3 DEF RcPackets
  <1>5. RcTyped
    <2>1. sbus_buffer \in [Cells -> -1 .. sbus_sent] /\ sbus_sent \in 0 .. MaxRcFrames
      BY <1>1, <1>2
    <2>2. sbus_queue \in Seq(RcPackets(MaxRcFrames)) /\ Len(sbus_queue) <= Capacity
      BY <1>1, <1>2
    <2>3. sbus_got \in RcPackets(MaxRcFrames)
      BY <1>1, <1>4
    <2> QED
      BY <1>1, <1>3, <1>4, <2>1, <2>2, <2>3, Zenon DEF RcTyped
  <1>6. RcOrder
    BY <1>1 DEF RcOrder
  <1>7. FrontNewer(<<0, 0>>)
    BY DEF FrontNewer
  <1>8. RcFront
    BY <1>1, <1>7 DEF RcFront, Cells
  <1> QED
    BY <1>5, <1>6, <1>8 DEF RcInv

(* A read that puts the first n cells of frame w, the newest, or of garbage *)
(* into the buffer.                                                         *)
LEMMA RcReads ==
  ASSUME RcInv, NEW n \in 0 .. 4, NEW w, NEW ok \in BOOLEAN,
         Sbus!Read(Sbus!Overwritten(n, w), ok),
         \/ sbus_sent' = sbus_sent + 1 /\ sbus_sent < MaxRcFrames /\ w = sbus_sent + 1
         \/ sbus_sent' = sbus_sent /\ w = -1,
         sbus_whole' \subseteq 1 .. sbus_sent'
  PROVE  RcInv'
  <1> DEFINE c == Sbus!Overwritten(n, w)
  <1>1. /\ sbus_sent \in 0 .. MaxRcFrames /\ MaxRcFrames \in Nat
        /\ sbus_buffer \in [Cells -> -1 .. sbus_sent]
        /\ sbus_sent' \in sbus_sent .. MaxRcFrames /\ w \in -1 .. sbus_sent'
        /\ w > 0 => w = sbus_sent'
    BY RcConstants DEF RcInv, RcTyped
  <1>2. c = [i \in Cells |-> IF i <= n THEN w ELSE sbus_buffer[i]]
    BY Zenon DEF Sbus!Overwritten, Sbus!Cells, Cells
  <1> HIDE DEF c
  <1>3. c \in [Cells -> -1 .. sbus_sent']
    BY <1>1, <1>2 DEF Cells
  <1>4. \A i, j \in Cells : i < j /\ c[i] > 0 /\ c[j] > 0 => c[i] >= c[j]
    <2> TAKE i, j \in Cells
    <2>1. c[i] = (IF i <= n THEN w ELSE sbus_buffer[i]) /\ c[j] = (IF j <= n THEN w ELSE sbus_buffer[j])
      BY <1>2
    <2>2. i < j /\ sbus_buffer[i] > 0 /\ sbus_buffer[j] > 0 => sbus_buffer[i] >= sbus_buffer[j]
      BY DEF RcInv, RcFront
    <2>3. sbus_buffer[i] \in -1 .. sbus_sent /\ sbus_buffer[j] \in -1 .. sbus_sent
      BY <1>1
    <2> QED
      BY <1>1, <2>1, <2>2, <2>3 DEF Cells
  <1>5. /\ sbus_buffer' = c /\ sbus_late' = (IF ok THEN FALSE ELSE sbus_late)
        /\ sbus_queue' = sbus_queue /\ sbus_got' = sbus_got
        /\ \/ /\ sbus_pc' = "publish" /\ sbus_rcChan' = <<c[2], c[3]>>
              /\ sbus_packet' = [timestamp |-> sbus_sent', chan |-> <<c[2], c[3]>>, timeout |-> FALSE]
           \/ sbus_pc' = "check" /\ sbus_rcChan' = sbus_rcChan /\ sbus_packet' = sbus_packet
    BY DEF Sbus!Read, Sbus!Good, c
  <1>6. /\ <<c[2], c[3]>> \in Chans(MaxRcFrames) /\ FrontNewer(<<c[2], c[3]>>)
        /\ [timestamp |-> sbus_sent', chan |-> <<c[2], c[3]>>, timeout |-> FALSE] \in RcPackets(MaxRcFrames)
    <2>1. 2 \in Cells /\ 3 \in Cells /\ 2 < 3
      BY DEF Cells
    <2>2. c[2] \in -1 .. MaxRcFrames /\ c[3] \in -1 .. MaxRcFrames
      BY <1>1, <1>3, <2>1
    <2>3. c[2] > 0 /\ c[3] > 0 => c[2] >= c[3]
      BY <1>4, <2>1
    <2>4. sbus_sent' \in 0 .. MaxRcFrames
      BY <1>1
    <2> QED
      BY <2>2, <2>3, <2>4 DEF Chans, FrontNewer, RcPackets
  <1>7. RcTyped'
    <2>1. sbus_packet' \in RcPackets(MaxRcFrames) /\ sbus_rcChan' \in Chans(MaxRcFrames)
      BY <1>5, <1>6, Zenon DEF RcInv, RcTyped
    <2>2. sbus_pc' \in {"read", "publish", "check", "publishLoss"} /\ sbus_late' \in BOOLEAN
      BY <1>5, Zenon DEF RcInv, RcTyped
    <2>3. sbus_sent' \in 0 .. MaxRcFrames
      BY <1>1
    <2>4. sbus_buffer' \in [Cells -> -1 .. sbus_sent']
      BY <1>3, <1>5, Zenon
    <2>5. /\ sbus_got' \in RcPackets(MaxRcFrames)
          /\ sbus_queue' \in Seq(RcPackets(MaxRcFrames)) /\ Len(sbus_queue') <= Capacity
      BY <1>5, Zenon DEF RcInv, RcTyped
    <2> QED
      BY <2>1, <2>2, <2>3, <2>4, <2>5, Zenon DEF RcTyped
  <1>8. RcOrder'
    <2>1. /\ sbus_packet.timestamp \in Nat /\ sbus_got.timestamp \in Nat
          /\ \A i \in 1 .. Len(sbus_queue) : sbus_queue[i].timestamp \in Nat
      BY RcNumbers
    <2>2. sbus_packet'.timestamp = sbus_sent' \/ sbus_packet' = sbus_packet
      BY <1>5
    <2>3. sbus_packet.timestamp <= sbus_packet'.timestamp /\ sbus_packet'.timestamp <= sbus_sent'
      BY <1>1, <2>1, <2>2 DEF RcInv, RcOrder
    <2>4. sbus_packet'.timestamp \in Nat
      BY <1>1, <2>1, <2>2
    <2> QED
      <3>1. sbus_got.timestamp <= sbus_packet'.timestamp
        BY <2>1, <2>3, <2>4 DEF RcInv, RcOrder
      <3>2. \A i \in 1 .. Len(sbus_queue) : sbus_queue[i].timestamp <= sbus_packet'.timestamp
        BY <2>1, <2>3, <2>4 DEF RcInv, RcOrder
      <3> QED
        BY <1>5, <2>3, <3>1, <3>2, Zenon DEF RcInv, RcOrder
  <1>9. RcFront'
    <2>1. FrontNewer(sbus_rcChan') /\ FrontNewer(sbus_packet'.chan)
      BY <1>5, <1>6 DEF RcInv, RcFront
    <2> QED
      BY <1>4, <1>5, <2>1 DEF RcInv, RcFront
  <1> QED
    BY <1>7, <1>8, <1>9 DEF RcInv

LEMMA RcNext ==
  ASSUME RcInv, [Sbus!Next]_sbusVars
  PROVE  RcInv' /\ sbus_got'.timestamp >= sbus_got.timestamp
  <1>0. /\ sbus_got.timestamp \in Nat /\ sbus_packet.timestamp \in Nat /\ sbus_sent \in 0 .. MaxRcFrames
        /\ sbus_got.timestamp >= sbus_got.timestamp /\ MaxRcFrames \in Nat /\ Capacity \in Nat \ {0}
    BY RcConstants DEF RcInv, RcTyped, RcPackets
  <1>1. CASE Sbus!ReadFrame
    <2>1. PICK n \in Sbus!Cells, ok \in BOOLEAN :
            /\ Sbus!Read(Sbus!Overwritten(n, sbus_sent + 1), ok)
            /\ sbus_whole' = IF n = 4 /\ ok THEN sbus_whole \cup {sbus_sent + 1} ELSE sbus_whole
      BY <1>1 DEF Sbus!ReadFrame
    <2>2. sbus_sent' = sbus_sent + 1 /\ sbus_sent < MaxRcFrames /\ n \in 0 .. 4
      BY <1>1 DEF Sbus!ReadFrame, Sbus!Cells
    <2>3. sbus_whole' \subseteq 1 .. sbus_sent'
      BY <1>0, <2>1, <2>2 DEF RcInv, RcTyped
    <2>4. sbus_got' = sbus_got
      BY <2>1 DEF Sbus!Read
    <2> QED
      BY <1>0, <2>1, <2>2, <2>3, <2>4, RcReads
  <1>2. CASE Sbus!ReadNoise
    <2>1. PICK n \in 0 .. 4, ok \in BOOLEAN : Sbus!Read(Sbus!Overwritten(n, -1), ok)
      BY <1>2 DEF Sbus!ReadNoise
    <2>2. sbus_sent' = sbus_sent /\ sbus_whole' = sbus_whole
      BY <1>2 DEF Sbus!ReadNoise
    <2>3. sbus_whole' \subseteq 1 .. sbus_sent'
      BY <2>2 DEF RcInv, RcTyped
    <2>4. sbus_got' = sbus_got
      BY <2>1 DEF Sbus!Read
    <2> QED
      BY <1>0, <2>1, <2>2, <2>3, <2>4, RcReads
  <1>3. ASSUME NEW next, Sbus!Sends(next), next \in {"check", "read"},
               UNCHANGED <<sbus_sent, sbus_buffer, sbus_whole, sbus_rcChan, sbus_late, sbus_packet, sbus_got>>
        PROVE  RcInv' /\ sbus_got'.timestamp >= sbus_got.timestamp
    <2>1. Len(sbus_queue) < Capacity /\ sbus_queue' = Append(sbus_queue, sbus_packet) /\ sbus_pc' = next
      BY <1>3 DEF Sbus!Sends
    <2> DEFINE l == Len(sbus_queue)
    <2>2. /\ sbus_queue \in Seq(RcPackets(MaxRcFrames)) /\ sbus_packet \in RcPackets(MaxRcFrames)
      BY DEF RcInv, RcTyped
    <2>3. /\ sbus_queue' \in Seq(RcPackets(MaxRcFrames)) /\ l \in Nat /\ Len(sbus_queue') = l + 1
          /\ \A i \in 1 .. l : sbus_queue'[i] = sbus_queue[i]
          /\ sbus_queue'[l + 1] = sbus_packet
      BY <2>1, <2>2
    <2>4. RcTyped'
      BY <1>0, <1>3, <2>1, <2>3 DEF RcInv, RcTyped
    <2>5. RcOrder'
      <3>1. \A i \in 1 .. l + 1 : i \in 1 .. l \/ i = l + 1
        BY <2>3
      <3>2. /\ \A i \in 1 .. l : /\ sbus_got.timestamp <= sbus_queue[i].timestamp
                                 /\ sbus_queue[i].timestamp <= sbus_packet.timestamp
            /\ \A i, j \in 1 .. l : i < j => sbus_queue[i].timestamp <= sbus_queue[j].timestamp
            /\ sbus_got.timestamp <= sbus_packet.timestamp /\ sbus_packet.timestamp <= sbus_sent
        BY DEF RcInv, RcOrder
      <3>3. \A i \in 1 .. l + 1 : /\ sbus_got.timestamp <= sbus_queue'[i].timestamp
                                  /\ sbus_queue'[i].timestamp <= sbus_packet.timestamp
        BY <1>0, <2>3, <3>1, <3>2
      <3>4. \A i, j \in 1 .. l + 1 : i < j => sbus_queue'[i].timestamp <= sbus_queue'[j].timestamp
        <4> TAKE i, j \in 1 .. l + 1
        <4>1. CASE j = l + 1
          BY <2>3, <3>3, <4>1
        <4>2. CASE j # l + 1
          <5>1. i < j => i \in 1 .. l /\ j \in 1 .. l
            BY <2>3, <4>2
          <5> QED
            BY <2>3, <3>2, <5>1
        <4> QED
          BY <4>1, <4>2
      <3> QED
        BY <1>3, <2>3, <3>2, <3>3, <3>4 DEF RcOrder
    <2>6. RcFront'
      <3>1. \A i \in 1 .. l + 1 : FrontNewer(sbus_queue'[i].chan)
        <4>1. \A i \in 1 .. l + 1 : i \in 1 .. l \/ i = l + 1
          BY <2>3
        <4> QED
          BY <2>3, <4>1, Zenon DEF RcInv, RcFront
      <3> QED
        BY <1>3, <2>3, <3>1 DEF RcInv, RcFront
    <2> QED
      BY <1>0, <1>3, <2>4, <2>5, <2>6 DEF RcInv
  <1>4. CASE Sbus!PublishRc
    BY <1>3, <1>4 DEF Sbus!PublishRc
  <1>5. CASE Sbus!PublishLoss
    BY <1>3, <1>5 DEF Sbus!PublishLoss
  <1>6. CASE Sbus!CheckTimeout
    <2>1. /\ UNCHANGED <<sbus_sent, sbus_buffer, sbus_whole, sbus_rcChan, sbus_queue, sbus_got>>
          /\ \/ /\ sbus_pc' = "publishLoss" /\ sbus_late' = FALSE
                /\ sbus_packet' = [timestamp |-> sbus_sent, chan |-> sbus_rcChan, timeout |-> TRUE]
             \/ sbus_pc' = "read" /\ UNCHANGED <<sbus_packet, sbus_late>>
      BY <1>6 DEF Sbus!CheckTimeout, Sbus!Loss
    <2>2. [timestamp |-> sbus_sent, chan |-> sbus_rcChan, timeout |-> TRUE] \in RcPackets(MaxRcFrames)
      BY DEF RcInv, RcTyped, RcPackets
    <2>3. RcTyped'
      BY <2>1, <2>2 DEF RcInv, RcTyped
    <2>4. RcOrder'
      <3>1. \A i \in 1 .. Len(sbus_queue) : sbus_queue[i].timestamp \in Nat
        BY RcNumbers
      <3>2. sbus_packet'.timestamp = sbus_sent \/ sbus_packet' = sbus_packet
        BY <2>1
      <3>3. sbus_packet.timestamp <= sbus_packet'.timestamp /\ sbus_packet'.timestamp <= sbus_sent
            /\ sbus_packet'.timestamp \in Nat
        BY <1>0, <3>2 DEF RcInv, RcOrder
      <3> QED
        BY <1>0, <2>1, <3>1, <3>3 DEF RcInv, RcOrder
    <2>5. RcFront'
      <3>1. FrontNewer(sbus_packet'.chan)
        BY <2>1 DEF RcInv, RcFront
      <3> QED
        BY <2>1, <3>1 DEF RcInv, RcFront
    <2> QED
      BY <1>0, <2>1, <2>3, <2>4, <2>5 DEF RcInv
  <1>7. CASE Sbus!Timeout
    BY <1>0, <1>7 DEF Sbus!Timeout, RcInv, RcTyped, RcOrder, RcFront
  <1>8. CASE Sbus!TryReceive
    <2>1. /\ sbus_queue # <<>> /\ sbus_got' = Head(sbus_queue) /\ sbus_queue' = Tail(sbus_queue)
          /\ UNCHANGED <<sbus_sent, sbus_buffer, sbus_whole, sbus_rcChan, sbus_late, sbus_pc, sbus_packet>>
      BY <1>8 DEF Sbus!TryReceive
    <2> DEFINE l == Len(sbus_queue)
    <2>2. sbus_queue \in Seq(RcPackets(MaxRcFrames)) /\ l <= Capacity
      BY DEF RcInv, RcTyped
    <2>3. /\ sbus_got' = sbus_queue[1] /\ sbus_got' \in RcPackets(MaxRcFrames)
          /\ l \in Nat \ {0} /\ sbus_queue' \in Seq(RcPackets(MaxRcFrames)) /\ Len(sbus_queue') = l - 1
          /\ \A i \in 1 .. l - 1 : sbus_queue'[i] = sbus_queue[i + 1]
      BY <2>1, <2>2
    <2>4. RcTyped'
      BY <1>0, <2>1, <2>2, <2>3 DEF RcInv, RcTyped
    <2>5. /\ \A i \in 1 .. l : /\ sbus_got.timestamp <= sbus_queue[i].timestamp
                               /\ sbus_queue[i].timestamp <= sbus_packet.timestamp
          /\ \A i, j \in 1 .. l : i < j => sbus_queue[i].timestamp <= sbus_queue[j].timestamp
      BY DEF RcInv, RcOrder
    <2>6. \A i \in 1 .. l - 1 : 1 \in 1 .. l /\ i + 1 \in 1 .. l /\ 1 < i + 1
      BY <2>3
    <2>7. 1 \in 1 .. l
      BY <2>3
    <2>8. RcOrder'
      <3>1. sbus_got'.timestamp <= sbus_packet'.timestamp /\ sbus_packet'.timestamp <= sbus_sent'
        BY <2>1, <2>3, <2>5, <2>7 DEF RcInv, RcOrder
      <3>2. \A i \in 1 .. l - 1 : /\ sbus_got'.timestamp <= sbus_queue'[i].timestamp
                                  /\ sbus_queue'[i].timestamp <= sbus_packet'.timestamp
        BY <2>1, <2>3, <2>5, <2>6
      <3>3. \A i, j \in 1 .. l - 1 : i < j => sbus_queue'[i].timestamp <= sbus_queue'[j].timestamp
        BY <2>3, <2>5, <2>6
      <3> QED
        BY <2>3, <3>1, <3>2, <3>3 DEF RcOrder
    <2>9. RcFront'
      BY <2>1, <2>3, <2>6 DEF RcInv, RcFront
    <2> QED
      BY <2>3, <2>4, <2>5, <2>7, <2>8, <2>9 DEF RcInv
  <1>9. CASE UNCHANGED sbusVars
    BY <1>0, <1>9 DEF sbusVars, RcInv, RcTyped, RcOrder, RcFront
  <1> QED
    BY <1>1, <1>2, <1>4, <1>5, <1>6, <1>7, <1>8, <1>9 DEF Sbus!Next

LEMMA RcImplies ==
  ASSUME RcInv
  PROVE  Sbus!TypeOK /\ Sbus!FrontIsNewer
  <1>1. Sbus!TypeOK
    BY DEF RcInv, RcTyped, Sbus!TypeOK, Sbus!Packets, RcPackets, Chans, Sbus!Cells, Cells
  <1>2. Sbus!FrontIsNewer
    BY DEF RcInv, RcFront, FrontNewer, Sbus!FrontIsNewer
  <1> QED
    BY <1>1, <1>2

-----------------------------------------------------------------------------
(* The byte pipes of the companion link, for ports of any sizes.           *)
(* The bytes of a sequence of bytes <<frame, index>>, and their order.     *)
Byte == Nat \X Nat
Elems(s) == {s[i] : i \in 1 .. Len(s)}
Earlier(a, b) == a[1] < b[1] \/ (a[1] = b[1] /\ a[2] < b[2])
AllEarlier(s, t) == \A a \in Elems(s), b \in Elems(t) : Earlier(a, b)
Rising(s) == \A i, j \in 1 .. Len(s) : i < j => Earlier(s[i], s[j])

LEMMA CatElems ==
  ASSUME NEW S, NEW s \in Seq(S), NEW t \in Seq(S)
  PROVE  Elems(s \o t) = Elems(s) \cup Elems(t)
  <1> DEFINE st == s \o t
  <1>1. /\ st \in Seq(S) /\ Len(st) = Len(s) + Len(t)
        /\ \A i \in 1 .. Len(s) + Len(t) : st[i] = IF i <= Len(s) THEN s[i] ELSE t[i - Len(s)]
    BY ConcatProperties
  <1> HIDE DEF st
  <1>2. Len(s) \in Nat /\ Len(t) \in Nat
    OBVIOUS
  <1>3. \A i \in 1 .. Len(s) : i \in 1 .. Len(st) /\ st[i] = s[i]
    BY <1>1, <1>2
  <1>4. \A i \in 1 .. Len(t) : Len(s) + i \in 1 .. Len(st) /\ st[Len(s) + i] = t[i]
    <2> TAKE i \in 1 .. Len(t)
    <2>1. Len(s) + i \in 1 .. Len(s) + Len(t) /\ ~(Len(s) + i <= Len(s)) /\ (Len(s) + i) - Len(s) = i
      BY <1>2
    <2> QED
      BY <1>1, <2>1, Zenon
  <1>5. \A i \in 1 .. Len(st) : \/ i \in 1 .. Len(s) /\ st[i] = s[i]
                                \/ i - Len(s) \in 1 .. Len(t) /\ st[i] = t[i - Len(s)]
    BY <1>1, <1>2
  <1>6. \A x \in Elems(st) : x \in Elems(s) \/ x \in Elems(t)
    <2> SUFFICES ASSUME NEW i \in 1 .. Len(st) PROVE st[i] \in Elems(s) \/ st[i] \in Elems(t)
      BY DEF Elems
    <2> QED
      BY <1>5, Zenon DEF Elems
  <1>7. \A x \in Elems(s) : x \in Elems(st)
    BY <1>3, Zenon DEF Elems
  <1>8. \A x \in Elems(t) : x \in Elems(st)
    BY <1>4, Zenon DEF Elems
  <1> QED
    BY <1>6, <1>7, <1>8, Zenon DEF st

LEMMA CatRising ==
  ASSUME NEW S, NEW s \in Seq(S), NEW t \in Seq(S)
  PROVE  Rising(s \o t) <=> Rising(s) /\ Rising(t) /\ AllEarlier(s, t)
  <1> DEFINE st == s \o t
  <1>1. /\ st \in Seq(S) /\ Len(st) = Len(s) + Len(t)
        /\ \A i \in 1 .. Len(s) + Len(t) : st[i] = IF i <= Len(s) THEN s[i] ELSE t[i - Len(s)]
    BY ConcatProperties
  <1> HIDE DEF st
  <1>2. Len(s) \in Nat /\ Len(t) \in Nat
    OBVIOUS
  <1>3. \A i \in 1 .. Len(s) : i \in 1 .. Len(st) /\ st[i] = s[i]
    BY <1>1, <1>2
  <1>4. \A i \in 1 .. Len(t) : Len(s) + i \in 1 .. Len(st) /\ st[Len(s) + i] = t[i]
    <2> TAKE i \in 1 .. Len(t)
    <2>1. Len(s) + i \in 1 .. Len(s) + Len(t) /\ ~(Len(s) + i <= Len(s)) /\ (Len(s) + i) - Len(s) = i
      BY <1>2
    <2> QED
      BY <1>1, <2>1, Zenon
  <1>5. ASSUME Rising(st) PROVE Rising(s) /\ Rising(t) /\ AllEarlier(s, t)
    <2>1. Rising(s)
      BY <1>3, <1>5, Zenon DEF Rising
    <2>2. Rising(t)
      <3> SUFFICES ASSUME NEW i \in 1 .. Len(t), NEW j \in 1 .. Len(t), i < j
                   PROVE  Earlier(t[i], t[j])
        BY DEF Rising
      <3>1. Len(s) + i < Len(s) + j
        BY <1>2
      <3> QED
        BY <1>4, <1>5, <3>1, Zenon DEF Rising
    <2>3. AllEarlier(s, t)
      <3> SUFFICES ASSUME NEW i \in 1 .. Len(s), NEW j \in 1 .. Len(t)
                   PROVE  Earlier(s[i], t[j])
        BY DEF AllEarlier, Elems
      <3>1. i < Len(s) + j
        BY <1>2
      <3> QED
        BY <1>3, <1>4, <1>5, <3>1, Zenon DEF Rising
    <2> QED
      BY <2>1, <2>2, <2>3
  <1>6. ASSUME Rising(s), Rising(t), AllEarlier(s, t) PROVE Rising(st)
    <2> SUFFICES ASSUME NEW i \in 1 .. Len(st), NEW j \in 1 .. Len(st), i < j
                 PROVE  Earlier(st[i], st[j])
      BY DEF Rising
    <2>1. CASE j <= Len(s)
      <3>1. i \in 1 .. Len(s) /\ j \in 1 .. Len(s)
        BY <1>2, <2>1, <1>1
      <3> QED
        BY <1>3, <1>6, <3>1, Zenon DEF Rising
    <2>2. CASE i <= Len(s) /\ j > Len(s)
      <3>1. i \in 1 .. Len(s) /\ j - Len(s) \in 1 .. Len(t) /\ st[j] = t[j - Len(s)] /\ st[i] = s[i]
        BY <1>1, <1>2, <2>2
      <3> QED
        BY <1>6, <3>1, Zenon DEF AllEarlier, Elems
    <2>3. CASE i > Len(s)
      <3>1. /\ i - Len(s) \in 1 .. Len(t) /\ j - Len(s) \in 1 .. Len(t)
            /\ i - Len(s) < j - Len(s)
            /\ st[j] = t[j - Len(s)] /\ st[i] = t[i - Len(s)]
        BY <1>1, <1>2, <2>3
      <3> QED
        BY <1>6, <3>1, Zenon DEF Rising
    <2> QED
      BY <1>1, <1>2, <2>1, <2>2, <2>3
  <1> QED
    BY <1>5, <1>6 DEF st

(* A sequence is what was taken from its head and what was left.           *)
LEMMA Taken ==
  ASSUME NEW S, NEW s \in Seq(S), NEW n \in 0 .. Len(s)
  PROVE  /\ SubSeq(s, 1, n) \in Seq(S) /\ SubSeq(s, n + 1, Len(s)) \in Seq(S)
         /\ Len(SubSeq(s, 1, n)) = n /\ Len(SubSeq(s, n + 1, Len(s))) = Len(s) - n
         /\ SubSeq(s, 1, n) \o SubSeq(s, n + 1, Len(s)) = s
  <1>1. Len(s) \in Nat /\ n \in Nat /\ n <= Len(s)
    OBVIOUS
  <1>2. SubSeq(s, 1, n) \o SubSeq(s, n + 1, Len(s)) = SubSeq(s, 1, Len(s))
    <2>1. 1 \in 1 .. Len(s) + 1 /\ n \in 1 - 1 .. Len(s) /\ Len(s) \in n .. Len(s)
      BY <1>1
    <2> QED
      BY <2>1, ConcatAdjacentSubSeq, Zenon
  <1>3. SubSeq(s, 1, Len(s)) = s
    BY SubSeqFull
  <1>4. SubSeq(s, 1, n) \in Seq(S) /\ Len(SubSeq(s, 1, n)) = n
    BY <1>1
  <1>5. SubSeq(s, n + 1, Len(s)) \in Seq(S) /\ Len(SubSeq(s, n + 1, Len(s))) = Len(s) - n
    BY <1>1
  <1> QED
    BY <1>2, <1>3, <1>4, <1>5, Zenon

(* The bytes on their way to the companion.                                *)
Bytes == (pipe_wire \o pipe_hand) \o pipe_txPipe
PipeTyped ==
  /\ pipe_port \in Ports
  /\ pipe_frame \in 0 .. Pipe!MaxFrames /\ pipe_off \in 0 .. Pipe!FrameLen /\ pipe_sending \in BOOLEAN
  /\ pipe_accepted \subseteq 1 .. pipe_frame /\ pipe_rejected \subseteq 1 .. pipe_frame
  /\ pipe_torn \subseteq 1 .. pipe_frame
  /\ pipe_accepted \cap pipe_rejected = {}
  /\ pipe_sending => /\ pipe_frame # 0 /\ pipe_off < Pipe!FrameLen
                     /\ pipe_frame \notin pipe_accepted \cup pipe_rejected
  /\ pipe_partial \in 0 .. Cardinality(pipe_rejected)
  /\ pipe_wire \in Seq(Byte) /\ pipe_hand \in Seq(Byte) /\ pipe_txPipe \in Seq(Byte)
  /\ Len(pipe_txPipe) <= Pipe!PipeSize
  /\ {pipe_up, pipe_serving, pipe_rxServing} \subseteq BOOLEAN
  /\ pipe_breaks \in 0 .. Pipe!MaxBreaks

(* Of the frames begun, of the latest what was taken.                      *)
Begun(b) ==
  /\ b[1] \in 1 .. Pipe!MaxFrames /\ b[2] \in 1 .. Pipe!FrameLen
  /\ b[1] < pipe_frame \/ (b[1] = pipe_frame /\ b[2] <= pipe_off)
(* The bytes are in order and none of a frame that was taken is missing,   *)
(* of the frame that is being written either.                              *)
PipeOrder ==
  /\ Rising(Bytes)
  /\ \A b \in Elems(Bytes) : Begun(b)
  /\ \A f \in pipe_accepted \ pipe_torn : \A i \in 1 .. Pipe!FrameLen : <<f, i>> \in Elems(Bytes)
  /\ pipe_sending /\ pipe_frame \notin pipe_torn =>
       \A i \in 1 .. pipe_off : <<pipe_frame, i>> \in Elems(Bytes)

(* Frames a part of which went out.                                        *)
Cut ==
  {f \in {b[1] : b \in Elems(Bytes)} \ (pipe_accepted \cup pipe_torn) :
     ~(pipe_sending /\ f = pipe_frame)}
CutsInStep ==
  /\ Cardinality(Cut) <= pipe_partial
  /\ pipe_torn = {} => Cardinality(Cut) = pipe_partial
PipeCuts == Pipe!Counted => CutsInStep

(* The bytes on their way to the flight loop, numbered by the companion.   *)
Received == (pipe_seen \o pipe_rxPipe) \o pipe_rxHand
PipeRx ==
  /\ pipe_seen \in Seq(Nat) /\ pipe_rxPipe \in Seq(Nat) /\ pipe_rxHand \in Seq(Nat)
  /\ Len(pipe_rxPipe) <= Pipe!RxPipeSize
  /\ pipe_host \in 0 .. Pipe!MaxRx
  /\ Len(Received) = pipe_host /\ \A i \in 1 .. pipe_host : Received[i] = i

PipeInv == PipeTyped /\ PipeOrder /\ PipeCuts /\ PipeRx

(* What three sequences in a row hold when bytes go from one to the next.   *)
Cat(s, t) == s \o t
LEMMA BytesTogether ==
  \A a, b, c \in Seq(Byte) : Cat(Cat(a, b), c) = Cat(a, Cat(b, c))
  <1>1. ASSUME NEW a \in Seq(Byte), NEW b \in Seq(Byte), NEW c \in Seq(Byte)
        PROVE  Cat(Cat(a, b), c) = Cat(a, Cat(b, c))
    <2>1. a \o b \in Seq(Byte) /\ b \o c \in Seq(Byte)
      BY ConcatProperties
    <2> QED
      BY <2>1, ConcatAssociative DEF Cat
  <1> QED
    BY <1>1, Zenon

LEMMA BytesRegroup ==
  \A a, b, c, d \in Seq(Byte) : /\ Cat(Cat(a, b), Cat(c, d)) = Cat(Cat(Cat(a, b), c), d)
                                /\ Cat(Cat(a, Cat(b, c)), d) = Cat(Cat(Cat(a, b), c), d)
  <1>1. ASSUME NEW a \in Seq(Byte), NEW b \in Seq(Byte), NEW c \in Seq(Byte), NEW d \in Seq(Byte)
        PROVE  /\ Cat(Cat(a, b), Cat(c, d)) = Cat(Cat(Cat(a, b), c), d)
               /\ Cat(Cat(a, Cat(b, c)), d) = Cat(Cat(Cat(a, b), c), d)
    <2>1. a \o b \in Seq(Byte) /\ b \o c \in Seq(Byte)
      BY ConcatProperties
    <2>2. (a \o b) \o (c \o d) = ((a \o b) \o c) \o d
      BY <2>1, ConcatAssociative
    <2>3. (a \o b) \o c = a \o (b \o c)
      BY <2>1, ConcatAssociative
    <2> QED
      BY <2>2, <2>3 DEF Cat
  <1> QED
    BY <1>1, Zenon

LEMMA PortSizes ==
  ASSUME pipe_port \in Ports
  PROVE  /\ Pipe!FrameLen \in Nat \ {0} /\ Pipe!PipeSize \in Nat /\ Pipe!RxPipeSize \in Nat
         /\ Pipe!MaxFrames \in Nat /\ Pipe!MaxRx \in Nat /\ Pipe!MaxBreaks \in Nat
  BY PortsAssumption
  DEF Pipe!PipeAssumption, Pipe!FrameLen, Pipe!PipeSize, Pipe!RxPipeSize, Pipe!MaxFrames,
      Pipe!MaxRx, Pipe!MaxBreaks

LEMMA RangeElems ==
  ASSUME NEW S, NEW s \in Seq(S)
  PROVE  Pipe!Range(s) = Elems(s)
  <1>1. DOMAIN s = 1 .. Len(s)
    OBVIOUS
  <1> QED
    BY <1>1, Zenon DEF Pipe!Range, Elems

LEMMA BytesTyped ==
  ASSUME PipeTyped
  PROVE  Bytes \in Seq(Byte) /\ Elems(Bytes) = (Elems(pipe_wire) \cup Elems(pipe_hand)) \cup Elems(pipe_txPipe)
  <1>1. pipe_wire \in Seq(Byte) /\ pipe_hand \in Seq(Byte) /\ pipe_txPipe \in Seq(Byte)
    BY DEF PipeTyped
  <1>2. pipe_wire \o pipe_hand \in Seq(Byte)
    BY <1>1, ConcatProperties
  <1>3. Bytes \in Seq(Byte)
    BY <1>1, <1>2, ConcatProperties DEF Bytes
  <1>4. Elems(pipe_wire \o pipe_hand) = Elems(pipe_wire) \cup Elems(pipe_hand)
    BY <1>1, CatElems
  <1>5. Elems(Bytes) = Elems(pipe_wire \o pipe_hand) \cup Elems(pipe_txPipe)
    BY <1>1, <1>2, CatElems, Zenon DEF Bytes
  <1> QED
    BY <1>3, <1>4, <1>5, Zenon

(* The frames that were begun are finitely many.                           *)
LEMMA CutFinite ==
  ASSUME PipeTyped, PipeOrder
  PROVE  /\ Cut \subseteq 1 .. pipe_frame /\ IsFiniteSet(Cut) /\ Cardinality(Cut) \in Nat
         /\ pipe_sending => pipe_frame \notin Cut
  <1>1. pipe_frame \in Nat /\ Pipe!MaxFrames \in Nat
    BY PortSizes DEF PipeTyped
  <1>2. \A b \in Elems(Bytes) : b[1] \in 1 .. pipe_frame
    BY <1>1 DEF PipeOrder, Begun
  <1>3. Cut \subseteq 1 .. pipe_frame
    BY <1>2, Zenon DEF Cut
  <1>4. IsFiniteSet(1 .. pipe_frame)
    BY <1>1, FS_Interval
  <1>5. IsFiniteSet(Cut)
    BY <1>3, <1>4, FS_Subset
  <1>6. pipe_sending => pipe_frame \notin Cut
    BY DEF Cut
  <1> QED
    BY <1>3, <1>5, <1>6, FS_CardinalityType

LEMMA PipeInit ==
  ASSUME Pipe!Init
  PROVE  PipeInv
  <1>1. /\ pipe_port \in Ports /\ pipe_frame = 0 /\ pipe_off = 0 /\ pipe_sending = FALSE
        /\ pipe_accepted = {} /\ pipe_rejected = {} /\ pipe_partial = 0 /\ pipe_torn = {}
        /\ pipe_txPipe = <<>> /\ pipe_hand = <<>> /\ pipe_wire = <<>>
        /\ pipe_up \in BOOLEAN /\ pipe_serving \in BOOLEAN /\ pipe_rxServing \in BOOLEAN
        /\ pipe_host = 0 /\ pipe_rxHand = <<>> /\ pipe_rxPipe = <<>> /\ pipe_seen = <<>>
        /\ pipe_breaks = 0
    BY DEF Pipe!Init
  <1>2. /\ Pipe!FrameLen \in Nat \ {0} /\ Pipe!PipeSize \in Nat /\ Pipe!RxPipeSize \in Nat
        /\ Pipe!MaxFrames \in Nat /\ Pipe!MaxRx \in Nat /\ Pipe!MaxBreaks \in Nat
    BY <1>1, PortSizes
  <1>3. Cardinality({}) = 0
    BY FS_EmptySet
  <1>4. PipeTyped
    <2>1. /\ pipe_frame \in 0 .. Pipe!MaxFrames /\ pipe_off \in 0 .. Pipe!FrameLen
          /\ pipe_breaks \in 0 .. Pipe!MaxBreaks /\ pipe_partial \in 0 .. Cardinality(pipe_rejected)
      BY <1>1, <1>2, <1>3
    <2>2. /\ pipe_wire \in Seq(Byte) /\ pipe_hand \in Seq(Byte) /\ pipe_txPipe \in Seq(Byte)
          /\ Len(pipe_txPipe) <= Pipe!PipeSize
      BY <1>1, <1>2
    <2> QED
      BY <1>1, <2>1, <2>2, Zenon DEF PipeTyped
  <1>5. Len(Bytes) = 0
    BY <1>1 DEF Bytes
  <1>6. Elems(Bytes) = {}
    BY <1>5 DEF Elems
  <1>7. PipeOrder
    BY <1>1, <1>5, <1>6 DEF PipeOrder, Rising
  <1>8. Cut = {}
    BY <1>6 DEF Cut
  <1>9. PipeCuts
    BY <1>1, <1>3, <1>8 DEF PipeCuts, CutsInStep
  <1>10. PipeRx
    BY <1>1, <1>2 DEF PipeRx, Received
  <1> QED
    BY <1>4, <1>7, <1>9, <1>10 DEF PipeInv

(* What a step of one side leaves the other as it was.                     *)
LEMMA ReceivingKept ==
  ASSUME PipeRx, UNCHANGED <<pipe_port, pipe_seen, pipe_rxPipe, pipe_rxHand, pipe_host>>
  PROVE  PipeRx'
  BY DEF PipeRx, Received, Pipe!RxPipeSize, Pipe!MaxRx

LEMMA SendingKept ==
  ASSUME PipeOrder, PipeCuts, Bytes' = Bytes,
         UNCHANGED <<pipe_port, pipe_frame, pipe_off, pipe_sending, pipe_accepted, pipe_partial, pipe_torn>>
  PROVE  PipeOrder' /\ PipeCuts'
  <1>1. /\ Elems(Bytes)' = Elems(Bytes) /\ Rising(Bytes)' = Rising(Bytes)
        /\ Pipe!FrameLen' = Pipe!FrameLen /\ Pipe!MaxFrames' = Pipe!MaxFrames
    BY DEF Elems, Rising, Pipe!FrameLen, Pipe!MaxFrames
  <1>2. PipeOrder'
    BY <1>1 DEF PipeOrder, Begun
  <1>3. Cut' = Cut
    BY <1>1 DEF Cut
  <1> QED
    BY <1>2, <1>3 DEF PipeCuts, CutsInStep, Pipe!Counted

LEMMA FrameGiven ==
  ASSUME PipeInv, pipe_port' = pipe_port, Pipe!SerialTxWrite
  PROVE  PipeInv'
  <1>1. /\ pipe_sending = FALSE /\ pipe_frame < Pipe!MaxFrames
        /\ pipe_sending' = TRUE /\ pipe_frame' = pipe_frame + 1 /\ pipe_off' = 0
        /\ UNCHANGED <<pipe_accepted, pipe_rejected, pipe_partial, pipe_up, pipe_breaks, pipe_txPipe,
                       pipe_hand, pipe_wire, pipe_torn, pipe_serving, pipe_rxServing, pipe_host,
                       pipe_rxHand, pipe_rxPipe, pipe_seen>>
    <2>1. pipe_sending \in BOOLEAN
      BY DEF PipeInv, PipeTyped
    <2> QED
      BY <2>1 DEF Pipe!SerialTxWrite, Pipe!linkVars, Pipe!rxVars
  <1>2. /\ Pipe!FrameLen \in Nat \ {0} /\ Pipe!MaxFrames \in Nat /\ pipe_frame \in Nat
        /\ Pipe!FrameLen' = Pipe!FrameLen /\ Pipe!MaxFrames' = Pipe!MaxFrames
        /\ Pipe!PipeSize' = Pipe!PipeSize /\ Pipe!MaxBreaks' = Pipe!MaxBreaks
    BY PortSizes DEF PipeInv, PipeTyped, Pipe!FrameLen, Pipe!MaxFrames, Pipe!PipeSize, Pipe!MaxBreaks
  <1>3. /\ Bytes' = Bytes /\ Elems(Bytes)' = Elems(Bytes) /\ Rising(Bytes)' = Rising(Bytes)
    BY <1>1 DEF Bytes, Elems, Rising
  <1>4. PipeTyped'
    <2>1. /\ pipe_frame' \in 0 .. Pipe!MaxFrames' /\ pipe_frame' # 0
          /\ pipe_off' \in 0 .. Pipe!FrameLen' /\ pipe_off' < Pipe!FrameLen'
          /\ \A f \in 1 .. pipe_frame : f \in 1 .. pipe_frame' /\ f # pipe_frame'
      BY <1>1, <1>2
    <2>2. /\ pipe_accepted \subseteq 1 .. pipe_frame /\ pipe_rejected \subseteq 1 .. pipe_frame
          /\ pipe_torn \subseteq 1 .. pipe_frame
      BY DEF PipeInv, PipeTyped
    <2>3. /\ pipe_accepted' \subseteq 1 .. pipe_frame' /\ pipe_rejected' \subseteq 1 .. pipe_frame'
          /\ pipe_torn' \subseteq 1 .. pipe_frame' /\ pipe_frame' \notin pipe_accepted' \cup pipe_rejected'
      BY <1>1, <2>1, <2>2, Zenon
    <2> QED
      BY <1>1, <1>2, <2>1, <2>3 DEF PipeInv, PipeTyped
  <1>5. \A b \in Elems(Bytes) : /\ b[1] \in 1 .. Pipe!MaxFrames /\ b[2] \in 1 .. Pipe!FrameLen
                                /\ b[1] < pipe_frame + 1 /\ b[1] # pipe_frame + 1
    BY <1>2 DEF PipeInv, PipeOrder, Begun
  <1>6. PipeOrder'
    <2>1. \A i : i \notin 1 .. pipe_off'
      BY <1>1
    <2>2. \A b \in Elems(Bytes)' : Begun(b)'
      BY <1>1, <1>2, <1>3, <1>5, Zenon DEF Begun
    <2>3. \A f \in pipe_accepted' \ pipe_torn' : \A i \in 1 .. Pipe!FrameLen' : <<f, i>> \in Elems(Bytes)'
      BY <1>1, <1>2, <1>3, Zenon DEF PipeInv, PipeOrder
    <2> QED
      BY <1>3, <2>1, <2>2, <2>3, Zenon DEF PipeInv, PipeOrder
  <1>7. PipeCuts'
    <2>1. Cut' = Cut
      BY <1>1, <1>3, <1>5, Zenon DEF Cut
    <2> QED
      BY <1>1, <2>1 DEF PipeInv, PipeCuts, CutsInStep, Pipe!Counted
  <1>8. PipeRx'
    BY <1>1, ReceivingKept DEF PipeInv
  <1> QED
    BY <1>4, <1>6, <1>7, <1>8 DEF PipeInv

(* A full pipe: the frame is given up, and its head counted on a port that *)
(* counts.                                                                 *)
LEMMA FrameGivenUp ==
  ASSUME PipeInv, pipe_sending, Pipe!Rejects, pipe_sending' = FALSE,
         UNCHANGED <<pipe_port, pipe_off, pipe_accepted, pipe_txPipe, pipe_frame, pipe_hand, pipe_wire,
                     pipe_torn, pipe_serving, pipe_up, pipe_breaks, pipe_rxServing, pipe_host,
                     pipe_rxHand, pipe_rxPipe, pipe_seen>>
  PROVE  PipeInv'
  <1>1. /\ pipe_rejected' = pipe_rejected \cup {pipe_frame}
        /\ pipe_partial' = IF Pipe!Counted /\ pipe_off # 0 THEN pipe_partial + 1 ELSE pipe_partial
    BY DEF Pipe!Rejects
  <1>2. /\ Pipe!FrameLen \in Nat \ {0} /\ Pipe!MaxFrames \in Nat /\ pipe_frame \in Nat
        /\ pipe_off \in Nat /\ pipe_frame # 0
        /\ Pipe!FrameLen' = Pipe!FrameLen /\ Pipe!MaxFrames' = Pipe!MaxFrames
        /\ Pipe!PipeSize' = Pipe!PipeSize /\ Pipe!MaxBreaks' = Pipe!MaxBreaks
        /\ Pipe!Counted' = Pipe!Counted
    BY PortSizes
    DEF PipeInv, PipeTyped, Pipe!FrameLen, Pipe!MaxFrames, Pipe!PipeSize, Pipe!MaxBreaks, Pipe!Counted
  <1>3. /\ Bytes' = Bytes /\ Elems(Bytes)' = Elems(Bytes) /\ Rising(Bytes)' = Rising(Bytes)
    BY DEF Bytes, Elems, Rising
  <1>4. PipeTyped'
    <2>1. /\ pipe_rejected \subseteq 1 .. pipe_frame /\ pipe_accepted \cap pipe_rejected = {}
          /\ pipe_frame \notin pipe_accepted \cup pipe_rejected
          /\ pipe_partial \in 0 .. Cardinality(pipe_rejected)
      BY DEF PipeInv, PipeTyped
    <2>2. IsFiniteSet(pipe_rejected) /\ Cardinality(pipe_rejected) \in Nat
      <3>1. IsFiniteSet(1 .. pipe_frame)
        BY <1>2, FS_Interval
      <3> QED
        BY <2>1, <3>1, FS_Subset, FS_CardinalityType
    <2>3. Cardinality(pipe_rejected') = Cardinality(pipe_rejected) + 1
      BY <1>1, <2>1, <2>2, FS_AddElement
    <2>4. pipe_partial' \in 0 .. Cardinality(pipe_rejected')
      BY <1>1, <2>1, <2>2, <2>3
    <2>5. pipe_rejected' \subseteq 1 .. pipe_frame /\ pipe_accepted \cap pipe_rejected' = {}
      BY <1>1, <1>2, <2>1
    <2> QED
      BY <1>2, <2>4, <2>5 DEF PipeInv, PipeTyped
  <1>5. PipeOrder'
    BY <1>2, <1>3, Zenon DEF PipeInv, PipeOrder, Begun
  <1>6. /\ IsFiniteSet(Cut) /\ Cardinality(Cut) \in Nat /\ pipe_frame \notin Cut /\ pipe_partial \in Nat
    <2>1. pipe_partial \in Nat
      BY DEF PipeInv, PipeTyped
    <2> QED
      BY <2>1, CutFinite DEF PipeInv
  <1>7. Cut' = {f \in {b[1] : b \in Elems(Bytes)} \ (pipe_accepted \cup pipe_torn) : TRUE}
    BY <1>3, Zenon DEF Cut
  <1>8. PipeCuts'
    <2> SUFFICES ASSUME Pipe!Counted PROVE CutsInStep'
      BY <1>2, Zenon DEF PipeCuts
    <2>0. CutsInStep
      BY Zenon DEF PipeInv, PipeCuts
    <2>1. CASE pipe_off = 0
      <3>1. \A b \in Elems(Bytes) : b[1] # pipe_frame
        BY <1>2, <2>1 DEF PipeInv, PipeOrder, Begun
      <3>2. Cut' = Cut
        BY <1>7, <3>1, Zenon DEF Cut
      <3> QED
        BY <1>1, <2>0, <2>1, <3>2 DEF CutsInStep
    <2>2. CASE pipe_off # 0 /\ pipe_frame \in pipe_torn
      <3>1. Cut' = Cut
        BY <1>7, <2>2, Zenon DEF Cut
      <3>2. pipe_torn' # {}
        BY <2>2
      <3> QED
        BY <1>1, <1>6, <2>0, <2>2, <3>1, <3>2 DEF CutsInStep
    <2>3. CASE pipe_off # 0 /\ pipe_frame \notin pipe_torn
      <3>1. <<pipe_frame, 1>> \in Elems(Bytes)
        <4>1. 1 \in 1 .. pipe_off
          BY <1>2, <2>3
        <4> QED
          BY <2>3, <4>1 DEF PipeInv, PipeOrder
      <3>2. pipe_frame \in {b[1] : b \in Elems(Bytes)}
        <4>1. <<pipe_frame, 1>>[1] = pipe_frame
          OBVIOUS
        <4> QED
          BY <3>1, <4>1, Zenon
      <3>3. pipe_frame \notin pipe_accepted
        BY DEF PipeInv, PipeTyped
      <3>4. Cut' = Cut \cup {pipe_frame}
        <4>1. \A f : f \in Cut' <=> f \in Cut \/ f = pipe_frame
          BY <1>7, <2>3, <3>2, <3>3, Zenon DEF Cut
        <4> QED
          BY <4>1, Zenon
      <3>5. Cardinality(Cut') = Cardinality(Cut) + 1
        BY <1>6, <3>4, FS_AddElement
      <3>6. pipe_partial' = pipe_partial + 1
        BY <1>1, <2>3
      <3>7. Cardinality(Cut) <= pipe_partial /\ (pipe_torn = {} => Cardinality(Cut) = pipe_partial)
        BY <2>0 DEF CutsInStep
      <3>8. Cardinality(Cut') <= pipe_partial' /\ (pipe_torn = {} => Cardinality(Cut') = pipe_partial')
        BY <1>6, <3>5, <3>6, <3>7
      <3> QED
        BY <3>8 DEF CutsInStep
    <2> QED
      BY <2>1, <2>2, <2>3
  <1>9. PipeRx'
    BY ReceivingKept DEF PipeInv
  <1> QED
    BY <1>4, <1>5, <1>8, <1>9 DEF PipeInv

(* A part of the frame is taken, or the rest of it.                        *)
LEMMA PartTaken ==
  ASSUME PipeInv, pipe_sending, NEW n \in 1 .. Pipe!Room, pipe_off + n <= Pipe!FrameLen,
         pipe_txPipe' = pipe_txPipe \o Pipe!Queued(n), pipe_off' = pipe_off + n,
         pipe_sending' = (pipe_off + n < Pipe!FrameLen),
         pipe_accepted' = (IF pipe_off + n = Pipe!FrameLen THEN pipe_accepted \cup {pipe_frame}
                                                           ELSE pipe_accepted),
         UNCHANGED <<pipe_port, pipe_rejected, pipe_partial, pipe_frame, pipe_hand, pipe_wire,
                     pipe_torn, pipe_serving, pipe_up, pipe_breaks, pipe_rxServing, pipe_host,
                     pipe_rxHand, pipe_rxPipe, pipe_seen>>
  PROVE  PipeInv'
  <1> DEFINE q == Pipe!Queued(n)
  <1>1. /\ Pipe!FrameLen \in Nat \ {0} /\ Pipe!MaxFrames \in Nat /\ Pipe!PipeSize \in Nat
        /\ pipe_frame \in 1 .. Pipe!MaxFrames /\ pipe_off \in Nat /\ pipe_off < Pipe!FrameLen
        /\ Pipe!FrameLen' = Pipe!FrameLen /\ Pipe!MaxFrames' = Pipe!MaxFrames
        /\ Pipe!PipeSize' = Pipe!PipeSize /\ Pipe!MaxBreaks' = Pipe!MaxBreaks
    BY PortSizes DEF PipeInv, PipeTyped, Pipe!FrameLen, Pipe!MaxFrames, Pipe!PipeSize, Pipe!MaxBreaks
  <1>2. /\ pipe_txPipe \in Seq(Byte) /\ Len(pipe_txPipe) \in Nat /\ pipe_wire \in Seq(Byte)
        /\ pipe_hand \in Seq(Byte) /\ Bytes \in Seq(Byte)
        /\ n \in Nat \ {0} /\ Len(pipe_txPipe) + n <= Pipe!PipeSize
    <2>1. pipe_txPipe \in Seq(Byte) /\ pipe_wire \in Seq(Byte) /\ pipe_hand \in Seq(Byte)
      BY DEF PipeInv, PipeTyped
    <2>2. Bytes \in Seq(Byte)
      BY BytesTyped DEF PipeInv
    <2>3. Len(pipe_txPipe) \in Nat
      BY <2>1
    <2> QED
      BY <1>1, <2>1, <2>2, <2>3 DEF Pipe!Room
  <1>3. q = [i \in 1 .. n |-> <<pipe_frame, pipe_off + i>>]
    BY DEF Pipe!Queued
  <1>4. /\ q \in Seq(Byte) /\ Len(q) = n
        /\ \A i \in 1 .. n : q[i] = <<pipe_frame, pipe_off + i>>
    <2>1. \A i \in 1 .. n : <<pipe_frame, pipe_off + i>> \in Byte
      BY <1>1, <1>2 DEF Byte
    <2> QED
      BY <1>2, <1>3, <2>1
  <1> HIDE DEF q
  <1>0. \/ /\ pipe_off + n < Pipe!FrameLen /\ pipe_sending' /\ pipe_accepted' = pipe_accepted
        \/ /\ pipe_off + n = Pipe!FrameLen /\ ~pipe_sending'
           /\ pipe_accepted' = pipe_accepted \cup {pipe_frame}
    <2>1. /\ pipe_off + n < Pipe!FrameLen \/ pipe_off + n = Pipe!FrameLen
          /\ pipe_off + n = Pipe!FrameLen => ~(pipe_off + n < Pipe!FrameLen)
          /\ pipe_off + n < Pipe!FrameLen => pipe_off + n # Pipe!FrameLen
      BY <1>1, <1>2
    <2> QED
      BY <2>1, Zenon
  <1>5. Bytes' = Bytes \o q
    <2>1. Bytes' = (pipe_wire \o pipe_hand) \o (pipe_txPipe \o q)
      BY DEF Bytes, q
    <2>2. (pipe_wire \o pipe_hand) \o (pipe_txPipe \o q) = ((pipe_wire \o pipe_hand) \o pipe_txPipe) \o q
      <3>1. Cat(Cat(pipe_wire, pipe_hand), Cat(pipe_txPipe, q)) = Cat(Cat(Cat(pipe_wire, pipe_hand), pipe_txPipe), q)
        BY <1>2, <1>4, BytesRegroup, SMT
      <3> QED
        BY <3>1 DEF Cat
    <2> QED
      BY <2>1, <2>2, Zenon DEF Bytes
  <1>6. Elems(Bytes)' = Elems(Bytes) \cup Elems(q)
    <2>1. Elems(Bytes)' = Elems(Bytes')
      BY DEF Elems
    <2> QED
      BY <1>2, <1>4, <1>5, <2>1, CatElems
  <1>7. /\ \A b \in Elems(q) : \E i \in 1 .. n : b = <<pipe_frame, pipe_off + i>>
        /\ \A i \in 1 .. n : <<pipe_frame, pipe_off + i>> \in Elems(q)
    BY <1>4 DEF Elems
  <1>8. \A b \in Elems(q) : /\ b[1] = pipe_frame /\ b[2] \in Nat
                            /\ pipe_off < b[2] /\ b[2] <= pipe_off + n
    BY <1>1, <1>2, <1>7
  <1>9. \A b \in Elems(Bytes) : /\ b[1] \in 1 .. Pipe!MaxFrames /\ b[2] \in 1 .. Pipe!FrameLen
                                /\ b[1] < pipe_frame \/ (b[1] = pipe_frame /\ b[2] <= pipe_off)
    BY DEF PipeInv, PipeOrder, Begun
  <1>10. PipeTyped'
    <2>1. pipe_off' \in 0 .. Pipe!FrameLen' /\ pipe_frame \in 1 .. pipe_frame
      BY <1>1, <1>2
    <2>2. pipe_txPipe' \in Seq(Byte) /\ Len(pipe_txPipe') <= Pipe!PipeSize'
      BY <1>1, <1>2, <1>4, ConcatProperties DEF q
    <2>3. /\ pipe_accepted \subseteq 1 .. pipe_frame /\ pipe_accepted \cap pipe_rejected = {}
          /\ pipe_frame \notin pipe_accepted \cup pipe_rejected
      BY DEF PipeInv, PipeTyped
    <2>4. /\ pipe_accepted' \subseteq 1 .. pipe_frame' /\ pipe_accepted' \cap pipe_rejected' = {}
          /\ pipe_sending' => /\ pipe_frame' # 0 /\ pipe_off' < Pipe!FrameLen'
                              /\ pipe_frame' \notin pipe_accepted' \cup pipe_rejected'
      <3>1. pipe_frame # 0 /\ (pipe_off + n < Pipe!FrameLen => pipe_off' < Pipe!FrameLen')
        BY <1>1
      <3> QED
        BY <1>0, <2>1, <2>3, <3>1, Zenon
    <2> QED
      BY <1>1, <2>1, <2>2, <2>4 DEF PipeInv, PipeTyped
  <1>11. PipeOrder'
    <2>1. Rising(q)
      <3> SUFFICES ASSUME NEW i \in 1 .. n, NEW j \in 1 .. n, i < j
                   PROVE  Earlier(q[i], q[j])
        BY <1>4 DEF Rising
      <3> QED
        BY <1>1, <1>4 DEF Earlier
    <2>2. AllEarlier(Bytes, q)
      <3> SUFFICES ASSUME NEW a \in Elems(Bytes), NEW b \in Elems(q) PROVE Earlier(a, b)
        BY DEF AllEarlier
      <3> QED
        BY <1>1, <1>8, <1>9 DEF Earlier
    <2>3. Rising(Bytes')
      BY <1>2, <1>4, <1>5, <2>1, <2>2, CatRising DEF PipeInv, PipeOrder
    <2>4. Rising(Bytes)'
      BY <2>3 DEF Rising
    <2>5. \A b \in Elems(Bytes)' : Begun(b)'
      <3> SUFFICES ASSUME NEW b \in Elems(Bytes) \cup Elems(q)
                   PROVE  /\ b[1] \in 1 .. Pipe!MaxFrames /\ b[2] \in 1 .. Pipe!FrameLen
                          /\ b[1] < pipe_frame \/ (b[1] = pipe_frame /\ b[2] <= pipe_off')
        BY <1>1, <1>6, Zenon DEF Begun
      <3>1. CASE b \in Elems(Bytes)
        BY <1>1, <1>2, <1>9, <3>1
      <3>2. CASE b \in Elems(q)
        BY <1>1, <1>2, <1>8, <3>2
      <3> QED
        BY <3>1, <3>2
    <2>6. pipe_frame \notin pipe_torn => \A i \in 1 .. pipe_off' : <<pipe_frame, i>> \in Elems(Bytes)'
      <3> SUFFICES ASSUME pipe_frame \notin pipe_torn, NEW i \in 1 .. pipe_off'
                   PROVE  <<pipe_frame, i>> \in Elems(Bytes) \cup Elems(q)
        BY <1>6
      <3>1. CASE i <= pipe_off
        <4>1. i \in 1 .. pipe_off
          BY <1>1, <1>2, <3>1
        <4> QED
          BY <4>1 DEF PipeInv, PipeOrder
      <3>2. CASE i > pipe_off
        <4>1. i - pipe_off \in 1 .. n /\ pipe_off + (i - pipe_off) = i
          BY <1>1, <1>2, <3>2
        <4>2. <<pipe_frame, pipe_off + (i - pipe_off)>> \in Elems(q)
          BY <1>7, <4>1
        <4> QED
          BY <4>1, <4>2
      <3> QED
        BY <1>1, <1>2, <3>1, <3>2
    <2>7. \A f \in pipe_accepted' \ pipe_torn' : \A i \in 1 .. Pipe!FrameLen' : <<f, i>> \in Elems(Bytes)'
      <3> SUFFICES ASSUME NEW f \in pipe_accepted' \ pipe_torn, NEW i \in 1 .. Pipe!FrameLen
                   PROVE  <<f, i>> \in Elems(Bytes)'
        BY <1>1
      <3>1. CASE f \in pipe_accepted
        BY <1>6, <3>1, Zenon DEF PipeInv, PipeOrder
      <3>2. CASE f \notin pipe_accepted
        <4>1. pipe_off' = Pipe!FrameLen /\ f = pipe_frame
          BY <3>2
        <4> QED
          BY <2>6, <4>1
      <3> QED
        BY <3>1, <3>2
    <2> QED
      BY <2>4, <2>5, <2>6, <2>7, Zenon DEF PipeOrder
  <1>12. PipeCuts'
    <2>1. {b[1] : b \in Elems(Bytes)'} \subseteq {b[1] : b \in Elems(Bytes)} \cup {pipe_frame}
      BY <1>6, <1>8, Zenon
    <2>2. {b[1] : b \in Elems(Bytes)} \subseteq {b[1] : b \in Elems(Bytes)'}
      BY <1>6, Zenon
    <2>3. \/ pipe_sending' /\ pipe_accepted' = pipe_accepted
          \/ ~pipe_sending' /\ pipe_accepted' = pipe_accepted \cup {pipe_frame}
      BY <1>0, Zenon
    <2>4. \A f : f \in Cut' <=> f \in Cut
      BY <2>1, <2>2, <2>3, Zenon DEF Cut
    <2>5. Cut' = Cut
      BY <2>4, Zenon
    <2> QED
      BY <2>5 DEF PipeInv, PipeCuts, CutsInStep, Pipe!Counted
  <1>13. PipeRx'
    BY ReceivingKept DEF PipeInv
  <1> QED
    BY <1>10, <1>11, <1>12, <1>13 DEF PipeInv

(* The transmit task takes bytes from the pipe or sends bytes of its hand. *)
LEMMA BytesMoved ==
  ASSUME PipeInv,
         \/ Pipe!Dequeue
         \/ Pipe!WritePacket,
         pipe_port' = pipe_port
  PROVE  PipeInv'
  <1>1. /\ UNCHANGED <<pipe_frame, pipe_off, pipe_sending, pipe_accepted, pipe_rejected, pipe_partial,
                       pipe_torn, pipe_up, pipe_serving, pipe_breaks, pipe_rxServing, pipe_host,
                       pipe_rxHand, pipe_rxPipe, pipe_seen>>
    BY DEF Pipe!Dequeue, Pipe!WritePacket, Pipe!txVars, Pipe!rxVars
  <1>2. /\ pipe_txPipe \in Seq(Byte) /\ pipe_wire \in Seq(Byte) /\ pipe_hand \in Seq(Byte)
        /\ Len(pipe_txPipe) <= Pipe!PipeSize /\ Pipe!PipeSize \in Nat /\ Pipe!PipeSize' = Pipe!PipeSize
    BY PortSizes DEF PipeInv, PipeTyped, Pipe!PipeSize
  <1>3. /\ pipe_txPipe' \in Seq(Byte) /\ pipe_wire' \in Seq(Byte) /\ pipe_hand' \in Seq(Byte)
        /\ Len(pipe_txPipe') <= Pipe!PipeSize /\ Bytes' = Bytes
    <2>1. CASE Pipe!Dequeue
      <3>1. PICK n \in 1 .. Len(pipe_txPipe) :
              /\ pipe_hand' = SubSeq(pipe_txPipe, 1, n)
              /\ pipe_txPipe' = SubSeq(pipe_txPipe, n + 1, Len(pipe_txPipe))
        BY <2>1 DEF Pipe!Dequeue
      <3>2. pipe_hand = <<>> /\ pipe_wire' = pipe_wire
        BY <2>1 DEF Pipe!Dequeue
      <3>3. n \in 0 .. Len(pipe_txPipe) /\ Len(pipe_txPipe) \in Nat
        BY <1>2
      <3>4. /\ pipe_hand' \in Seq(Byte) /\ pipe_txPipe' \in Seq(Byte)
            /\ Len(pipe_txPipe') = Len(pipe_txPipe) - n
            /\ pipe_hand' \o pipe_txPipe' = pipe_txPipe
        BY <1>2, <3>1, <3>3, Taken
      <3>5. Bytes' = (pipe_wire \o pipe_hand') \o pipe_txPipe'
        BY <3>2 DEF Bytes
      <3>6. (pipe_wire \o pipe_hand') \o pipe_txPipe' = pipe_wire \o (pipe_hand' \o pipe_txPipe')
        <4>1. Cat(Cat(pipe_wire, pipe_hand'), pipe_txPipe') = Cat(pipe_wire, Cat(pipe_hand', pipe_txPipe'))
          BY <1>2, <3>4, BytesTogether, SMT
        <4> QED
          BY <4>1 DEF Cat
      <3>7. pipe_wire \o pipe_hand = pipe_wire
        BY <1>2, <3>2, ConcatEmptySeq
      <3>8. Bytes' = Bytes
        BY <3>4, <3>5, <3>6, <3>7, Zenon DEF Bytes
      <3> QED
        BY <1>2, <3>2, <3>3, <3>4, <3>8
    <2>2. CASE Pipe!WritePacket
      <3> DEFINE n == Pipe!Chunk
      <3>1. /\ pipe_wire' = pipe_wire \o SubSeq(pipe_hand, 1, n)
            /\ pipe_hand' = SubSeq(pipe_hand, n + 1, Len(pipe_hand))
            /\ pipe_txPipe' = pipe_txPipe
        BY <2>2 DEF Pipe!WritePacket
      <3>2. n \in 0 .. Len(pipe_hand)
        <4>1. Pipe!PacketSize \in Nat
          BY PortsAssumption DEF PipeInv, PipeTyped, Pipe!PipeAssumption, Pipe!PacketSize
        <4>2. Len(pipe_hand) \in Nat
          BY <1>2
        <4>3. (n = Pipe!PacketSize /\ Len(pipe_hand) > Pipe!PacketSize) \/ n = Len(pipe_hand)
          BY DEF Pipe!Chunk
        <4> QED
          BY <4>1, <4>2, <4>3
      <3> HIDE DEF n
      <3> DEFINE sent == SubSeq(pipe_hand, 1, n)
      <3>3. /\ sent \in Seq(Byte) /\ pipe_hand' \in Seq(Byte)
            /\ sent \o pipe_hand' = pipe_hand
        BY <1>2, <3>1, <3>2, Taken
      <3>4. pipe_wire' = pipe_wire \o sent
        BY <3>1
      <3> HIDE DEF sent
      <3>5. pipe_wire' \in Seq(Byte)
        BY <1>2, <3>3, <3>4, ConcatProperties
      <3>6. (pipe_wire \o sent) \o pipe_hand' = pipe_wire \o (sent \o pipe_hand')
        <4>1. Cat(Cat(pipe_wire, sent), pipe_hand') = Cat(pipe_wire, Cat(sent, pipe_hand'))
          BY <1>2, <3>3, BytesTogether, SMT
        <4> QED
          BY <4>1 DEF Cat
      <3>7. Bytes' = Bytes
        BY <3>1, <3>3, <3>4, <3>6, Zenon DEF Bytes
      <3> QED
        BY <1>2, <3>1, <3>3, <3>5, <3>7
    <2> QED
      BY <2>1, <2>2
  <1>4. PipeTyped'
    <2>1. /\ Pipe!FrameLen' = Pipe!FrameLen /\ Pipe!MaxFrames' = Pipe!MaxFrames
          /\ Pipe!MaxBreaks' = Pipe!MaxBreaks
      BY DEF Pipe!FrameLen, Pipe!MaxFrames, Pipe!MaxBreaks
    <2> QED
      BY <1>1, <1>2, <1>3, <2>1 DEF PipeInv, PipeTyped
  <1>5. PipeOrder' /\ PipeCuts'
    BY <1>1, <1>3, SendingKept DEF PipeInv
  <1>6. PipeRx'
    BY <1>1, ReceivingKept DEF PipeInv
  <1> QED
    BY <1>4, <1>5, <1>6 DEF PipeInv

(* A transmission that fails tears the frames whose bytes it loses.        *)
LEMMA BytesLost ==
  ASSUME PipeInv, Pipe!WriteFails, pipe_port' = pipe_port
  PROVE  PipeInv'
  <1>1. /\ UNCHANGED <<pipe_frame, pipe_off, pipe_sending, pipe_accepted, pipe_rejected, pipe_partial,
                       pipe_up, pipe_wire, pipe_txPipe, pipe_rxServing, pipe_host,
                       pipe_rxHand, pipe_rxPipe, pipe_seen>>
        /\ pipe_hand' = <<>> /\ pipe_hand # <<>>
        /\ pipe_torn' = pipe_torn \cup Pipe!FramesOf(pipe_hand)
        /\ pipe_serving' = (~Pipe!Usb)
    BY DEF Pipe!WriteFails, Pipe!txVars, Pipe!rxVars
  <1>2. /\ pipe_txPipe \in Seq(Byte) /\ pipe_wire \in Seq(Byte) /\ pipe_hand \in Seq(Byte)
        /\ pipe_hand' \in Seq(Byte)
    BY <1>1 DEF PipeInv, PipeTyped
  <1>3. pipe_torn' = pipe_torn \cup {b[1] : b \in Elems(pipe_hand)}
    <2>1. Pipe!Range(pipe_hand) = Elems(pipe_hand)
      BY <1>2, RangeElems
    <2> QED
      BY <1>1, <2>1, Zenon DEF Pipe!FramesOf
  <1>4. /\ Pipe!FrameLen' = Pipe!FrameLen /\ Pipe!MaxFrames' = Pipe!MaxFrames
        /\ Pipe!PipeSize' = Pipe!PipeSize /\ Pipe!MaxBreaks' = Pipe!MaxBreaks
        /\ Pipe!MaxBreaks \in Nat /\ pipe_frame \in Nat /\ Pipe!MaxFrames \in Nat
    BY PortSizes DEF PipeInv, PipeTyped, Pipe!FrameLen, Pipe!MaxFrames, Pipe!PipeSize, Pipe!MaxBreaks
  <1>5. /\ Elems(Bytes) = (Elems(pipe_wire) \cup Elems(pipe_hand)) \cup Elems(pipe_txPipe)
        /\ Elems(Bytes)' = Elems(pipe_wire) \cup Elems(pipe_txPipe)
        /\ Bytes' = pipe_wire \o pipe_txPipe
    <2>1. Elems(Bytes) = (Elems(pipe_wire) \cup Elems(pipe_hand)) \cup Elems(pipe_txPipe)
      BY BytesTyped DEF PipeInv
    <2>2. pipe_wire \o <<>> = pipe_wire
      BY <1>2, ConcatEmptySeq
    <2>3. Bytes' = pipe_wire \o pipe_txPipe
      BY <1>1, <2>2, Zenon DEF Bytes
    <2>4. Elems(Bytes') = Elems(pipe_wire) \cup Elems(pipe_txPipe)
      BY <1>2, <2>3, CatElems
    <2>5. Elems(Bytes)' = Elems(Bytes')
      BY DEF Elems
    <2> QED
      BY <2>1, <2>3, <2>4, <2>5, Zenon
  <1>6. \A b \in Elems(Bytes) : b[1] \in 1 .. pipe_frame
    BY <1>4 DEF PipeInv, PipeOrder, Begun
  <1>7. PipeTyped'
    <2>1. pipe_torn' \subseteq 1 .. pipe_frame
      <3>1. pipe_torn \subseteq 1 .. pipe_frame
        BY DEF PipeInv, PipeTyped
      <3> QED
        BY <1>3, <1>5, <1>6, <3>1, Zenon
    <2>2. pipe_breaks' \in 0 .. Pipe!MaxBreaks
      <3>1. pipe_breaks \in 0 .. Pipe!MaxBreaks
        BY DEF PipeInv, PipeTyped
      <3>2. pipe_breaks' = pipe_breaks \/ (pipe_breaks < Pipe!MaxBreaks /\ pipe_breaks' = pipe_breaks + 1)
        <4>1. CASE Pipe!Usb
          BY <4>1 DEF Pipe!WriteFails
        <4>2. CASE ~Pipe!Usb
          BY <4>2 DEF Pipe!WriteFails
        <4> QED
          BY <4>1, <4>2
      <3> QED
        BY <1>4, <3>1, <3>2
    <2>3. pipe_serving' \in BOOLEAN
      BY <1>1, Zenon
    <2>4. pipe_up' \in BOOLEAN /\ pipe_rxServing' \in BOOLEAN
      BY <1>1 DEF PipeInv, PipeTyped
    <2>5. {pipe_up', pipe_serving', pipe_rxServing'} \subseteq BOOLEAN
      BY <2>3, <2>4, Zenon
    <2> HIDE <1>3, <1>5, <1>6, <2>3, <2>4
    <2> QED
      BY <1>1, <1>2, <1>4, <2>1, <2>2, <2>5, Zenon DEF PipeInv, PipeTyped
  <1>8. PipeOrder'
    <2>1. Rising(Bytes')
      <3>1. pipe_wire \o pipe_hand \in Seq(Byte)
        BY <1>2, ConcatProperties
      <3>2. Rising(pipe_wire \o pipe_hand) /\ Rising(pipe_txPipe) /\ AllEarlier(pipe_wire \o pipe_hand, pipe_txPipe)
        BY <1>2, <3>1, CatRising DEF PipeInv, PipeOrder, Bytes
      <3>3. Rising(pipe_wire)
        BY <1>2, <3>2, CatRising
      <3>4. Elems(pipe_wire \o pipe_hand) = Elems(pipe_wire) \cup Elems(pipe_hand)
        BY <1>2, CatElems
      <3>5. AllEarlier(pipe_wire, pipe_txPipe)
        BY <3>2, <3>4, Zenon DEF AllEarlier
      <3> QED
        BY <1>2, <1>5, <3>2, <3>3, <3>5, CatRising
    <2>2. Rising(Bytes)'
      BY <2>1 DEF Rising
    <2>3. \A b \in Elems(Bytes)' : Begun(b)'
      BY <1>1, <1>4, <1>5, Zenon DEF PipeInv, PipeOrder, Begun
    <2>4. \A f, i : f \notin pipe_torn' /\ <<f, i>> \in Elems(Bytes) => <<f, i>> \in Elems(Bytes)'
      <3> SUFFICES ASSUME NEW f, NEW i, f \notin pipe_torn', <<f, i>> \in Elems(pipe_hand) PROVE FALSE
        BY <1>5, Zenon
      <3>1. <<f, i>>[1] = f
        OBVIOUS
      <3> QED
        BY <1>3, <3>1, Zenon
    <2>5. \A f : f \notin pipe_torn' => f \notin pipe_torn
      BY <1>3, Zenon
    <2>6. \A f \in pipe_accepted' \ pipe_torn' : \A i \in 1 .. Pipe!FrameLen' : <<f, i>> \in Elems(Bytes)'
      BY <1>1, <1>4, <2>4, <2>5, Zenon DEF PipeInv, PipeOrder
    <2>7. pipe_sending' /\ pipe_frame' \notin pipe_torn' =>
            \A i \in 1 .. pipe_off' : <<pipe_frame', i>> \in Elems(Bytes)'
      BY <1>1, <2>4, <2>5, Zenon DEF PipeInv, PipeOrder
    <2> QED
      BY <2>2, <2>3, <2>6, <2>7, Zenon DEF PipeOrder
  <1>9. PipeCuts'
    <2>1. Cut' \subseteq Cut
      BY <1>1, <1>3, <1>5, Zenon DEF Cut
    <2>2. IsFiniteSet(Cut) /\ Cardinality(Cut) \in Nat
      BY CutFinite DEF PipeInv
    <2>3. Cardinality(Cut') <= Cardinality(Cut) /\ Cardinality(Cut') \in Nat
      BY <2>1, <2>2, FS_Subset, FS_CardinalityType
    <2>4. pipe_torn' # {}
      <3>1. Len(pipe_hand) \in Nat \ {0}
        BY <1>1, <1>2
      <3>2. 1 \in 1 .. Len(pipe_hand)
        BY <3>1
      <3> QED
        BY <1>3, <3>2, Zenon DEF Elems
    <2> SUFFICES ASSUME Pipe!Counted PROVE CutsInStep'
      BY <1>1, Zenon DEF PipeCuts, Pipe!Counted
    <2>5. Cardinality(Cut) <= pipe_partial /\ pipe_partial \in Nat
      BY DEF PipeInv, PipeCuts, CutsInStep, PipeTyped
    <2>6. Cardinality(Cut') <= pipe_partial'
      BY <1>1, <2>2, <2>3, <2>5
    <2> QED
      BY <2>4, <2>6, Zenon DEF CutsInStep
  <1>10. PipeRx'
    BY <1>1, ReceivingKept DEF PipeInv
  <1> QED
    BY <1>7, <1>8, <1>9, <1>10 DEF PipeInv

(* The host opens and closes the port and the tasks wait for it.           *)
LEMMA ConnectionMoves ==
  ASSUME PipeInv, pipe_port' = pipe_port,
         Pipe!WaitTxConnection \/ Pipe!HostCloses \/ Pipe!HostOpens \/ Pipe!WaitRxConnection
  PROVE  PipeInv'
  <1>1. /\ UNCHANGED <<pipe_frame, pipe_off, pipe_sending, pipe_accepted, pipe_rejected, pipe_partial,
                       pipe_wire, pipe_hand, pipe_txPipe, pipe_torn, pipe_host, pipe_rxHand,
                       pipe_rxPipe, pipe_seen>>
    BY DEF Pipe!WaitTxConnection, Pipe!HostCloses, Pipe!HostOpens, Pipe!WaitRxConnection,
           Pipe!txVars, Pipe!rxVars, Pipe!linkVars
  <1>2. /\ Pipe!FrameLen' = Pipe!FrameLen /\ Pipe!MaxFrames' = Pipe!MaxFrames
        /\ Pipe!PipeSize' = Pipe!PipeSize /\ Pipe!MaxBreaks' = Pipe!MaxBreaks
        /\ Pipe!MaxBreaks \in Nat
    BY PortSizes DEF PipeInv, PipeTyped, Pipe!FrameLen, Pipe!MaxFrames, Pipe!PipeSize, Pipe!MaxBreaks
  <1>3. /\ pipe_up' \in {TRUE, FALSE, pipe_up} /\ pipe_serving' \in {TRUE, pipe_serving}
        /\ pipe_rxServing' \in {TRUE, pipe_rxServing}
        /\ pipe_breaks' = pipe_breaks \/ (pipe_breaks < Pipe!MaxBreaks /\ pipe_breaks' = pipe_breaks + 1)
    BY DEF Pipe!WaitTxConnection, Pipe!HostCloses, Pipe!HostOpens, Pipe!WaitRxConnection,
           Pipe!txVars, Pipe!rxVars, Pipe!linkVars
  <1>4. PipeTyped'
    <2>1. pipe_breaks' \in 0 .. Pipe!MaxBreaks
      <3>1. pipe_breaks \in 0 .. Pipe!MaxBreaks
        BY DEF PipeInv, PipeTyped
      <3> QED
        BY <1>2, <1>3, <3>1
    <2>2. {pipe_up', pipe_serving', pipe_rxServing'} \subseteq BOOLEAN
      BY <1>3, Zenon DEF PipeInv, PipeTyped
    <2> HIDE <1>3
    <2> QED
      BY <1>1, <1>2, <2>1, <2>2, Zenon DEF PipeInv, PipeTyped
  <1>5. Bytes' = Bytes
    BY <1>1, Zenon DEF Bytes
  <1>6. PipeOrder' /\ PipeCuts'
    BY <1>1, <1>5, SendingKept DEF PipeInv
  <1>7. PipeRx'
    BY <1>1, ReceivingKept DEF PipeInv
  <1> QED
    BY <1>4, <1>6, <1>7 DEF PipeInv

LEMMA NumbersTogether ==
  \A a, b, c \in Seq(Nat) : Cat(Cat(a, b), c) = Cat(a, Cat(b, c))
  <1>1. ASSUME NEW a \in Seq(Nat), NEW b \in Seq(Nat), NEW c \in Seq(Nat)
        PROVE  Cat(Cat(a, b), c) = Cat(a, Cat(b, c))
    <2>1. a \o b \in Seq(Nat) /\ b \o c \in Seq(Nat)
      BY ConcatProperties
    <2> QED
      BY <2>1, ConcatAssociative DEF Cat
  <1> QED
    BY <1>1, Zenon

(* The receiving side moves bytes from the host to the flight loop.        *)
LEMMA Receives ==
  ASSUME PipeTyped, PipeRx, pipe_port' = pipe_port,
         Pipe!ReadPacket \/ Pipe!ProcessBytes \/ Pipe!SerialRxRead
  PROVE  PipeRx'
  <1>1. /\ Pipe!RxPipeSize \in Nat /\ Pipe!MaxRx \in Nat
        /\ Pipe!RxPipeSize' = Pipe!RxPipeSize /\ Pipe!MaxRx' = Pipe!MaxRx
    BY PortSizes DEF PipeTyped, Pipe!RxPipeSize, Pipe!MaxRx
  <1>2. /\ pipe_seen \in Seq(Nat) /\ pipe_rxPipe \in Seq(Nat) /\ pipe_rxHand \in Seq(Nat)
        /\ Len(pipe_rxPipe) \in Nat /\ Len(pipe_rxPipe) <= Pipe!RxPipeSize /\ Len(pipe_rxHand) \in Nat
        /\ pipe_seen \o pipe_rxPipe \in Seq(Nat)
    <2>1. /\ pipe_seen \in Seq(Nat) /\ pipe_rxPipe \in Seq(Nat) /\ pipe_rxHand \in Seq(Nat)
          /\ Len(pipe_rxPipe) <= Pipe!RxPipeSize
      BY DEF PipeRx
    <2> QED
      BY <2>1, ConcatProperties
  <1>3. /\ pipe_host \in 0 .. Pipe!MaxRx /\ Len(Received) = pipe_host
        /\ \A i \in 1 .. pipe_host : Received[i] = i
    BY DEF PipeRx
  <1>4. CASE Pipe!ReadPacket
    <2>1. UNCHANGED <<pipe_rxPipe, pipe_seen>> /\ pipe_rxHand = <<>>
      BY <1>4 DEF Pipe!ReadPacket
    <2>2. CASE UNCHANGED <<pipe_rxHand, pipe_host>>
      BY <2>1, <2>2, ReceivingKept
    <2>3. CASE \E n \in 1 .. Pipe!MaxRx - pipe_host :
                 /\ pipe_rxHand' = [i \in 1 .. n |-> pipe_host + i]
                 /\ pipe_host' = pipe_host + n
      <3>1. PICK n \in 1 .. Pipe!MaxRx - pipe_host :
                 /\ pipe_rxHand' = [i \in 1 .. n |-> pipe_host + i]
                 /\ pipe_host' = pipe_host + n
        BY <2>3
      <3>2. /\ pipe_rxHand' \in Seq(Nat) /\ Len(pipe_rxHand') = n
            /\ \A i \in 1 .. n : pipe_rxHand'[i] = pipe_host + i
            /\ pipe_host' \in 0 .. Pipe!MaxRx /\ n \in Nat /\ pipe_host \in Nat
        BY <1>1, <1>3, <3>1
      <3>3. Received = pipe_seen \o pipe_rxPipe
        BY <1>2, <2>1, ConcatEmptySeq DEF Received
      <3>4. Received' = Received \o pipe_rxHand'
        BY <2>1, <3>3, Zenon DEF Received
      <3>5. /\ Len(Received') = pipe_host + n
            /\ \A i \in 1 .. pipe_host + n : Received'[i] = IF i <= pipe_host THEN Received[i]
                                                                              ELSE pipe_rxHand'[i - pipe_host]
        BY <1>2, <1>3, <3>2, <3>3, <3>4, ConcatProperties
      <3>6. \A i \in 1 .. pipe_host + n : Received'[i] = i
        <4> TAKE i \in 1 .. pipe_host + n
        <4>1. CASE i <= pipe_host
          BY <1>3, <3>2, <3>5, <4>1
        <4>2. CASE i > pipe_host
          <5>1. i - pipe_host \in 1 .. n /\ pipe_host + (i - pipe_host) = i
            BY <3>2, <4>2
          <5>2. Received'[i] = pipe_rxHand'[i - pipe_host]
            BY <3>2, <3>5, <4>2
          <5> QED
            BY <3>2, <5>1, <5>2
        <4> QED
          BY <3>2, <4>1, <4>2
      <3>7. /\ Len(Received') = pipe_host' /\ \A i \in 1 .. pipe_host' : Received'[i] = i
        BY <3>1, <3>5, <3>6, Zenon
      <3> QED
        BY <1>1, <1>2, <2>1, <3>2, <3>7, Zenon DEF PipeRx
    <2> QED
      BY <1>4, <2>2, <2>3 DEF Pipe!ReadPacket
  <1>5. ASSUME Received' = Received, pipe_host' = pipe_host,
               pipe_seen' \in Seq(Nat), pipe_rxPipe' \in Seq(Nat), pipe_rxHand' \in Seq(Nat),
               Len(pipe_rxPipe') <= Pipe!RxPipeSize
        PROVE  PipeRx'
    BY <1>1, <1>3, <1>5, Zenon DEF PipeRx
  <1>6. CASE Pipe!ProcessBytes
    <2>1. PICK n \in 1 .. Pipe!RxPipeSize - Len(pipe_rxPipe) :
            /\ n <= Len(pipe_rxHand)
            /\ pipe_rxPipe' = pipe_rxPipe \o SubSeq(pipe_rxHand, 1, n)
            /\ pipe_rxHand' = SubSeq(pipe_rxHand, n + 1, Len(pipe_rxHand))
      BY <1>6 DEF Pipe!ProcessBytes
    <2>2. pipe_host' = pipe_host /\ pipe_seen' = pipe_seen
      BY <1>6 DEF Pipe!ProcessBytes
    <2> DEFINE sent == SubSeq(pipe_rxHand, 1, n)
    <2>3. n \in 0 .. Len(pipe_rxHand) /\ Len(pipe_rxPipe) + n <= Pipe!RxPipeSize
      BY <1>1, <1>2, <2>1
    <2>4. /\ sent \in Seq(Nat) /\ Len(sent) = n /\ pipe_rxHand' \in Seq(Nat)
          /\ sent \o pipe_rxHand' = pipe_rxHand
      BY <1>2, <2>1, <2>3, Taken
    <2>5. pipe_rxPipe' = pipe_rxPipe \o sent
      BY <2>1
    <2> HIDE DEF sent
    <2>6. pipe_rxPipe' \in Seq(Nat) /\ Len(pipe_rxPipe') <= Pipe!RxPipeSize
      BY <1>2, <2>3, <2>4, <2>5, ConcatProperties
    <2>7. Received' = Received
      <3>1. Cat(Cat(pipe_seen, pipe_rxPipe), sent) = Cat(pipe_seen, Cat(pipe_rxPipe, sent))
        BY <1>2, <2>4, NumbersTogether, SMT
      <3>2. Cat(Cat(Cat(pipe_seen, pipe_rxPipe), sent), pipe_rxHand')
              = Cat(Cat(pipe_seen, pipe_rxPipe), Cat(sent, pipe_rxHand'))
        <4>1. Cat(pipe_seen, pipe_rxPipe) \in Seq(Nat)
          BY <1>2 DEF Cat
        <4> QED
          BY <1>2, <2>4, <4>1, NumbersTogether, SMT
      <3>3. Received' = Cat(Cat(pipe_seen, Cat(pipe_rxPipe, sent)), pipe_rxHand')
        BY <2>2, <2>5, Zenon DEF Received, Cat
      <3>4. Received = Cat(Cat(pipe_seen, pipe_rxPipe), Cat(sent, pipe_rxHand'))
        BY <2>4, Zenon DEF Received, Cat
      <3> QED
        BY <3>1, <3>2, <3>3, <3>4, Zenon
    <2>8. pipe_seen' \in Seq(Nat)
      BY <1>2, <2>2
    <2> QED
      BY <1>5, <2>2, <2>4, <2>6, <2>7, <2>8, Zenon
  <1>7. CASE Pipe!SerialRxRead
    <2>1. PICK n \in 1 .. Len(pipe_rxPipe) :
            /\ pipe_seen' = pipe_seen \o SubSeq(pipe_rxPipe, 1, n)
            /\ pipe_rxPipe' = SubSeq(pipe_rxPipe, n + 1, Len(pipe_rxPipe))
      BY <1>7 DEF Pipe!SerialRxRead
    <2>2. pipe_host' = pipe_host /\ pipe_rxHand' = pipe_rxHand
      BY <1>7 DEF Pipe!SerialRxRead
    <2> DEFINE sent == SubSeq(pipe_rxPipe, 1, n)
    <2>3. n \in 0 .. Len(pipe_rxPipe)
      BY <1>2
    <2>4. /\ sent \in Seq(Nat) /\ Len(sent) = n /\ pipe_rxPipe' \in Seq(Nat)
          /\ Len(pipe_rxPipe') = Len(pipe_rxPipe) - n
          /\ sent \o pipe_rxPipe' = pipe_rxPipe
      BY <1>2, <2>1, <2>3, Taken
    <2>5. pipe_seen' = pipe_seen \o sent
      BY <2>1
    <2> HIDE DEF sent
    <2>6. pipe_seen' \in Seq(Nat) /\ Len(pipe_rxPipe') <= Pipe!RxPipeSize
      <3>1. pipe_seen' \in Seq(Nat)
        BY <1>2, <2>4, <2>5, ConcatProperties
      <3>2. Len(pipe_rxPipe') <= Pipe!RxPipeSize
        BY <1>1, <1>2, <2>3, <2>4
      <3> QED
        BY <3>1, <3>2
    <2>7. Received' = Received
      <3>1. Cat(Cat(pipe_seen, sent), pipe_rxPipe') = Cat(pipe_seen, Cat(sent, pipe_rxPipe'))
        BY <1>2, <2>4, NumbersTogether, SMT
      <3>2. Cat(pipe_seen, Cat(sent, pipe_rxPipe')) = Cat(pipe_seen, pipe_rxPipe)
        BY <2>4, Zenon DEF Cat
      <3>3. Received' = Cat(Cat(Cat(pipe_seen, sent), pipe_rxPipe'), pipe_rxHand)
        BY <2>2, <2>5, Zenon DEF Received, Cat
      <3>4. Received = Cat(Cat(pipe_seen, pipe_rxPipe), pipe_rxHand)
        BY Zenon DEF Received, Cat
      <3> QED
        BY <3>1, <3>2, <3>3, <3>4, Zenon
    <2>8. pipe_rxHand' \in Seq(Nat)
      BY <1>2, <2>2
    <2> QED
      BY <1>5, <2>2, <2>4, <2>6, <2>7, <2>8, Zenon
  <1> QED
    BY <1>4, <1>6, <1>7

LEMMA PipeNext ==
  ASSUME PipeInv, [Pipe!Next]_pipeVars
  PROVE  PipeInv'
  <1>1. CASE UNCHANGED pipeVars
    <2>1. /\ Bytes' = Bytes
          /\ Pipe!FrameLen' = Pipe!FrameLen /\ Pipe!MaxFrames' = Pipe!MaxFrames
          /\ Pipe!PipeSize' = Pipe!PipeSize /\ Pipe!MaxBreaks' = Pipe!MaxBreaks
      BY <1>1 DEF pipeVars, Bytes, Pipe!FrameLen, Pipe!MaxFrames, Pipe!PipeSize, Pipe!MaxBreaks
    <2>2. PipeTyped'
      BY <1>1, <2>1 DEF PipeInv, PipeTyped, pipeVars
    <2>3. PipeOrder' /\ PipeCuts'
      BY <1>1, <2>1, SendingKept DEF PipeInv, pipeVars
    <2>4. PipeRx'
      BY <1>1, ReceivingKept DEF PipeInv, pipeVars
    <2> QED
      BY <2>2, <2>3, <2>4 DEF PipeInv
  <1> SUFFICES ASSUME Pipe!Next PROVE PipeInv'
    BY <1>1
  <1>2. pipe_port' = pipe_port
    BY DEF Pipe!Next
  <1>3. CASE Pipe!SerialTxWrite
    BY <1>2, <1>3, FrameGiven
  <1>4. CASE Pipe!TryWrite
    <2>1. /\ pipe_sending
          /\ UNCHANGED <<pipe_frame, pipe_hand, pipe_wire, pipe_torn, pipe_serving, pipe_up, pipe_breaks,
                         pipe_rxServing, pipe_host, pipe_rxHand, pipe_rxPipe, pipe_seen>>
      BY <1>4 DEF Pipe!TryWrite, Pipe!rxVars
    <2>2. CASE /\ Pipe!Rejects /\ pipe_sending' = FALSE
               /\ UNCHANGED <<pipe_off, pipe_accepted, pipe_txPipe>>
      BY <1>2, <2>1, <2>2, FrameGivenUp
    <2>3. ASSUME NEW n \in 1 .. Pipe!Room, pipe_off + n <= Pipe!FrameLen,
                 pipe_txPipe' = pipe_txPipe \o Pipe!Queued(n), pipe_off' = pipe_off + n,
                 pipe_sending' = (pipe_off + n < Pipe!FrameLen),
                 pipe_accepted' = (IF pipe_off + n = Pipe!FrameLen THEN pipe_accepted \cup {pipe_frame}
                                                                   ELSE pipe_accepted),
                 UNCHANGED <<pipe_rejected, pipe_partial>>
          PROVE  PipeInv'
      BY <1>2, <2>1, <2>3, PartTaken
    <2> QED
      BY <1>4, <2>2, <2>3, Zenon DEF Pipe!TryWrite
  <1>5. CASE Pipe!Dequeue \/ Pipe!WritePacket
    BY <1>2, <1>5, BytesMoved
  <1>6. CASE Pipe!WriteFails
    BY <1>2, <1>6, BytesLost
  <1>7. CASE Pipe!WaitTxConnection \/ Pipe!HostCloses \/ Pipe!HostOpens \/ Pipe!WaitRxConnection
    BY <1>2, <1>7, ConnectionMoves
  <1>8. CASE Pipe!ReadPacket \/ Pipe!ProcessBytes \/ Pipe!SerialRxRead
    <2>1. /\ UNCHANGED <<pipe_frame, pipe_off, pipe_sending, pipe_accepted, pipe_rejected, pipe_partial,
                         pipe_txPipe, pipe_hand, pipe_wire, pipe_torn, pipe_serving, pipe_up, pipe_breaks>>
          /\ pipe_rxServing' \in {FALSE, pipe_rxServing}
      BY <1>8 DEF Pipe!ReadPacket, Pipe!ProcessBytes, Pipe!SerialRxRead, Pipe!txVars, Pipe!linkVars
    <2>2. /\ Bytes' = Bytes
          /\ Pipe!FrameLen' = Pipe!FrameLen /\ Pipe!MaxFrames' = Pipe!MaxFrames
          /\ Pipe!PipeSize' = Pipe!PipeSize /\ Pipe!MaxBreaks' = Pipe!MaxBreaks
      BY <1>2, <2>1 DEF Bytes, Pipe!FrameLen, Pipe!MaxFrames, Pipe!PipeSize, Pipe!MaxBreaks
    <2>3. PipeTyped'
      <3>1. {pipe_up', pipe_serving', pipe_rxServing'} \subseteq BOOLEAN
        BY <2>1, Zenon DEF PipeInv, PipeTyped
      <3> QED
        BY <1>2, <2>1, <2>2, <3>1, Zenon DEF PipeInv, PipeTyped
    <2>4. PipeOrder' /\ PipeCuts'
      BY <1>2, <2>1, <2>2, SendingKept DEF PipeInv
    <2>5. PipeRx'
      BY <1>2, <1>8, Receives DEF PipeInv
    <2> QED
      BY <2>3, <2>4, <2>5 DEF PipeInv
  <1> QED
    BY <1>3, <1>4, <1>5, <1>6, <1>7, <1>8 DEF Pipe!Next

LEMMA PipeImplies ==
  ASSUME PipeInv
  PROVE  /\ Pipe!TypeOK /\ Pipe!NothingReordered /\ Pipe!AcceptedWhole
         /\ Pipe!CutsCounted /\ Pipe!ReceivedWhole
  <1>1. /\ Bytes \in Seq(Byte) /\ Pipe!Stream = Bytes /\ Pipe!Range(Bytes) = Elems(Bytes)
    <2>1. Bytes \in Seq(Byte)
      BY BytesTyped DEF PipeInv
    <2> QED
      BY <2>1, RangeElems DEF Pipe!Stream, Bytes
  <1>0. \A S : Pipe!Cardinality(S) = Cardinality(S)
    BY DEF Pipe!Cardinality, Cardinality
  <1>2. Pipe!TypeOK
    <2>1. Elems(Bytes) \subseteq (1 .. Pipe!MaxFrames) \X (1 .. Pipe!FrameLen)
      <3> SUFFICES ASSUME NEW i \in 1 .. Len(Bytes)
                   PROVE  Bytes[i] \in (1 .. Pipe!MaxFrames) \X (1 .. Pipe!FrameLen)
        BY DEF Elems
      <3>1. Bytes[i] \in Byte /\ Bytes[i] \in Elems(Bytes)
        BY <1>1 DEF Elems
      <3>2. Begun(Bytes[i])
        BY <3>1 DEF PipeInv, PipeOrder
      <3> QED
        BY <3>1, <3>2 DEF Begun, Byte
    <2>2. Len(pipe_rxPipe) <= Pipe!RxPipeSize /\ pipe_host \in 0 .. Pipe!MaxRx
      BY DEF PipeInv, PipeRx
    <2> QED
      <3>1. Pipe!Range(Pipe!Stream) \subseteq (1 .. Pipe!MaxFrames) \X (1 .. Pipe!FrameLen)
        BY <1>1, <2>1
      <3> HIDE <1>1, <2>1
      <3>2. /\ pipe_frame \in 0 .. Pipe!MaxFrames /\ pipe_off \in 0 .. Pipe!FrameLen
            /\ pipe_sending \in BOOLEAN
            /\ pipe_accepted \subseteq 1 .. pipe_frame /\ pipe_rejected \subseteq 1 .. pipe_frame
            /\ pipe_accepted \cap pipe_rejected = {}
            /\ pipe_partial \in 0 .. Cardinality(pipe_rejected)
            /\ Len(pipe_txPipe) <= Pipe!PipeSize
            /\ pipe_torn \subseteq 1 .. pipe_frame
            /\ {pipe_up, pipe_serving, pipe_rxServing} \subseteq BOOLEAN
            /\ pipe_breaks \in 0 .. Pipe!MaxBreaks
        BY Zenon DEF PipeInv, PipeTyped
      <3> QED
        BY <1>0, <2>2, <3>1, <3>2, Zenon DEF Pipe!TypeOK
  <1>3. Pipe!NothingReordered
    <2> SUFFICES ASSUME NEW i \in 1 .. Len(Bytes) - 1
                 PROVE  Earlier(Bytes[i], Bytes[i + 1])
      BY <1>1, Zenon DEF Pipe!NothingReordered, Earlier
    <2>1. Len(Bytes) \in Nat
      BY <1>1
    <2>2. i \in 1 .. Len(Bytes) /\ i + 1 \in 1 .. Len(Bytes) /\ i < i + 1
      BY <2>1
    <2> QED
      BY <2>2, Zenon DEF PipeInv, PipeOrder, Rising
  <1>4. Pipe!AcceptedWhole
    BY <1>1, Zenon DEF PipeInv, PipeOrder, Pipe!AcceptedWhole, Elems
  <1>5. Pipe!CutsCounted
    <2>1. Pipe!CutFrames = Cut
      BY <1>1, Zenon DEF Pipe!CutFrames, Pipe!FramesOf, Cut
    <2> QED
      <3>1. Pipe!Counted => Cardinality(Cut) <= pipe_partial
                            /\ (pipe_torn = {} => Cardinality(Cut) = pipe_partial)
        BY Zenon DEF PipeInv, PipeCuts, CutsInStep
      <3>2. Cardinality(Pipe!CutFrames) = Cardinality(Cut)
        BY <2>1
      <3> HIDE <2>1
      <3> QED
        BY <1>0, <3>1, <3>2 DEF Pipe!CutsCounted
  <1>6. Pipe!ReceivedWhole
    <2>1. Len(Received) = pipe_host /\ \A i \in 1 .. Len(Received) : Received[i] = i
      BY DEF PipeInv, PipeRx
    <2> QED
      BY <2>1, Zenon DEF Pipe!ReceivedWhole, Received
  <1> QED
    BY <1>2, <1>3, <1>4, <1>5, <1>6

-----------------------------------------------------------------------------
(* What a step of the suite is to each component. *)
LEMMA SuiteSteps ==
  ASSUME [SuiteNext]_suiteVars
  PROVE  /\ subject' = subject
         /\ [Next]_vars
         /\ subject = "sbus" => [Sbus!Next]_sbusVars
         /\ subject # "sbus" => UNCHANGED sbusVars
         /\ subject = "pipe" => [Pipe!Next]_pipeVars
         /\ subject = "m8" => [M8!Next]_ubxVars
         /\ subject = "m9" => [M9!Next]_ubxVars
         /\ subject = "time" => [Time!Next]_timeVars
         /\ subject = "date" => [Date!Next]_dateVars
  <1>1. CASE UNCHANGED suiteVars
    BY <1>1 DEF suiteVars
  <1>2. CASE Sent
    BY <1>2 DEF Sent, suiteVars
  <1>3. CASE subject = "drivers" /\ Next /\ Still("drivers")
    BY <1>3 DEF Still
  <1>4. CASE subject = "sbus" /\ Sbus!Next /\ Still("sbus")
    BY <1>4 DEF Still
  <1>5. CASE subject = "pipe" /\ Pipe!Next /\ Still("pipe")
    BY <1>5 DEF Still
  <1>6. CASE subject = "m8" /\ M8!Next /\ Still("ubx")
    BY <1>6 DEF Still
  <1>7. CASE subject = "m9" /\ M9!Next /\ Still("ubx")
    BY <1>7 DEF Still
  <1>8. CASE subject = "time" /\ Time!Next /\ Still("time")
    BY <1>8 DEF Still
  <1>9. CASE subject = "date" /\ Date!Next /\ Still("date")
    BY <1>9 DEF Still
  <1> QED
    BY <1>1, <1>2, <1>3, <1>4, <1>5, <1>6, <1>7, <1>8, <1>9 DEF SuiteNext

(* What holds of each component, of the one that a behaviour looks at.     *)
PartsInv ==
  /\ IInv
  /\ RcInv
  /\ subject = "pipe" => PipeInv
  /\ subject = "m8" => M8Inv
  /\ subject = "m9" => M9Inv
  /\ subject = "time" => TimeInv
  /\ subject = "date" => DateInv

LEMMA PartsInit == SuiteInit => PartsInv
  <1> SUFFICES ASSUME SuiteInit PROVE PartsInv
    OBVIOUS
  <1>1. Init /\ Sbus!Init /\ Pipe!Init /\ M8!Init /\ Time!Init /\ Date!Init
    BY DEF SuiteInit
  <1>2. IInv
    BY <1>1, InitIInv, Zenon
  <1>3. M8Inv /\ M9Inv
    <2>1. SetUpInv(14) /\ SetUpInv(11)
      BY <1>1, SetUpInit
    <2>2. ubx_k = 0 /\ ubx_synced = FALSE
      BY <1>1 DEF M8!Init
    <2> QED
      BY <2>1, <2>2 DEF M8Inv, M9Inv, TakenM8, TakenM9
  <1>4. TimeInv /\ DateInv
    BY <1>1, TimeInitInv, DateInitInv, Zenon
  <1>5. RcInv /\ PipeInv
    BY <1>1, RcInit, PipeInit, Zenon
  <1> QED
    BY <1>2, <1>3, <1>4, <1>5, Zenon DEF PartsInv

LEMMA PartsNext ==
  PartsInv /\ [SuiteNext]_suiteVars => PartsInv' /\ [sbus_got'.timestamp >= sbus_got.timestamp]_sbus_got
  <1> SUFFICES ASSUME PartsInv, [SuiteNext]_suiteVars
               PROVE  PartsInv' /\ [sbus_got'.timestamp >= sbus_got.timestamp]_sbus_got
    OBVIOUS
  <1>1. /\ subject' = subject
        /\ [Next]_vars
        /\ subject = "sbus" => [Sbus!Next]_sbusVars
        /\ subject # "sbus" => UNCHANGED sbusVars
        /\ subject = "pipe" => [Pipe!Next]_pipeVars
        /\ subject = "m8" => [M8!Next]_ubxVars
        /\ subject = "m9" => [M9!Next]_ubxVars
        /\ subject = "time" => [Time!Next]_timeVars
        /\ subject = "date" => [Date!Next]_dateVars
    BY SuiteSteps, Zenon
  <1>2. IInv'
    BY <1>1, NextIInv, Zenon DEF PartsInv
  <1>3. subject = "m8" => M8Inv'
    BY <1>1, M8Next, Zenon DEF PartsInv
  <1>4. subject = "m9" => M9Inv'
    BY <1>1, M9Next, Zenon DEF PartsInv
  <1>5. subject = "time" => TimeInv'
    BY <1>1, TimeNextInv, Zenon DEF PartsInv
  <1>6. subject = "date" => DateInv'
    BY <1>1, DateNextInv, Zenon DEF PartsInv
  <1>7. RcInv' /\ sbus_got'.timestamp >= sbus_got.timestamp
    <2>1. [Sbus!Next]_sbusVars
      BY <1>1, Zenon
    <2> QED
      BY <2>1, RcNext, Zenon DEF PartsInv
  <1>8. subject = "pipe" => PipeInv'
    BY <1>1, PipeNext, Zenon DEF PartsInv
  <1>9. PartsInv'
    BY <1>1, <1>2, <1>3, <1>4, <1>5, <1>6, <1>7, <1>8, Zenon DEF PartsInv
  <1> QED
    BY <1>7, <1>9, Zenon

(* For every set of boards and fitted sensors, however late or failing the  *)
(* rounds before: what a task publishes as good is a measurement its device *)
(* had not handed out before, and the last that is heard of a sensor whose  *)
(* task gave up is its error (the run functions of the drivers).            *)
THEOREM TellTruth == SuiteSpec => []DriversTellTheTruth
  <1>1. PartsInv => DriversTellTheTruth
    BY Zenon DEF PartsInv, IInv, DriversTellTheTruth
  <1> QED
    BY PartsInit, PartsNext, <1>1, PTL DEF SuiteSpec

(* For every set of boards: where the diagnostics count, each result that a *)
(* task published is waiting, replaced or consumed, and the counters say    *)
(* which, however task and drain interleave (record_signal_publish, the     *)
(* BMI08x's counters, and those of update_imu_sensor and record_bus).       *)
THEOREM Accounted == SuiteSpec => []SamplesAccounted
  <1>1. PartsInv => SamplesAccounted
    BY Zenon DEF PartsInv, IInv
  <1> QED
    BY PartsInit, PartsNext, <1>1, PTL DEF SuiteSpec

(* For every set of messages the receiver comes up with and any number of   *)
(* rounds: the two ends agree on the rate the search reports, the port is   *)
(* left at the rate the boards ask for, and a receiver that heard the       *)
(* configuration sends positions alone (sync_baudrate and run of ublox.rs). *)
THEOREM Configured == SuiteSpec => []ReceiverConfigured
  <1>1. PartsInv => ReceiverConfigured
    BY SetUpImplies, Zenon DEF PartsInv, ReceiverConfigured
  <1> QED
    BY PartsInit, PartsNext, <1>1, PTL DEF SuiteSpec

(* For every navigation period that divides the second and every order of   *)
(* edges, frames and tasks: a position's stamp is within a period of its    *)
(* epoch and its second and fraction give it (ublox.rs, pps.rs). For every  *)
(* day of every year from FirstYear on, unix_seconds_from_utc counts one    *)
(* day more than on the day before (gps.rs, ublox.rs).                      *)
THEOREM TimeKept == SuiteSpec => []PositionsKeepTime
  <1>1. TimeInv => Time!TypeOK /\ Time!StampNearEpoch /\ Time!UtcKept
    BY TimeImplies
  <1>2. DateInv => Date!DayIsCounted
    BY Zenon DEF DateInv, Date!DayIsCounted, Date!UnixDayStm
  <1>3. PartsInv => PositionsKeepTime
    BY <1>1, <1>2, Zenon DEF PartsInv, PositionsKeepTime
  <1> QED
    BY PartsInit, PartsNext, <1>3, PTL DEF SuiteSpec

(* For every capacity of the RC queue and ports of any sizes. Of the RC     *)
(* receiver: the flight loop never takes a packet older than the last, and  *)
(* no packet has a later part older than its front (sbus.rs). Of the        *)
(* companion link: bytes stay in order, an accepted frame lacks a byte only *)
(* if a failed transmission held it, the counters of the USB port count     *)
(* what was cut, where the build keeps them, and what is received is what   *)
(* was sent (board.rs, vcp.rs, telem.rs).                                   *)
THEOREM InOrder == SuiteSpec => SerialInOrder
  <1>1. PartsInv => (subject = "sbus" => Sbus!TypeOK /\ Sbus!FrontIsNewer)
    BY RcImplies, Zenon DEF PartsInv
  <1>2. PartsInv => (subject = "pipe" =>
                       /\ Pipe!TypeOK /\ Pipe!NothingReordered /\ Pipe!AcceptedWhole
                       /\ Pipe!CutsCounted /\ Pipe!ReceivedWhole)
    BY PipeImplies, Zenon DEF PartsInv
  <1> QED
    BY PartsInit, PartsNext, <1>1, <1>2, PTL DEF SuiteSpec, SerialInOrder, Sbus!NeverOlder
=============================================================================
