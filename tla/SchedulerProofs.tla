-------------------------- MODULE SchedulerProofs --------------------------
(***************************************************************************)
(* The realtime scheduler keeps time: theorems about Scheduler for every    *)
(* control rate, slack, spacing and cost of its work, with an IMU that      *)
(* leaves time for its tick.                                                *)
(***************************************************************************)
EXTENDS Scheduler, TLAPS

(* An IMU tick is over before the next sample.                               *)
ImuLeavesTime == SchedulerAssumption /\ ImuCost < ImuGap

Clocks ==
  /\ elapsed \in Int /\ phase \in 0 .. Interval - 1
  /\ acc \in 0 .. MaxAcc /\ gap \in 0 .. ImuGap /\ wait \in 0 .. MinSpacing
  /\ pc \in 0 .. 8 /\ busy \in 0 .. ImuCost + StageCost /\ hist.late \in Nat

Flags ==
  /\ pending \in BOOLEAN /\ active \in BOOLEAN /\ hist.ran \in BOOLEAN
  /\ DOMAIN hist = {"ran", "late", "order"}

Typed == Clocks /\ Flags

(* The time since the last update is a number of whole intervals ahead of    *)
(* the ideal clock.                                                          *)
OnGrid == elapsed \in {phase, phase + Interval, phase + 2 * Interval}

(* After an update the next deadline is in the next interval.                *)
RanEarly == hist.ran => elapsed < Interval

(* Only an update that is due is late, and work is all that keeps it.        *)
LateIsDue ==
  /\ elapsed < Interval => hist.late <= 0
  /\ busy = 0 => hist.late <= 0 \/ acc > 0 \/ pending

(* A service stage starts with nothing late, and before the deadline where   *)
(* samples are at hand.                                                      *)
InStage ==
  pc > 0 => /\ hist.late + busy <= StageCost
            /\ acc > 0 /\ StageCost <= Slack => elapsed + busy < Interval

(* An IMU tick whose sample is an error leaves an update waiting for the     *)
(* next sample, which comes too late to be in error twice.                   *)
InWork ==
  pc = 0 /\ busy > 0 =>
    /\ busy <= ImuCost
    /\ acc > 0 => hist.late + busy <= ImuCost
    /\ acc = 0 => \/ hist.late + busy <= StageCost + ImuCost
                  \/ ~pending /\ gap > 0 /\ hist.late <= StageCost + ImuCost
    /\ pending => gap >= ImuGap - ImuCost + busy

InLoop ==
  pc = 0 /\ busy = 0 =>
    /\ \/ hist.late <= StageCost
       \/ acc > 0 /\ hist.late <= ImuCost
       \/ gap > 0 /\ hist.late <= StageCost + ImuCost
    /\ acc > 0 /\ StageCost <= Slack => hist.late <= ImuCost

IInv == Typed /\ OnGrid /\ RanEarly /\ LateIsDue /\ InStage /\ InWork /\ InLoop

-----------------------------------------------------------------------------
(* The remainder of a time on the grid is its phase.                         *)
LEMMA Remainder ==
  ASSUME NEW n \in Nat \ {0}, NEW p \in 0 .. n - 1
  PROVE  /\ p % n = p
         /\ (p + n) % n = p
         /\ (p + 2 * n) % n = p
         /\ (p + 1) % n = IF p + 1 = n THEN 0 ELSE p + 1
OBVIOUS

LEMMA OnGridRemainder ==
  ASSUME ImuLeavesTime, Typed, OnGrid
  PROVE  elapsed % Interval = phase /\ elapsed >= phase
<1>1. Interval \in Nat \ {0} /\ phase \in 0 .. Interval - 1
  BY DEF ImuLeavesTime, SchedulerAssumption, Typed, Clocks
<1>. QED
  BY <1>1, Remainder DEF OnGrid

LEMMA SevenStages == Len(Stages) = 7
BY DEF Stages

LEMMA InitIInv ==
  ASSUME ImuLeavesTime, Init
  PROVE  IInv
<1>1. hist.ran = FALSE /\ hist.late = 0 /\ DOMAIN hist = {"ran", "late", "order"}
  BY DEF Init
<1>2. Clocks
  BY <1>1 DEF ImuLeavesTime, SchedulerAssumption, Init, Clocks
<1>3. Flags
  BY <1>1, Zenon DEF Init, Flags
<1>. QED
  BY <1>1, <1>2, <1>3 DEF ImuLeavesTime, SchedulerAssumption, Init, IInv, Typed, OnGrid,
                    RanEarly, LateIsDue, InStage, InWork, InLoop

-----------------------------------------------------------------------------
(* The main loop *)

Constants ==
  /\ Interval \in Nat \ {0} /\ Slack \in Nat /\ MinSpacing \in Nat /\ ImuGap \in Nat
  /\ ImuCost \in Nat \ {0} /\ StageCost \in Nat \ {0} /\ MaxAcc \in Nat \ {0}
  /\ ImuCost < ImuGap

LEMMA ConstantsTyped == ImuLeavesTime => Constants
BY DEF ImuLeavesTime, SchedulerAssumption, Constants

(* A control update runs: nothing is late, and the next is in its interval.  *)
LEMMA ControlRuns ==
  ASSUME ImuLeavesTime, IInv, RunControl
  PROVE  elapsed' = phase /\ acc' = 0 /\ hist'.late <= 0 /\ hist'.late \in Nat
<1>1. Typed /\ OnGrid
  BY DEF IInv
<1>2. elapsed' = elapsed % Interval /\ acc' = 0
      /\ hist' = [hist EXCEPT !.ran = TRUE, !.late = 0]
  BY DEF RunControl, Consumed
<1>. QED
  BY <1>1, <1>2, OnGridRemainder DEF Typed, Flags

LEMMA ControlHasRun ==
  ASSUME IInv, RunControl
  PROVE  hist'.ran /\ hist'.ran \in BOOLEAN /\ DOMAIN hist' = {"ran", "late", "order"}
<1>1. DOMAIN hist = {"ran", "late", "order"}
  BY DEF IInv, Typed, Flags
<1>2. hist' = [hist EXCEPT !.ran = TRUE, !.late = 0]
  BY DEF RunControl
<1>. QED
  BY <1>1, <1>2

LEMMA ControlledIInv ==
  ASSUME ImuLeavesTime, IInv, RunControl, pc = 0, pc' = 0, pending' = FALSE,
         busy' \in 1 .. ImuCost, UNCHANGED <<phase, gap, wait, active>>
  PROVE  IInv'
<1>1. Constants /\ Typed
  BY ConstantsTyped DEF IInv
<1>2. elapsed' = phase /\ acc' = 0 /\ hist'.late <= 0 /\ hist'.late \in Nat
  BY ControlRuns
<1>3. Clocks'
  BY <1>1, <1>2 DEF Constants, Typed, Clocks
<1>4. Flags'
  BY <1>1, ControlHasRun, Zenon DEF Typed, Flags
<1>5. OnGrid' /\ RanEarly' /\ LateIsDue' /\ InStage'
  BY <1>1, <1>2 DEF Constants, Typed, Clocks, OnGrid, RanEarly, LateIsDue, InStage
<1>6. InWork' /\ InLoop'
  <2>1. ~pending'
    OBVIOUS
  <2>2. ImuCost \in Nat /\ StageCost \in Nat /\ busy' \in Nat /\ busy' > 0 /\ busy' <= ImuCost
    BY <1>1 DEF Constants
  <2>3. hist'.late + busy' <= ImuCost /\ hist'.late + busy' <= StageCost + ImuCost
    BY <1>2, <2>2
  <2>4. ~ (busy' = 0)
    BY <2>2
  <2>. QED
    BY <2>1, <2>2, <2>3, <2>4, Zenon DEF InWork, InLoop
<1>. QED
  BY <1>3, <1>4, <1>5, <1>6 DEF IInv, Typed

(* A sample that is no update: it is counted, or it is an error.             *)
LEMMA CountedIInv ==
  ASSUME ImuLeavesTime, IInv, pc = 0, busy = 0, pending, NEW sample \in 0 .. 1,
         ~ (DueAt(elapsed) /\ acc + sample > 0),
         acc' = Accumulated(sample), UNCHANGED <<elapsed, hist, phase, gap, pc, wait, active>>,
         pending' = FALSE, busy' \in 1 .. ImuCost
  PROVE  IInv'
<1>1. Constants /\ Typed /\ OnGrid /\ RanEarly /\ LateIsDue /\ InLoop
  BY ConstantsTyped DEF IInv
<1>2. acc' \in 0 .. MaxAcc /\ acc' >= acc /\ acc' <= acc + sample
  BY <1>1 DEF Accumulated, Constants, Typed, Clocks
<1>3. Typed'
  <2>1. Clocks'
    BY <1>1, <1>2 DEF Constants, Typed, Clocks
  <2>2. Flags'
    BY <1>1, Zenon DEF Typed, Flags
  <2>. QED
    BY <2>1, <2>2 DEF Typed
<1>4. elapsed < Interval \/ (acc = 0 /\ acc' = 0)
  BY <1>1, <1>2 DEF DueAt, Constants, Typed, Clocks
<1>5. InWork'
  <2>1. ~ pending'
    OBVIOUS
  <2>2. /\ ImuCost \in Nat /\ StageCost \in Nat /\ busy' \in Nat /\ busy' <= ImuCost
        /\ hist' = hist /\ hist.late \in Nat /\ gap' = gap /\ gap \in Nat
    BY <1>1 DEF Constants, Typed, Clocks
  <2>3. CASE elapsed < Interval
    <3>1. hist.late <= 0
      BY <1>1, <2>3 DEF LateIsDue
    <3>2. hist'.late + busy' <= ImuCost /\ hist'.late + busy' <= StageCost + ImuCost
      BY <2>2, <3>1
    <3>. QED
      BY <2>1, <2>2, <3>2, Zenon DEF InWork
  <2>4. CASE acc = 0 /\ acc' = 0
    <3>1. hist.late <= StageCost \/ (gap > 0 /\ hist.late <= StageCost + ImuCost)
      BY <1>1, <2>4 DEF InLoop
    <3>. QED
      BY <2>1, <2>2, <2>4, <3>1 DEF InWork
  <2>. QED
    BY <1>4, <2>3, <2>4
<1>6. LateIsDue' /\ OnGrid' /\ RanEarly'
  BY <1>1 DEF Constants, Typed, Clocks, LateIsDue, OnGrid, RanEarly
<1>. QED
  BY <1>1, <1>3, <1>5, <1>6 DEF IInv, InStage, InLoop, Constants, Typed, Clocks

LEMMA ImuTickIInv ==
  ASSUME ImuLeavesTime, IInv, ImuTick
  PROVE  IInv'
<1>1. /\ pc = 0 /\ busy = 0 /\ pending' = FALSE /\ busy' \in 1 .. ImuCost
      /\ UNCHANGED <<phase, gap, pc, wait, active>>
  BY DEF ImuTick, AtLoop
<1>2. pending
  BY DEF ImuTick, AtLoop, NextStep, IInv, Typed, Flags
<1>3. PICK sample \in 0 .. 1 :
        IF DueAt(elapsed) /\ acc + sample > 0 THEN RunControl
        ELSE acc' = Accumulated(sample) /\ UNCHANGED <<elapsed, hist>>
  BY DEF ImuTick
<1>4. CASE DueAt(elapsed) /\ acc + sample > 0
  BY <1>1, <1>3, <1>4, ControlledIInv
<1>5. CASE ~ (DueAt(elapsed) /\ acc + sample > 0)
  BY <1>1, <1>2, <1>3, <1>5, CountedIInv
<1>. QED
  BY <1>4, <1>5

LEMMA ControlTickIInv ==
  ASSUME ImuLeavesTime, IInv, ControlTick
  PROVE  IInv'
<1>1. /\ pc = 0 /\ busy = 0 /\ RunControl /\ busy' \in 1 .. ImuCost
      /\ UNCHANGED <<phase, pending, gap, pc, wait, active>>
  BY DEF ControlTick, AtLoop
<1>2. pending = FALSE
  BY DEF ControlTick, AtLoop, NextStep, IInv, Typed, Flags
<1>. QED
  BY <1>1, <1>2, ControlledIInv

(* Service work is chosen, and continued, with nothing late.                 *)
LEMMA NothingLate ==
  ASSUME ImuLeavesTime, IInv, busy = 0, ~pending, ~CanRun, HasSlack
  PROVE  /\ hist.late <= 0
         /\ acc > 0 => elapsed + Slack < Interval
<1>1. Constants /\ Clocks /\ LateIsDue
  BY ConstantsTyped DEF IInv, Typed
<1>2. elapsed < Interval \/ ~ (acc > 0)
  BY <1>1 DEF CanRun, DueAt, Constants, Clocks
<1>3. hist.late <= 0
  BY <1>1, <1>2 DEF LateIsDue
<1>4. acc > 0 => elapsed + Slack < Interval
  BY <1>1 DEF HasSlack, Clocks
<1>. QED
  BY <1>3, <1>4

LEMMA ServicePassIInv ==
  ASSUME ImuLeavesTime, IInv, ServicePass
  PROVE  IInv'
<1>1. Constants /\ Clocks /\ Flags /\ OnGrid /\ RanEarly /\ LateIsDue
  BY ConstantsTyped DEF IInv, Typed
<1>2. /\ pc = 0 /\ busy = 0 /\ pc' = 1 /\ active' = FALSE
      /\ hist' = [hist EXCEPT !.order = <<>>]
      /\ UNCHANGED <<elapsed, phase, acc, pending, gap, busy, wait>>
  BY DEF ServicePass, AtLoop
<1>3. ~pending /\ ~CanRun /\ HasSlack
  BY <1>1 DEF ServicePass, AtLoop, NextStep, Flags
<1>4. hist.late <= 0 /\ (acc > 0 => elapsed + Slack < Interval)
  BY <1>2, <1>3, NothingLate
<1>5. hist'.late = hist.late /\ hist'.ran = hist.ran /\ DOMAIN hist' = {"ran", "late", "order"}
  BY <1>1, <1>2 DEF Flags
<1>6. Clocks'
  BY <1>1, <1>2, <1>5 DEF Clocks
<1>7. Flags'
  BY <1>1, <1>2, <1>5, Zenon DEF Flags
<1>8. OnGrid' /\ RanEarly' /\ LateIsDue'
  BY <1>1, <1>2, <1>5 DEF OnGrid, RanEarly, LateIsDue
<1>9. InStage'
  BY <1>1, <1>2, <1>4, <1>5 DEF InStage, Constants, Clocks
<1>10. InWork' /\ InLoop'
  BY <1>2 DEF InWork, InLoop
<1>. QED
  BY <1>6, <1>7, <1>8, <1>9, <1>10 DEF IInv, Typed

(* A stage that fits in the slack ends in time.                              *)
LEMMA EndsInTime ==
  ASSUME NEW e \in Int, NEW b \in Nat, NEW cost \in Nat, NEW slack \in Nat, NEW end \in Nat,
         b <= cost, cost <= slack, e + slack < end
  PROVE  e + b < end
OBVIOUS

LEMMA RunStageIInv ==
  ASSUME ImuLeavesTime, IInv, RunStage
  PROVE  IInv'
<1>1. Constants /\ Clocks /\ Flags /\ OnGrid /\ RanEarly /\ LateIsDue /\ InStage
  BY ConstantsTyped DEF IInv, Typed
<1>2. /\ pc \in 1 .. 7 /\ busy = 0 /\ pc' = pc + 1
      /\ UNCHANGED <<elapsed, phase, acc, pending, gap, wait>>
  BY SevenStages DEF RunStage
<1>3. CASE CanContinue
  <2>1. busy' \in 1 .. StageCost
    BY <1>3 DEF RunStage
  <2>2. active' \in {active} \cup (IF Stages[pc] \in {"telemetry", "sensors", "input"} THEN {TRUE} ELSE {})
    BY <1>3 DEF RunStage
  <2>3. hist' = [hist EXCEPT !.order = Append(@, Stages[pc])]
    BY <1>3 DEF RunStage
  <2>4. hist.late <= 0 /\ (acc > 0 => elapsed + Slack < Interval)
    BY <1>2, <1>3, NothingLate DEF CanContinue
  <2>5. hist'.late = hist.late /\ hist'.ran = hist.ran /\ DOMAIN hist' = {"ran", "late", "order"}
    BY <1>1, <2>3 DEF Flags
  <2>6. Clocks'
    BY <1>1, <1>2, <2>1, <2>5 DEF Constants, Clocks
  <2>7. Flags'
    BY <1>1, <1>2, <2>2, <2>5, Zenon DEF Flags
  <2>8. OnGrid' /\ RanEarly' /\ LateIsDue'
    BY <1>1, <1>2, <2>1, <2>5 DEF Constants, OnGrid, RanEarly, LateIsDue
  <2>9. InStage'
    <3>1. /\ hist.late \in Nat /\ busy' \in Nat /\ busy' <= StageCost /\ StageCost \in Nat
          /\ elapsed \in Int /\ acc \in Nat /\ Slack \in Nat /\ Interval \in Nat
      BY <1>1, <2>1 DEF Constants, Clocks
    <3>2. hist.late + busy' <= StageCost
      BY <2>4, <3>1
    <3>3. ASSUME acc > 0, StageCost <= Slack PROVE elapsed + busy' < Interval
      <4>1. elapsed + Slack < Interval
        BY <2>4, <3>3
      <4>. QED
        BY <3>1, <3>3, <4>1, EndsInTime
    <3>. QED
      BY <1>2, <2>5, <3>2, <3>3, Zenon DEF InStage
  <2>10. InWork' /\ InLoop'
    BY <1>2 DEF InWork, InLoop
  <2>. QED
    BY <2>6, <2>7, <2>8, <2>9, <2>10 DEF IInv, Typed
<1>4. CASE ~CanContinue
  <2>1. UNCHANGED <<busy, active, hist>>
    BY <1>4 DEF RunStage
  <2>2. Clocks'
    BY <1>1, <1>2, <2>1 DEF Clocks
  <2>3. Flags' /\ OnGrid' /\ RanEarly' /\ LateIsDue'
    BY <1>1, <1>2, <2>1 DEF Flags, OnGrid, RanEarly, LateIsDue
  <2>4. InStage'
    BY <1>1, <1>2, <2>1 DEF InStage
  <2>5. InWork' /\ InLoop'
    BY <1>2 DEF InWork, InLoop
  <2>. QED
    BY <2>2, <2>3, <2>4, <2>5 DEF IInv, Typed
<1>. QED
  BY <1>3, <1>4

LEMMA StepDoneIInv ==
  ASSUME ImuLeavesTime, IInv, StepDone
  PROVE  IInv'
<1>1. Constants /\ Clocks /\ Flags /\ OnGrid /\ RanEarly /\ LateIsDue /\ InStage
  BY ConstantsTyped DEF IInv, Typed
<1>2. /\ pc = 8 /\ busy = 0 /\ active' = FALSE /\ hist' = [hist EXCEPT !.order = <<>>]
      /\ UNCHANGED <<elapsed, phase, acc, pending, gap, busy>>
  BY SevenStages DEF StepDone
<1>3. (pc' = 1 /\ wait' = wait) \/ (pc' = 0 /\ wait' = MinSpacing)
  BY DEF StepDone
<1>4. hist'.late = hist.late /\ hist'.ran = hist.ran /\ DOMAIN hist' = {"ran", "late", "order"}
  BY <1>1, <1>2 DEF Flags
<1>5. Clocks'
  BY <1>1, <1>2, <1>3, <1>4 DEF Constants, Clocks
<1>6. Flags'
  BY <1>1, <1>2, <1>4, Zenon DEF Flags
<1>7. OnGrid' /\ RanEarly' /\ LateIsDue'
  BY <1>1, <1>2, <1>4 DEF OnGrid, RanEarly, LateIsDue
<1>8. hist.late <= StageCost /\ (acc > 0 /\ StageCost <= Slack => elapsed < Interval)
  BY <1>1, <1>2 DEF InStage, Constants, Clocks
<1>9. InStage' /\ InWork'
  BY <1>1, <1>2, <1>3, <1>4 DEF InStage, InWork, Constants, Clocks
<1>10. InLoop'
  <2>1. acc > 0 /\ StageCost <= Slack => hist.late <= ImuCost
    BY <1>1, <1>8 DEF LateIsDue, Constants, Clocks
  <2>. QED
    BY <1>2, <1>4, <1>8, <2>1 DEF InLoop
<1>. QED
  BY <1>5, <1>6, <1>7, <1>9, <1>10 DEF IInv, Typed

LEMMA InterruptIInv ==
  ASSUME ImuLeavesTime, IInv, Interrupt
  PROVE  IInv'
<1>1. Constants /\ Clocks /\ Flags /\ OnGrid /\ RanEarly /\ LateIsDue /\ InStage /\ InWork /\ InLoop
  BY ConstantsTyped DEF IInv, Typed
<1>2. /\ gap = 0 /\ ~pending /\ pending' = TRUE /\ gap' = ImuGap
      /\ UNCHANGED <<elapsed, phase, acc, pc, busy, wait, active, hist>>
  BY DEF Interrupt
<1>3. Clocks'
  BY <1>1, <1>2 DEF Constants, Clocks
<1>4. Flags' /\ OnGrid' /\ RanEarly' /\ LateIsDue' /\ InStage'
  BY <1>1, <1>2 DEF Flags, OnGrid, RanEarly, LateIsDue, InStage
<1>5. InWork'
  BY <1>1, <1>2 DEF InWork, Constants, Clocks
<1>6. InLoop'
  BY <1>1, <1>2 DEF InLoop, Constants, Clocks
<1>. QED
  BY <1>3, <1>4, <1>5, <1>6 DEF IInv, Typed

-----------------------------------------------------------------------------
(* Time *)

(* A tick of the clock, in work or with nothing to do.                       *)
LEMMA Ticked ==
  ASSUME ImuLeavesTime, IInv, Tick
  PROVE  /\ UNCHANGED <<acc, pending, pc, active>>
         /\ gap' \in Nat /\ gap' <= gap /\ gap' >= gap - 1
         /\ wait' \in Nat /\ wait' <= wait
         /\ busy' \in Nat /\ (busy > 0 => busy' = busy - 1) /\ (busy = 0 => busy' = 0 /\ pc = 0)
<1>1. Constants /\ Clocks
  BY ConstantsTyped DEF IInv, Typed
<1>2. gap' = Less(gap) /\ busy' = Less(busy) /\ wait' = Less(wait)
      /\ UNCHANGED <<acc, pending, pc, active>>
  BY DEF Tick
<1>3. busy > 0 \/ pc = 0
  BY DEF Tick, AtLoop
<1>. QED
  BY <1>1, <1>2, <1>3 DEF Less, Constants, Clocks

(* The ideal clock and the time since the last update go on together.        *)
LEMMA TickedOnGrid ==
  ASSUME ImuLeavesTime, IInv, Tick
  PROVE  /\ elapsed' \in Int /\ phase' \in 0 .. Interval - 1 /\ OnGrid'
         /\ elapsed < Interval => elapsed' = elapsed + 1
         /\ elapsed' < Interval => elapsed + 1 < Interval
         /\ elapsed < Interval /\ phase' # 0 => elapsed' < Interval
<1>1. Constants /\ Clocks /\ OnGrid
  BY ConstantsTyped DEF IInv, Typed
<1>2. phase' = IF phase + 1 = Interval THEN 0 ELSE phase + 1
  BY <1>1, Remainder DEF Tick, Constants, Clocks
<1>3. elapsed' = IF elapsed + 1 < 3 * Interval THEN elapsed + 1 ELSE elapsed + 1 - Interval
  BY DEF Tick
<1>. QED
  BY <1>1, <1>2, <1>3 DEF OnGrid, Constants, Clocks

(* An update gets later only while it is due and something may serve it.     *)
LEMMA TickedLate ==
  ASSUME ImuLeavesTime, IInv, Tick
  PROVE  /\ hist'.late \in Nat /\ hist'.late <= hist.late + 1
         /\ elapsed < Interval => hist'.late <= 0
         /\ ~ (acc > 0) /\ ~pending => hist'.late <= 0
<1>1. Constants /\ Clocks
  BY ConstantsTyped DEF IInv, Typed
<1>2. DOMAIN hist = {"ran", "late", "order"}
  BY DEF IInv, Typed, Flags
<1>3. hist'.late = IF DueAt(elapsed) /\ (acc > 0 \/ pending) THEN hist.late + 1 ELSE 0
  BY <1>2 DEF Tick
<1>4. CASE DueAt(elapsed) /\ (acc > 0 \/ pending)
  BY <1>1, <1>3, <1>4 DEF DueAt, Constants, Clocks
<1>5. CASE ~ (DueAt(elapsed) /\ (acc > 0 \/ pending))
  BY <1>1, <1>3, <1>5 DEF Clocks
<1>. QED
  BY <1>4, <1>5

LEMMA TickedFlags ==
  ASSUME ImuLeavesTime, IInv, Tick
  PROVE  Flags' /\ (hist'.ran => hist.ran /\ phase' # 0)
<1>1. DOMAIN hist = {"ran", "late", "order"} /\ hist.ran \in BOOLEAN
      /\ pending \in BOOLEAN /\ active \in BOOLEAN
  BY DEF IInv, Typed, Flags
<1>2. DOMAIN hist' = {"ran", "late", "order"} /\ hist'.ran = (hist.ran /\ phase' # 0)
  BY <1>1 DEF Tick
<1>3. hist'.ran \in BOOLEAN
  BY <1>1, <1>2, Zenon
<1>. QED
  BY <1>1, <1>2, <1>3, Ticked DEF Flags

(* The main loop has nothing to do when no update is due that could run.     *)
LEMMA IdleNotLate ==
  ASSUME ImuLeavesTime, IInv, Tick, busy = 0
  PROVE  hist'.late <= 0
<1>1. Constants /\ Clocks /\ Flags
  BY ConstantsTyped DEF IInv, Typed
<1>2. NextStep = "idle"
  BY <1>1 DEF Tick, AtLoop, Clocks
<1>3. ~pending /\ ~CanRun
  BY <1>1, <1>2 DEF NextStep, Flags
<1>4. elapsed < Interval \/ ~ (acc > 0)
  BY <1>1, <1>3 DEF CanRun, DueAt, Constants, Clocks
<1>. QED
  BY <1>3, <1>4, TickedLate

LEMMA TickIInv ==
  ASSUME ImuLeavesTime, IInv, Tick
  PROVE  IInv'
<1>1. Constants /\ Clocks /\ RanEarly /\ LateIsDue /\ InStage /\ InWork
  BY ConstantsTyped DEF IInv, Typed
<1>2. Clocks'
  BY <1>1, Ticked, TickedOnGrid, TickedLate DEF Constants, Clocks
<1>3. OnGrid' /\ Flags'
  BY TickedOnGrid, TickedFlags
<1>4. RanEarly'
  BY <1>1, TickedOnGrid, TickedFlags DEF RanEarly
<1>5. LateIsDue'
  <2>1. elapsed' < Interval => hist'.late <= 0
    BY <1>1, TickedOnGrid, TickedLate DEF Constants, Clocks
  <2>2. hist'.late <= 0 \/ acc' > 0 \/ pending'
    BY TickedLate, Ticked
  <2>. QED
    BY <2>1, <2>2 DEF LateIsDue
<1>6. CASE busy = 0
  <2>1. busy' = 0 /\ pc' = 0 /\ hist'.late <= 0 /\ hist'.late \in Nat
    BY <1>6, Ticked, IdleNotLate, TickedLate
  <2>2. InStage' /\ InWork'
    BY <2>1 DEF InStage, InWork
  <2>3. InLoop'
    <3>1. hist'.late <= StageCost /\ hist'.late <= ImuCost
      BY <1>1, <2>1 DEF Constants
    <3>. QED
      BY <3>1 DEF InLoop
  <2>. QED
    BY <1>2, <1>3, <1>4, <1>5, <2>2, <2>3 DEF IInv, Typed
<1>7. CASE busy > 0 /\ pc > 0
  <2>1. busy' = busy - 1 /\ pc' = pc /\ acc' = acc
    BY <1>7, Ticked
  <2>2. hist.late + busy <= StageCost /\ (acc > 0 /\ StageCost <= Slack => elapsed + busy < Interval)
    BY <1>1, <1>7 DEF InStage
  <2>3. hist'.late + busy' <= StageCost
    BY <1>1, <1>7, <2>1, <2>2, TickedLate DEF Constants, Clocks
  <2>4. acc > 0 /\ StageCost <= Slack => elapsed' + busy' < Interval
    <3>1. acc > 0 /\ StageCost <= Slack => elapsed < Interval
      BY <1>1, <1>7, <2>2 DEF Constants, Clocks
    <3>. QED
      BY <1>1, <2>1, <2>2, <3>1, TickedOnGrid DEF Constants, Clocks
  <2>5. InStage'
    BY <2>1, <2>3, <2>4 DEF InStage
  <2>6. InWork' /\ InLoop'
    BY <1>1, <1>7, <2>1 DEF InWork, InLoop, Constants, Clocks
  <2>. QED
    BY <1>2, <1>3, <1>4, <1>5, <2>5, <2>6 DEF IInv, Typed
<1>8. CASE busy > 0 /\ pc = 0
  <2>1. busy' = busy - 1 /\ busy' \in Nat /\ pc' = 0 /\ acc' = acc /\ pending' = pending
    BY <1>8, Ticked
  <2>2. /\ busy <= ImuCost
        /\ acc > 0 => hist.late + busy <= ImuCost
        /\ pending => gap >= ImuGap - ImuCost + busy
        /\ ~ (acc > 0) /\ pending => hist.late + busy <= StageCost + ImuCost
    BY <1>1, <1>8 DEF InWork, Clocks
  <2>3. busy' <= ImuCost /\ (acc > 0 => hist'.late + busy' <= ImuCost)
    BY <1>1, <1>8, <2>1, <2>2, TickedLate DEF Constants, Clocks
  <2>4. ~ (acc > 0) => hist'.late + busy' <= StageCost + ImuCost
    <3>1. CASE pending
      BY <1>1, <1>8, <2>1, <2>2, <3>1, TickedLate DEF Constants, Clocks
    <3>2. CASE ~pending
      BY <1>1, <1>8, <2>1, <2>2, <3>2, TickedLate DEF Constants, Clocks
    <3>. QED
      BY <3>1, <3>2
  <2>5. pending => gap' >= ImuGap - ImuCost + busy' /\ gap' > 0
    BY <1>1, <1>8, <2>1, <2>2, Ticked DEF Constants, Clocks
  <2>6. InStage'
    BY <2>1 DEF InStage
  <2>7. InWork'
    BY <1>1, <2>1, <2>3, <2>4, <2>5 DEF InWork, Constants, Clocks
  <2>8. InLoop'
    <3>1. busy' = 0 => hist'.late <= StageCost \/ acc > 0 \/ gap' > 0
      BY <2>5, TickedLate, <1>1 DEF Constants
    <3>2. busy' = 0 /\ acc > 0 => hist'.late <= ImuCost
      BY <1>1, <2>3, TickedLate DEF Constants
    <3>3. busy' = 0 /\ ~ (acc > 0) => hist'.late <= StageCost + ImuCost
      BY <1>1, <2>4, TickedLate DEF Constants
    <3>. QED
      BY <2>1, <3>1, <3>2, <3>3 DEF InLoop
  <2>. QED
    BY <1>2, <1>3, <1>4, <1>5, <2>6, <2>7, <2>8 DEF IInv, Typed
<1>. QED
  BY <1>1, <1>6, <1>7, <1>8 DEF Clocks

LEMMA NextIInv ==
  ASSUME ImuLeavesTime, IInv, [Next]_vars
  PROVE  IInv'
<1>1. CASE UNCHANGED vars
  BY <1>1 DEF vars, IInv, Typed, Clocks, Flags, OnGrid, RanEarly, LateIsDue, InStage, InWork,
              InLoop
<1>. QED
  BY <1>1, ImuTickIInv, ControlTickIInv, ServicePassIInv, RunStageIInv, StepDoneIInv, TickIInv,
     InterruptIInv DEF Next, MainLoop

-----------------------------------------------------------------------------
(* What the invariant is for *)

(* A control update brings the next deadline forward, so the time since the  *)
(* last one goes back.                                                       *)
LEMMA ControlGoesBack ==
  ASSUME SchedulerAssumption, elapsed \in Nat, ControlTick \/ (ImuTick /\ hist' # hist)
  PROVE  elapsed' < elapsed
<1>1. DueAt(elapsed) /\ elapsed' = elapsed % Interval
  <2>1. CASE ControlTick
    BY <2>1 DEF ControlTick, AtLoop, NextStep, CanRun, RunControl, Consumed
  <2>2. CASE ImuTick /\ hist' # hist
    BY <2>2 DEF ImuTick, RunControl, Consumed
  <2>. QED
    BY <2>1, <2>2
<1>2. Interval \in Nat \ {0} /\ elapsed \in Nat /\ elapsed >= Interval
  BY <1>1 DEF SchedulerAssumption, DueAt
<1>3. elapsed % Interval < Interval
  BY <1>2
<1>. QED
  BY <1>1, <1>2, <1>3

(* Once an update has run in an interval, time only goes on in it.           *)
LEMMA RanGoesOn ==
  ASSUME ImuLeavesTime, IInv, [Next]_vars, hist.ran
  PROVE  elapsed \in Nat /\ elapsed' >= elapsed
<1>1. Constants /\ Clocks /\ Flags /\ OnGrid /\ RanEarly
  BY ConstantsTyped DEF IInv, Typed
<1>2. elapsed < Interval /\ elapsed \in Nat
  BY <1>1 DEF RanEarly, OnGrid, Constants, Clocks
<1>3. ~DueAt(elapsed)
  BY <1>1, <1>2 DEF DueAt, Constants
<1>4. CASE Tick
  BY <1>2, <1>4, TickedOnGrid
<1>5. CASE ImuTick
  BY <1>2, <1>3, <1>5 DEF ImuTick
<1>6. ~ControlTick
  BY <1>3 DEF ControlTick, AtLoop, NextStep, CanRun
<1>7. CASE ServicePass \/ RunStage \/ StepDone \/ Interrupt \/ UNCHANGED vars
  <2>1. elapsed' = elapsed
    BY <1>7 DEF ServicePass, RunStage, StepDone, Interrupt, vars
  <2>. QED
    BY <1>2, <2>1
<1>. QED
  BY <1>4, <1>5, <1>6, <1>7 DEF Next, MainLoop

LEMMA ImpliesTypeOK == ImuLeavesTime /\ IInv => TypeOK
<1>. SUFFICES ASSUME ImuLeavesTime, IInv PROVE TypeOK
  OBVIOUS
<1>1. Constants /\ Clocks /\ Flags /\ OnGrid
  BY ConstantsTyped DEF IInv, Typed
<1>2. elapsed \in 0 .. 3 * Interval - 1
  BY <1>1 DEF OnGrid, Constants, Clocks
<1>3. pc \in 0 .. Len(Stages) + 1
  BY <1>1, SevenStages DEF Clocks
<1>. QED
  BY <1>1, <1>2, <1>3, Zenon DEF Clocks, Flags, TypeOK

LEMMA ImpliesGrid == ImuLeavesTime /\ IInv => DeadlinesDoNotDrift
BY OnGridRemainder DEF IInv, DeadlinesDoNotDrift

LEMMA ImpliesOnTime == ImuLeavesTime /\ IInv => ControlOnTime
<1>. SUFFICES ASSUME ImuLeavesTime, IInv PROVE ControlOnTime
  OBVIOUS
<1>1. Constants /\ Clocks /\ LateIsDue /\ InStage /\ InWork /\ InLoop
  BY ConstantsTyped DEF IInv, Typed
<1>2. CASE pc > 0
  <2>1. hist.late <= StageCost
    BY <1>1, <1>2 DEF InStage, Constants, Clocks
  <2>2. acc > 0 /\ StageCost <= Slack => hist.late <= 0
    BY <1>1, <1>2 DEF InStage, LateIsDue, Constants, Clocks
  <2>. QED
    BY <1>1, <2>1, <2>2 DEF ControlOnTime, Constants, Clocks
<1>3. CASE pc = 0 /\ busy > 0
  <2>1. hist.late <= StageCost + ImuCost
    BY <1>1, <1>3 DEF InWork, Constants, Clocks
  <2>2. acc > 0 => hist.late <= ImuCost
    BY <1>1, <1>3 DEF InWork, Constants, Clocks
  <2>. QED
    BY <2>1, <2>2 DEF ControlOnTime
<1>4. CASE pc = 0 /\ busy = 0
  BY <1>1, <1>4 DEF InLoop, ControlOnTime, Constants, Clocks
<1>. QED
  BY <1>1, <1>2, <1>3, <1>4 DEF Clocks

-----------------------------------------------------------------------------
(* The clocks, the accumulator and the position in the stages keep their     *)
(* types (ControlScheduler, ImuSampleAccumulator).                           *)
THEOREM TypeCorrect == ASSUME ImuLeavesTime PROVE Spec => []TypeOK
<1>1. Init => IInv
  BY InitIInv
<1>2. IInv /\ [Next]_vars => IInv'
  BY NextIInv
<1>. QED
  BY <1>1, <1>2, ImpliesTypeOK, PTL DEF Spec

(* Deadlines stay on the grid of the control rate, however late updates are  *)
(* (consume_control_update_deadline).                                        *)
THEOREM OnTheGrid == ASSUME ImuLeavesTime PROVE Spec => []DeadlinesDoNotDrift
<1>1. Init => IInv
  BY InitIInv
<1>2. IInv /\ [Next]_vars => IInv'
  BY NextIInv
<1>. QED
  BY <1>1, <1>2, ImpliesGrid, PTL DEF Spec

(* Two updates never fall into one interval, also not to catch up            *)
(* (consume_control_update_deadline, realtime_scheduler_step).               *)
THEOREM OneUpdate == ASSUME ImuLeavesTime PROVE Spec => OncePerInterval
<1>1. Init => IInv
  BY InitIInv
<1>2. IInv /\ [Next]_vars => IInv'
  BY NextIInv
<1>3. IInv /\ [Next]_vars => [hist.ran => ~ (ControlTick \/ (ImuTick /\ hist' # hist))]_vars
  <2>1. ASSUME IInv, [Next]_vars, hist.ran, ControlTick \/ (ImuTick /\ hist' # hist) PROVE FALSE
    <3>1. elapsed \in Nat /\ elapsed' >= elapsed /\ elapsed' < elapsed
      BY <2>1, RanGoesOn, ControlGoesBack DEF ImuLeavesTime
    <3>2. elapsed' \in Int
      BY <2>1, NextIInv DEF IInv, Typed, Clocks
    <3>. QED
      BY <3>1, <3>2
  <2>. QED
    BY <2>1
<1>. QED
  BY <1>1, <1>2, <1>3, PTL DEF Spec, OncePerInterval

(* An update whose deadline has passed waits for one service stage and one   *)
(* IMU tick at most, and for the tick only where stages fit in the slack     *)
(* (has_control_slack, run_prioritized_service_step).                        *)
THEOREM OnTime == ASSUME ImuLeavesTime PROVE Spec => []ControlOnTime
<1>1. Init => IInv
  BY InitIInv
<1>2. IInv /\ [Next]_vars => IInv'
  BY NextIInv
<1>. QED
  BY <1>1, <1>2, ImpliesOnTime, PTL DEF Spec
=============================================================================
