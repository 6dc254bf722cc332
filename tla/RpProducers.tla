---------------------------- MODULE RpProducers ----------------------------
(***************************************************************************)
(* The sensor producers of the RP2350 board. On core 1 the IMU task brings *)
(* the sensor up, retrying for ever, and reads a packet per data-ready     *)
(* edge; the receiver and GPS tasks put packets as they come. Each puts    *)
(* into a ring that drops its oldest entry; on core 0 the board drains the *)
(* newest packet of each ring into the sensor bus and counts the numbers   *)
(* missing between the IMU packets it saw.                                 *)
(***************************************************************************)
EXTENDS Integers, Sequences, FiniteSets

CONSTANTS
  Cap,        \* IMU_QUEUE_CAPACITY, RC_QUEUE_CAPACITY, GPS_QUEUE_CAPACITY
  Faults,     \* steps of bringing the IMU up that may fail
  Wrap,       \* where sequence numbers and counters wrap (2^32)
  MaxPackets  \* bound: packets per queue

Queues == {"imu", "rc", "gnss"}
\* device_id_get .. gy_data_rate_set of init, in order
InitSteps == <<"id", "reset", "bdu", "xlfs", "gyfs", "xlodr", "gyodr">>

ASSUME RpProducersAssumption ==
  /\ Cap \in [Queues -> Nat \ {0}] /\ Wrap \in Nat \ {0} /\ MaxPackets \in Nat

VARIABLES
  ring,     \* packets: number of the packet per slot
  head, len, dropped,
  put,      \* packets put so far
  imu,      \* IMU task: the step of init it is at, or 0 for the reading loop
  lastSeq,  \* last_imu_seq, -1 for None
  gaps,     \* imu_seq_gaps
  bus,      \* SensorBus: packet per sensor, 0 if none
  taken,    \* history: packet taken last
  missed    \* history: IMU packets between the first taken and the last that were never seen

vars == <<ring, head, len, dropped, put, imu, lastSeq, gaps, bus, taken, missed>>

Init ==
  /\ ring = [q \in Queues |-> [i \in 0 .. Cap[q] - 1 |-> 0]]
  /\ head = [q \in Queues |-> 0] /\ len = [q \in Queues |-> 0] /\ dropped = [q \in Queues |-> 0]
  /\ put = [q \in Queues |-> 0] /\ imu = 1
  /\ lastSeq = -1 /\ gaps = 0 /\ bus = [q \in Queues |-> 0] /\ taken = [q \in Queues |-> 0]
  /\ missed = 0

-----------------------------------------------------------------------------
(* Mutated form: a full ring drops the packet that comes. *)
PushNewestLost(q, v) ==
  /\ IF len[q] = Cap[q]
     THEN UNCHANGED <<ring, len>> /\ dropped' = [dropped EXCEPT ![q] = (@ + 1) % Wrap]
     ELSE /\ ring' = [ring EXCEPT ![q][(head[q] + len[q]) % Cap[q]] = v]
          /\ len' = [len EXCEPT ![q] = @ + 1] /\ UNCHANGED dropped
  /\ UNCHANGED head

(* push of Ism330dhcxImuQueue, CrsfRcQueue and GnssQueue.                  *)
Push(q, v) ==
  LET full == len[q] = Cap[q]
      h == IF full THEN (head[q] + 1) % Cap[q] ELSE head[q]
      n == IF full THEN len[q] - 1 ELSE len[q]
  IN  /\ head' = [head EXCEPT ![q] = h]
      /\ len' = [len EXCEPT ![q] = n + 1]
      /\ ring' = [ring EXCEPT ![q][(h + n) % Cap[q]] = v]
      /\ dropped' = IF full THEN [dropped EXCEPT ![q] = (@ + 1) % Wrap] ELSE dropped

\* CrsfRcQueue and GnssQueue are the same ring, written out again.
PushRc(v) == Push("rc", v)
PushGnss(v) == Push("gnss", v)

Newest(q) == (head[q] + len[q] - 1) % Cap[q]

(* take_latest of the queues core 0 looks at: only those with len # 0.     *)
Looked(qs) == {q \in qs : len[q] # 0}

HeadsAfter(qs) ==
  [q \in Queues |-> IF q \in Looked(qs) THEN (Newest(q) + 1) % Cap[q] ELSE head[q]]

\* The lens are set to 0, the packets go to the bus, which was cleared before.
TakeLatest(qs) ==
  /\ head' = HeadsAfter(qs)
  /\ len' = [q \in Queues |-> IF q \in qs THEN 0 ELSE len[q]]
  /\ bus' = [q \in Queues |-> IF q \in Looked(qs) THEN ring[q][Newest(q)] ELSE 0]
  /\ taken' = [q \in Queues |-> IF q \in Looked(qs) THEN ring[q][Newest(q)] ELSE taken[q]]

-----------------------------------------------------------------------------
(* ism330dhcx_imu_task: init step by step, from the start after a failure. *)
ImuInit ==
  /\ imu # 0
  /\ imu' = IF imu = Len(InitSteps) THEN 0 ELSE imu + 1
  /\ UNCHANGED <<ring, head, len, dropped, put, lastSeq, gaps, bus, taken, missed>>

ImuInitFails ==
  /\ imu # 0 /\ InitSteps[imu] \in Faults
  /\ imu' = 1
  /\ UNCHANGED <<ring, head, len, dropped, put, lastSeq, gaps, bus, taken, missed>>

\* A packet read on an edge; a read that fails leaves nothing.
PutImu ==
  /\ imu = 0 /\ put["imu"] < MaxPackets
  /\ put' = [put EXCEPT !["imu"] = @ + 1] /\ Push("imu", put["imu"] + 1)
  /\ UNCHANGED <<imu, lastSeq, gaps, bus, taken, missed>>

\* crsf_rx_task: the last packet of the bytes read
PutRc ==
  /\ put["rc"] < MaxPackets
  /\ put' = [put EXCEPT !["rc"] = @ + 1] /\ PushRc(put["rc"] + 1)
  /\ UNCHANGED <<imu, lastSeq, gaps, bus, taken, missed>>

\* gps_pio_task with a packet its parser completed
PutGnss ==
  /\ put["gnss"] < MaxPackets
  /\ put' = [put EXCEPT !["gnss"] = @ + 1] /\ PushGnss(put["gnss"] + 1)
  /\ UNCHANGED <<imu, lastSeq, gaps, bus, taken, missed>>

\* read_packet numbers packets from 0.
SeqOf(v) == (v - 1) % Wrap

(* drain_imu_into: the numbers missing since the last packet seen. *)
GapsAfter(v) ==
  LET expected == (lastSeq + 1) % Wrap
      diff == (SeqOf(v) - expected) % Wrap
  IN  IF lastSeq = -1 \/ SeqOf(v) = expected THEN gaps
      ELSE (gaps + (IF diff = 0 THEN 1 ELSE diff)) % Wrap

ImuSeen ==
  LET v == ring["imu"][Newest("imu")]
  IN  IF len["imu"] = 0 THEN UNCHANGED <<lastSeq, gaps, missed>>
      ELSE /\ gaps' = GapsAfter(v) /\ lastSeq' = SeqOf(v)
           /\ missed' = IF taken["imu"] = 0 THEN 0 ELSE missed + v - taken["imu"] - 1

\* update_sensor_bus, update_imu_sensor, update_service_sensor_bus
UpdateSensorBus == TakeLatest(Queues) /\ ImuSeen /\ UNCHANGED <<ring, dropped, put, imu>>
UpdateImuSensor == TakeLatest({"imu"}) /\ ImuSeen /\ UNCHANGED <<ring, dropped, put, imu>>
UpdateServiceSensorBus ==
  TakeLatest({"rc", "gnss"}) /\ UNCHANGED <<ring, dropped, put, imu, lastSeq, gaps, missed>>

Next ==
  \/ ImuInit \/ ImuInitFails \/ PutImu \/ PutRc \/ PutGnss
  \/ UpdateSensorBus \/ UpdateImuSensor \/ UpdateServiceSensorBus

Spec == Init /\ [][Next]_vars

-----------------------------------------------------------------------------
(* Heads and lengths stay within the rings. *)
TypeOK ==
  /\ head \in [Queues -> Nat] /\ len \in [Queues -> Nat] /\ put \in [Queues -> Nat]
  /\ \A q \in Queues : head[q] < Cap[q] /\ len[q] <= Cap[q]

(* The board's count of missing numbers is the number of IMU packets that  *)
(* were read and never seen, through full rings, unseen packets and the    *)
(* wrap of the numbers.                                                    *)
GapsCounted == gaps = missed % Wrap

(* The rings promise what LatestValue states: whatever was dropped, the    *)
(* reader gets the newest packet, once.                                    *)
Latest == [q \in Queues |-> IF len[q] = 0 THEN 0 ELSE ring[q][Newest(q)]]
Abstract == INSTANCE LatestValue WITH latest <- Latest
ImplementsLatestValue == Abstract!Spec
=============================================================================
