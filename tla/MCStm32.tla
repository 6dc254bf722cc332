------------------------------ MODULE MCStm32 -------------------------------
(* The tasks of the STM32 boards, one component at a time: the sensor       *)
(* drivers of the boards, SBUS, the companion's serial pipes, the u-blox    *)
(* receiver and the time of its positions. They share no state.             *)
EXTENDS SensorDrivers

CONSTANT Subjects   \* the subjects that a run looks at

\* the constants of the components
CONSTANTS
  Capacity, MaxRcFrames, Ports, Retries, Factory, Second, Period, Late,
  Typical, Preempted, MaxSecs, FirstYear, FirstDay, LastYear

VARIABLE subject    \* the one that moves, chosen at the start

\* the SBUS task and the RC queue
VARIABLES
  sbus_sent, sbus_buffer, sbus_whole, sbus_rcChan, sbus_late, sbus_pc,
  sbus_packet, sbus_queue, sbus_got
sbusVars ==
  <<sbus_sent, sbus_buffer, sbus_whole, sbus_rcChan, sbus_late, sbus_pc,
    sbus_packet, sbus_queue, sbus_got>>

\* the byte pipes of the companion link
VARIABLES
  pipe_port, pipe_frame, pipe_off, pipe_sending, pipe_accepted,
  pipe_rejected, pipe_partial, pipe_txPipe, pipe_hand, pipe_wire, pipe_torn,
  pipe_up, pipe_serving, pipe_rxServing, pipe_host, pipe_rxHand,
  pipe_rxPipe, pipe_seen, pipe_breaks
pipeVars ==
  <<pipe_port, pipe_frame, pipe_off, pipe_sending, pipe_accepted,
    pipe_rejected, pipe_partial, pipe_txPipe, pipe_hand, pipe_wire,
    pipe_torn, pipe_up, pipe_serving, pipe_rxServing, pipe_host,
    pipe_rxHand, pipe_rxPipe, pipe_seen, pipe_breaks>>

\* bringing up the u-blox receiver
VARIABLES
  ubx_alive, ubx_rcv, ubx_emits, ubx_set, ubx_host, ubx_phase, ubx_try,
  ubx_k, ubx_synced, ubx_unheard
ubxVars ==
  <<ubx_alive, ubx_rcv, ubx_emits, ubx_set, ubx_host, ubx_phase, ubx_try,
    ubx_k, ubx_synced, ubx_unheard>>

\* the time stamps of positions
VARIABLES
  time_now, time_signal, time_pps, time_frame, time_stage, time_done,
  time_out
timeVars ==
  <<time_now, time_signal, time_pps, time_frame, time_stage, time_done,
    time_out>>

\* the days of positions
VARIABLES
  date_y, date_m, date_d, date_count
dateVars ==
  <<date_y, date_m, date_d, date_count>>

suiteVars == <<subject, vars, sbusVars, pipeVars, ubxVars, timeVars, dateVars>>

-----------------------------------------------------------------------------
(* Boards with and without counters and with both flight loops. *)
MCBoards ==
  {<<{"dps", "ist"}, TRUE, TRUE>>, <<{"bmi", "ms"}, FALSE, TRUE>>, <<{"bmi", "llv"}, TRUE, TRUE>>,
   <<{"dps", "iis"}, TRUE, FALSE>>, <<{"adis", "dlhr"}, TRUE, FALSE>>}

(* What the receiver sends when it comes up. *)
MCFactory == {"MonHw", "NavStatus", "NavVelEcef"}

(* The ports of the companion link, and the receiving side of one of them. *)
MCUsbPort ==
  [FrameLen |-> 3, PipeSize |-> 4, RxPipeSize |-> 1, PacketSize |-> 2, Usb |-> TRUE, Counted |-> TRUE,
   MaxFrames |-> 3, MaxRx |-> 0, MaxBreaks |-> 2]
MCUartPort ==
  [FrameLen |-> 3, PipeSize |-> 5, RxPipeSize |-> 1, PacketSize |-> 2, Usb |-> FALSE, Counted |-> FALSE,
   MaxFrames |-> 4, MaxRx |-> 0, MaxBreaks |-> 1]
MCRxPort ==
  [FrameLen |-> 2, PipeSize |-> 2, RxPipeSize |-> 2, PacketSize |-> 2, Usb |-> TRUE, Counted |-> FALSE,
   MaxFrames |-> 1, MaxRx |-> 4, MaxBreaks |-> 2]
MCPorts == {MCUsbPort, MCUartPort, MCRxPort}

Sbus == INSTANCE SbusReceiver WITH
  Capacity <- Capacity, MaxFrames <- MaxRcFrames, sent <- sbus_sent,
  buffer <- sbus_buffer, whole <- sbus_whole, rcChan <- sbus_rcChan,
  late <- sbus_late, pc <- sbus_pc, packet <- sbus_packet,
  queue <- sbus_queue, got <- sbus_got

Pipe == INSTANCE SerialPipe WITH
  Ports <- Ports, port <- pipe_port, frame <- pipe_frame, off <- pipe_off,
  sending <- pipe_sending, accepted <- pipe_accepted,
  rejected <- pipe_rejected, partial <- pipe_partial, txPipe <- pipe_txPipe,
  hand <- pipe_hand, wire <- pipe_wire, torn <- pipe_torn, up <- pipe_up,
  serving <- pipe_serving, rxServing <- pipe_rxServing, host <- pipe_host,
  rxHand <- pipe_rxHand, rxPipe <- pipe_rxPipe, seen <- pipe_seen,
  breaks <- pipe_breaks

M8 == INSTANCE UbxConfig WITH
  Protocol <- "M8", Retries <- Retries, Factory <- Factory,
  alive <- ubx_alive, rcv <- ubx_rcv, emits <- ubx_emits, set <- ubx_set,
  host <- ubx_host, phase <- ubx_phase, try <- ubx_try, k <- ubx_k,
  synced <- ubx_synced, unheard <- ubx_unheard

M9 == INSTANCE UbxConfig WITH
  Protocol <- "M9", Retries <- Retries, Factory <- Factory,
  alive <- ubx_alive, rcv <- ubx_rcv, emits <- ubx_emits, set <- ubx_set,
  host <- ubx_host, phase <- ubx_phase, try <- ubx_try, k <- ubx_k,
  synced <- ubx_synced, unheard <- ubx_unheard

Time == INSTANCE GnssTime WITH
  Second <- Second, Period <- Period, Late <- Late, Typical <- Typical,
  Preempted <- Preempted, MaxSecs <- MaxSecs, now <- time_now,
  signal <- time_signal, pps <- time_pps, frame <- time_frame,
  stage <- time_stage, done <- time_done, out <- time_out

Date == INSTANCE GnssDate WITH
  FirstYear <- FirstYear, FirstDay <- FirstDay, LastYear <- LastYear,
  y <- date_y, m <- date_m, d <- date_d, count <- date_count

-----------------------------------------------------------------------------
(* Every other component stands still. *)
Still(me) ==
  /\ subject' = subject
  /\ IF me = "drivers" THEN TRUE ELSE UNCHANGED vars
  /\ IF me = "sbus" THEN TRUE ELSE UNCHANGED sbusVars
  /\ IF me = "pipe" THEN TRUE ELSE UNCHANGED pipeVars
  /\ IF me = "ubx" THEN TRUE ELSE UNCHANGED ubxVars
  /\ IF me = "time" THEN TRUE ELSE UNCHANGED timeVars
  /\ IF me = "date" THEN TRUE ELSE UNCHANGED dateVars

ASSUME RcAssumption == Sbus!SbusAssumption
ASSUME PortsAssumption == Pipe!PipeAssumption
ASSUME UbxAssumption == M8!UbxConfigAssumption /\ M9!UbxConfigAssumption
ASSUME TimeAssumption == Time!GnssTimeAssumption
ASSUME DateAssumption == Date!GnssDateAssumption

SuiteInit ==
  /\ subject \in Subjects
  /\ Init /\ (subject # "drivers" => boardVars = CHOOSE b \in Boards : TRUE)
  /\ Sbus!Init
  /\ Pipe!Init /\ (subject # "pipe" => pipe_port = CHOOSE p \in Ports : TRUE)
  /\ M8!Init /\ Time!Init /\ Date!Init
  /\ subject \notin {"m8", "m9"} => ubx_alive /\ ubx_rcv = 9600

(* Every frame and byte of the bounds is through: a pipe may stop here only. *)
Sent ==
  /\ subject = "pipe"
  /\ pipe_frame = pipe_port.MaxFrames /\ pipe_host = pipe_port.MaxRx /\ ~ pipe_sending
  /\ pipe_txPipe = <<>> /\ pipe_hand = <<>> /\ pipe_rxHand = <<>> /\ pipe_rxPipe = <<>>
  /\ UNCHANGED suiteVars

SuiteNext ==
  \/ subject = "drivers" /\ Next /\ Still("drivers")
  \/ subject = "sbus" /\ Sbus!Next /\ Still("sbus")
  \/ subject = "pipe" /\ Pipe!Next /\ Still("pipe")
  \/ subject = "m8" /\ M8!Next /\ Still("ubx")
  \/ subject = "m9" /\ M9!Next /\ Still("ubx")
  \/ subject = "time" /\ Time!Next /\ Still("time")
  \/ subject = "date" /\ Date!Next /\ Still("date")
  \/ Sent

(* The fairness of the subjects that promise progress, one conjunct for each *)
(* of their fair actions. One stands for several where they exclude each     *)
(* other until they are taken.                                               *)
Barometer == SetupDps \/ CommandDps \/ CollectPressure \/ CollectTemperature
Compass   == SetupIis \/ CommandIis \/ CollectIis
SbusTask  == Sbus!ReadNoise \/ Sbus!PublishRc \/ Sbus!CheckTimeout \/ Sbus!PublishLoss

SuiteSpec ==
  /\ SuiteInit /\ [][SuiteNext]_suiteVars
  /\ WF_suiteVars(\/ subject = "drivers" /\ Barometer /\ UNCHANGED boardVars /\ Still("drivers")
                  \/ subject = "sbus" /\ SbusTask /\ Still("sbus")
                  \/ subject = "pipe" /\ UNCHANGED pipe_port /\ Pipe!ProcessBytes /\ Still("pipe")
                  \/ subject = "m8" /\ (M8!TryRate \/ M8!Configure \/ M8!Read) /\ Still("ubx"))
  /\ WF_suiteVars(\/ subject = "drivers" /\ Compass /\ UNCHANGED boardVars /\ Still("drivers")
                  \/ subject = "sbus" /\ Sbus!TryReceive /\ Still("sbus")
                  \/ subject = "pipe" /\ UNCHANGED pipe_port /\ Pipe!SerialRxRead /\ Still("pipe"))
  /\ WF_suiteVars(subject = "pipe" /\ UNCHANGED pipe_port /\ Pipe!TryWrite /\ Still("pipe"))

-----------------------------------------------------------------------------

(* The sensor tasks (bmi08x.rs to dlhrl20g.rs): a reading published as      *)
(* good was not published before, and a task that gave up is heard to have  *)
(* failed.                                                                  *)
DriversTellTheTruth == TypeOK /\ OkIsNewMeasurement /\ FailedStartHeard

(* Channels and packets of the RC receiver stay in order (sbus.rs), and so   *)
(* do the bytes of the companion link, of which accepted frames are whole    *)
(* and, on the USB port with the diagnostics, cut ones are counted           *)
(* (board.rs of both boards, vcp.rs, telem.rs).                              *)
SerialInOrder ==
  /\ Sbus!NeverOlder
  /\ [](subject = "sbus" => Sbus!TypeOK /\ Sbus!FrontIsNewer)
  /\ [](subject = "pipe" =>
          /\ Pipe!TypeOK /\ Pipe!NothingReordered /\ Pipe!AcceptedWhole
          /\ Pipe!CutsCounted /\ Pipe!ReceivedWhole)

(* The u-blox receiver (ublox.rs): the ends agree on the rate, and it sends  *)
(* what it was configured for.                                               *)
ReceiverConfigured ==
  /\ subject = "m8" =>
       M8!TypeOK /\ M8!SyncedAgree /\ M8!ReadsAtDesired /\ M8!ConfiguredWhenHeard
  /\ subject = "m9" => M9!ConfiguredWhenHeard

(* A position carries the moment of its epoch, in the board's time and in    *)
(* UTC (ublox.rs, pps.rs), and the right day (the RP2350's gps.rs).          *)
PositionsKeepTime ==
  /\ subject = "time" => Time!TypeOK /\ Time!StampNearEpoch /\ Time!UtcKept
  /\ subject = "date" => Date!DayIsCounted

(* No task waits for ever: a barometer and a compass report (dps310.rs,      *)
(* iis2mdc.rs), a lost link is heard (sbus.rs), received bytes are read      *)
(* (vcp.rs), the receiver's set-up ends (ublox.rs).                          *)
TasksComeRound ==
  /\ subject = "drivers" => KeepsReporting
  /\ subject = "sbus" => Sbus!LossHeard
  /\ subject = "pipe" => Pipe!ReceivedServed
  /\ subject = "m8" => M8!ComesToRead
=============================================================================
