------------------------------ MODULE MCRp2350 ------------------------------
(* The two cores of the RP2350 and the parsers of its serial lines, one at  *)
(* a time: the driver tasks' rings, the mailbox (down, up, and its          *)
(* fairness), the MAVLink receiver and the GNSS parser. They share no       *)
(* state.                                                                   *)
EXTENDS RpProducers, TLC

CONSTANT Subjects   \* the subjects that a run looks at

\* the constants of the components
CONSTANTS
  UbxPlatform, UbxFaults

VARIABLE subject    \* the one that moves, chosen at the start

\* the mailbox between the cores
VARIABLES
  box_crit, box_tele, box_ready, box_stats, box_count0, box_count1,
  box_sent, box_newest, box_wire, box_rx, box_heard, box_stored,
  box_crowded, box_critHeard
mailboxVars ==
  <<box_crit, box_tele, box_ready, box_stats, box_count0, box_count1,
    box_sent, box_newest, box_wire, box_rx, box_heard, box_stored,
    box_crowded, box_critHeard>>

\* the MAVLink receiver
VARIABLES
  mav_buf, mav_st, mav_line, mav_faults, mav_stored, mav_heard
mavlinkVars ==
  <<mav_buf, mav_st, mav_line, mav_faults, mav_stored, mav_heard>>

\* the GNSS receiver's parser
VARIABLES
  ubx_p, ubx_line, ubx_faults, ubx_published, ubx_heard
ubxVars ==
  <<ubx_p, ubx_line, ubx_faults, ubx_published, ubx_heard>>

suiteVars == <<subject, vars, mailboxVars, mavlinkVars, ubxVars>>

-----------------------------------------------------------------------------
MCCap == [q \in Queues |-> IF q = "imu" THEN 3 ELSE 2]
MCFaults == {"id", "gyodr"}

(* MAVLink ids 0 and 1 are known, 2 is not; 4 is the start byte. *)
MCExtra == (0 :> 1) @@ (1 :> 3)
MCMavlinkFrames == {<<0, <<>>>>, <<1, <<1, 0>>>>}
MCFramesWithStart == {<<0, <<>>>>, <<1, <<4, 0>>>>, <<2, <<1>>>>}

(* NAV-PVT, a short NAV-PVT, another NAV frame and an acknowledgement *)
MCMixed == {<<1, 2, <<3, 0>>>>, <<1, 2, <<1>>>>, <<1, 1, <<1>>>>, <<2, 1, <<4>>>>}
MCPvt == {<<1, 2, <<3, 0>>>>, <<1, 2, <<0, 1>>>>}

Down == INSTANCE Mailbox WITH
  Sent <- {"Status", "Imu", "RcRaw", "RcChannels"}, Heard <- {},
  CritCap <- 2, RxCap <- 1, Wrap <- 4, MaxSent <- 3, MaxHeard <- 0,
  crit <- box_crit, tele <- box_tele, ready <- box_ready,
  stats <- box_stats, count0 <- box_count0, count1 <- box_count1,
  sent <- box_sent, newest <- box_newest, wire <- box_wire, rx <- box_rx,
  heard <- box_heard, stored <- box_stored, crowded <- box_crowded,
  critHeard <- box_critHeard

Served == INSTANCE Mailbox WITH
  Sent <- {"Imu", "Baro", "Attitude"}, Heard <- {}, CritCap <- 1,
  RxCap <- 1, Wrap <- 2, MaxSent <- 1, MaxHeard <- 0, crit <- box_crit,
  tele <- box_tele, ready <- box_ready, stats <- box_stats,
  count0 <- box_count0, count1 <- box_count1, sent <- box_sent,
  newest <- box_newest, wire <- box_wire, rx <- box_rx, heard <- box_heard,
  stored <- box_stored, crowded <- box_crowded, critHeard <- box_critHeard

Up == INSTANCE Mailbox WITH
  Sent <- {}, Heard <- {"Timesync", "Offboard", "Other"}, CritCap <- 1,
  RxCap <- 3, Wrap <- 2, MaxSent <- 0, MaxHeard <- 6, crit <- box_crit,
  tele <- box_tele, ready <- box_ready, stats <- box_stats,
  count0 <- box_count0, count1 <- box_count1, sent <- box_sent,
  newest <- box_newest, wire <- box_wire, rx <- box_rx, heard <- box_heard,
  stored <- box_stored, crowded <- box_crowded, critHeard <- box_critHeard

Parse == INSTANCE MavlinkRx WITH
  Start <- 4, Margin <- 9, Frames <- MCFramesWithStart, Noise <- {0, 4},
  Loses <- TRUE, Framed <- TRUE, MaxFaults <- 1, Extra <- MCExtra,
  buf <- mav_buf, st <- mav_st, line <- mav_line, faults <- mav_faults,
  stored <- mav_stored, heard <- mav_heard

Resync == INSTANCE MavlinkRx WITH
  Start <- 4, Margin <- 9, Frames <- MCMavlinkFrames, Noise <- {0, 4},
  Loses <- TRUE, Framed <- FALSE, MaxFaults <- 2, Extra <- MCExtra,
  buf <- mav_buf, st <- mav_st, line <- mav_line, faults <- mav_faults,
  stored <- mav_stored, heard <- mav_heard

Ubx == INSTANCE UbxRx WITH
  Base <- 6, Platform <- UbxPlatform, MaxPayload <- 3, PvtLen <- 2,
  Frames <- MCMixed, Noise <- {0, 4, 5}, MaxFaults <- UbxFaults, p <- ubx_p,
  line <- ubx_line, faults <- ubx_faults, published <- ubx_published,
  heard <- ubx_heard

UbxReturns == INSTANCE UbxRx WITH
  Base <- 6, Platform <- UbxPlatform, MaxPayload <- 3, PvtLen <- 2,
  Frames <- MCPvt, Noise <- {0, 4, 5}, MaxFaults <- 2, p <- ubx_p,
  line <- ubx_line, faults <- ubx_faults, published <- ubx_published,
  heard <- ubx_heard

-----------------------------------------------------------------------------
(* Every other component stands still. *)
Still(me) ==
  /\ subject' = subject
  /\ IF me = "producers" THEN TRUE ELSE UNCHANGED vars
  /\ IF me = "mailbox" THEN TRUE ELSE UNCHANGED mailboxVars
  /\ IF me = "mavlink" THEN TRUE ELSE UNCHANGED mavlinkVars
  /\ IF me = "ubx" THEN TRUE ELSE UNCHANGED ubxVars

ASSUME Down!MailboxAssumption
ASSUME Served!MailboxAssumption
ASSUME Up!MailboxAssumption
ASSUME Parse!MavlinkRxAssumption
ASSUME Resync!MavlinkRxAssumption
ASSUME Ubx!UbxRxAssumption
ASSUME UbxReturns!UbxRxAssumption

SuiteInit ==
  /\ subject \in Subjects
  /\ Init /\ Down!Init /\ Parse!Init /\ Ubx!Init

SuiteNext ==
  \/ subject = "producers" /\ Next /\ Still("producers")
  \/ subject = "down" /\ Down!Next /\ Still("mailbox")
  \/ subject = "served" /\ Served!Next /\ Still("mailbox")
  \/ subject = "up" /\ Up!Next /\ Still("mailbox")
  \/ subject = "parse" /\ Parse!Next /\ Still("mavlink")
  \/ subject = "resync" /\ Resync!Next /\ Still("mavlink")
  \/ subject = "ubx" /\ Ubx!Next /\ Still("ubx")
  \/ subject = "ubx_returns" /\ UbxReturns!Next /\ Still("ubx")

(* The fairness of the subjects that promise progress: core 1's loop goes    *)
(* on, the far end keeps sending and what arrives is read.                   *)
SuiteSpec ==
  /\ SuiteInit /\ [][SuiteNext]_suiteVars
  /\ WF_suiteVars(\/ subject = "served" /\ Served!UartTx /\ Still("mailbox")
                  \/ subject = "resync" /\ Still("mavlink")
                       /\ \E m \in MCMavlinkFrames : Resync!SendFrame(m)
                  \/ subject = "ubx_returns" /\ Still("ubx")
                       /\ \E f \in MCPvt : UbxReturns!SendFrame(f))
  /\ WF_suiteVars(\/ subject = "served" /\ Served!Count0 /\ Still("mailbox")
                  \/ subject = "resync" /\ Resync!Receive /\ Still("mavlink")
                  \/ subject = "ubx_returns" /\ UbxReturns!Receive /\ Still("ubx"))
  /\ WF_suiteVars(subject = "served" /\ Served!Count1 /\ Still("mailbox"))

-----------------------------------------------------------------------------
(* ImplementsLatestValue and GapsCounted are RpProducers' own. *)

(* The MAVLink receiver (comms/veloxity_mavlink/src/parser.rs): its buffer is *)
(* what was received last, through every resynchronisation.                  *)
BufferIsWhole == subject = "parse" => Parse!TypeOK /\ Parse!BufferIsReceived

(* The link between the flight loop and the line. The mailbox (comms.rs): a  *)
(* stream that waits stands in the ready queue once, with its newest         *)
(* message; nothing disappears uncounted; critical messages come first and   *)
(* in order; what is received is neither lost nor stored out of order; the   *)
(* numbers missing from the rings are counted. The receiver: its buffer is   *)
(* one piece of the line.                                                    *)
LinkKeeps ==
  /\ [](TypeOK /\ GapsCounted)
  /\ [](subject = "down" =>
          Down!TypeOK /\ Down!ReadyIsPending /\ Down!NewestWaits /\ Down!StatsBalance)
  /\ [](subject = "up" => Up!TypeOK /\ Up!CriticalFramesKept)
  /\ Down!CriticalFirstInOrder
  /\ Up!InOrderUnlessCrowded
  /\ []BufferIsWhole

(* A position that is published is a NAV-PVT frame received whole            *)
(* (gps.rs of the RP2350, ublox.rs of the STM32).                            *)
PublishedIsPvt == Ubx!PublishedIsPvt

(* And the parser's index stays within its buffer (gps.rs).                  *)
PositionsAreSent == [](subject = "ubx" => Ubx!TypeOK) /\ PublishedIsPvt

(* What must come in the end: streams are sent unless critical messages keep *)
(* coming (comms.rs), frames are stored and positions published again after  *)
(* any disturbances (parser.rs, gps.rs).                                     *)
LinesRecover ==
  /\ subject = "served" => Served!StreamsServed
  /\ subject = "resync" => Resync!Resynchronises
  /\ subject = "ubx_returns" => UbxReturns!PositionsReturn
=============================================================================
