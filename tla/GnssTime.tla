------------------------------ MODULE GnssTime ------------------------------
(***************************************************************************)
(* The time stamp of a position on the STM32 platform: the PPS task        *)
(* signals the edge at every full second, the GPS task stamps the end of   *)
(* a frame and adds the receiver's fraction of a second to the last edge   *)
(* (ublox.rs, pps.rs, rosflight_c_gnss_timestamp).                         *)
(*                                                                         *)
(* Time is counted in ticks of which Second make a second; epochs fall on  *)
(* multiples of Period.                                                    *)
(***************************************************************************)
EXTENDS Integers

CONSTANTS
  Second,     \* ticks of a second
  Period,     \* nav_period_ms
  Late,       \* ticks a frame ends after its epoch at most
  Typical,    \* the 22 ms taken off without a usable edge
  Preempted,  \* ticks the GPS task may be held up between stamp and edge
  MaxSecs     \* bound: seconds

GnssTimeAssumption ==
  /\ Second \in Nat /\ Period \in 1 .. Second /\ Second % Period = 0 /\ Late \in 2 .. Period - 1
  /\ Typical \in 0 .. Late /\ Preempted \in Nat /\ MaxSecs \in Nat

VARIABLES
  now,
  signal,     \* PPS_SIGNAL, 0 if not signalled
  pps,        \* pps_timestamp, 0 before the first edge
  frame,      \* epoch of the frame on the line, -1 if none
  stage,      \* GPS task: "top" of its loop, "wait" for bytes, "done" with a frame
  done,       \* end_of_packet_timestamp
  out         \* published: stamp, seconds, nanos, and the epoch it stands for

vars == <<now, signal, pps, frame, stage, done, out>>

Init ==
  /\ now = 1 /\ signal = 0 /\ pps = 0 /\ frame = -1 /\ stage = "top" /\ done = 0
  /\ out = [stamp |-> 0, sec |-> 0, nano |-> 0, epoch |-> 0]

-----------------------------------------------------------------------------
(* Second and fraction the receiver reports: an epoch computed just before *)
(* a full second counts for it, with a negative fraction.                  *)
Fraction(epoch) ==
  IF epoch % Second = Second - 1 THEN <<epoch \div Second + 1, -1>>
  ELSE <<epoch \div Second, epoch % Second>>

(* Mutated form: an edge after the frame is used too. *)
GnssTimestampAnyEdge(edge, end, nanos, valid) ==
  IF edge # 0 /\ valid THEN edge + nanos ELSE end - Typical

\* rosflight_c_gnss_timestamp
GnssTimestamp(edge, end, nanos, valid) ==
  IF edge # 0 /\ edge < end /\ valid THEN edge + nanos ELSE end - Typical

\* The second and fraction as published.
Utc(sec, nano) == IF nano < 0 THEN <<sec - 1, nano + Second>> ELSE <<sec, nano>>

\* Time passes; an edge at every full second is signalled by the PPS task.
\* A frame is not late, and the GPS task not held up, for longer than assumed.
Tick ==
  /\ now < MaxSecs * Second
  /\ frame # -1 /\ stage # "done" => now < frame + Late
  /\ stage = "done" => now < done + Preempted
  /\ now' = now + 1
  /\ signal' = IF (now + 1) % Second = 0 THEN now + 1 ELSE signal
  /\ UNCHANGED <<pps, frame, stage, done, out>>

\* The receiver computes an epoch, or has just done so.
Epoch ==
  /\ frame = -1 /\ stage # "done"
  /\ now % Period = 0 \/ now % Second = Second - 1    \* the receiver's clock is a little early
  /\ now > out.epoch /\ frame' = now
  /\ UNCHANGED <<now, signal, pps, stage, done, out>>

EdgeTaken == IF signal # 0 THEN signal ELSE pps

\* Top of the loop: the most recent edge.
LoopTop ==
  /\ stage = "top" /\ stage' = "wait"
  /\ pps' = EdgeTaken /\ signal' = 0
  /\ UNCHANGED <<now, frame, done, out>>

FrameEnds ==
  /\ stage = "wait" /\ frame # -1 /\ now >= frame + 2
  /\ stage' = "done" /\ done' = now
  /\ UNCHANGED <<now, signal, pps, frame, out>>

\* The edge is looked for once more before the packet is published.
Publish ==
  /\ stage = "done" /\ stage' = "top"
  /\ pps' = EdgeTaken /\ signal' = 0
  /\ \E f \in {Fraction(frame)}, valid \in BOOLEAN :
       LET utc == Utc(f[1], f[2])
       IN  out' = [stamp |-> GnssTimestamp(EdgeTaken, done, f[2], valid), sec |-> utc[1], nano |-> utc[2],
                   epoch |-> frame]
  /\ frame' = -1
  /\ UNCHANGED <<now, done>>

\* The bound is reached.
Stop == now = MaxSecs * Second /\ UNCHANGED vars

Next == Tick \/ Epoch \/ LoopTop \/ FrameEnds \/ Publish \/ Stop
Spec == Init /\ [][Next]_vars

-----------------------------------------------------------------------------
(* Edges lie on full seconds and never in the future. *)
TypeOK ==
  /\ pps % Second = 0 /\ signal % Second = 0
  /\ pps <= now /\ signal <= now /\ stage \in {"top", "wait", "done"} /\ out.nano < Second

(* The stamp is off by less than a navigation period, whichever edge the   *)
(* tasks meet: never by the second between two edges.                      *)
StampNearEpoch ==
  out.epoch > 0 => out.stamp - out.epoch < Period /\ out.epoch - out.stamp < Period

(* Second and fraction give the epoch, with a fraction of 0 or more. *)
UtcKept == out.sec * Second + out.nano = out.epoch /\ out.nano >= 0
=============================================================================
