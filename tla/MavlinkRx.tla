----------------------------- MODULE MavlinkRx -----------------------------
(***************************************************************************)
(* The receiving side of the MAVLink link (parser.rs, link.rs): a parser   *)
(* is fed byte by byte, looks for a start byte, reads header, payload and  *)
(* checksum into a buffer, and after a wrong checksum goes on with the     *)
(* next start byte it finds in the buffer. A frame that checks out is      *)
(* decoded and stored as a message.                                        *)
(*                                                                         *)
(* Sizes are scaled: the header is a start byte, the length and the id, a  *)
(* byte is 0 .. Start, and as in the code the start byte is also the       *)
(* length of the longest payload. The checksum is two bytes that depend on *)
(* everything between start byte and checksum and on the id's extra byte.  *)
(***************************************************************************)
EXTENDS Integers, Sequences, SequencesExt

CONSTANTS
  Start,     \* 0xFE
  Margin,    \* bytes of the buffer beyond the longest frame
  Frames,    \* payloads the companion sends: <<id, payload>>
  Noise,     \* bytes that may take the place of a byte on the line
  Loses,     \* the line may lose bytes
  Framed,    \* the board hands over whole frames as well (serial_rx_frame_read)
  MaxFaults, \* bound: bytes changed or lost
  Extra      \* crc_extra of the ids that are known

MavlinkRxAssumption ==
  /\ Start \in Nat \ {0} /\ Margin \in Nat /\ MaxFaults \in Nat /\ {Loses, Framed} \subseteq BOOLEAN
  /\ Noise \subseteq 0 .. Start

VARIABLES
  buf,        \* frame_buf[..frame_pos]
  st,         \* ParseState
  line,       \* bytes of the frame under way
  faults,     \* bytes changed or lost so far
  stored,     \* the message stored last
  heard       \* history: the last bytes received

vars == <<buf, st, line, faults, stored, heard>>

Header == 3
Capacity == Header + Start + 2 + Margin     \* MAX_FRAME_SIZE_BYTES
None == <<>>

Init ==
  /\ buf = <<>> /\ st = "start" /\ line = <<>> /\ faults = 0
  /\ stored = None /\ heard = <<>>

-----------------------------------------------------------------------------
(* calculate_crc: over length, id and payload, then the id's extra byte,   *)
(* or none for an unknown id.                                              *)
ExtraOf(id) == IF id \in DOMAIN Extra THEN Extra[id] ELSE 0

Crc(bytes) ==
  LET sum == FoldSeq(LAMBDA b, c : b + 2 * c, 1, Append(bytes, ExtraOf(bytes[2])))
  IN  <<sum % (Start + 1), (sum \div (Start + 1)) % (Start + 1)>>

\* encode_frame of the sender
Encoded(m) ==
  LET body == <<Len(m[2]), m[1]>> \o m[2] IN <<Start>> \o body \o Crc(body)

\* The checksum over the length the header gives, against the last two bytes.
ChecksOut(b) ==
  Crc(SubSeq(b, 2, Header + b[2])) = SubSeq(b, Len(b) - 1, Len(b))

\* process_mavlink_frame: the decoder reads a frame at the front of the bytes.
Decoded(b) ==
  LET n == Header + b[2] + 2
  IN  IF Len(b) >= n /\ ChecksOut(SubSeq(b, 1, n)) /\ b[3] \in DOMAIN Extra
      THEN <<b[3], SubSeq(b, Header + 1, Header + b[2])>> ELSE None

\* The first start byte after the one the buffer began with, 0 if none.
StartInside(b) ==
  IF \E i \in 2 .. Len(b) : b[i] = Start
  THEN CHOOSE i \in 2 .. Len(b) : b[i] = Start /\ \A j \in 2 .. i - 1 : b[j] # Start
  ELSE 0

(* Mutated form: the byte received last is left behind. *)
ResyncedLessOne(b) ==
  IF StartInside(b) = 0 THEN [buf |-> <<>>, st |-> "start"]
  ELSE [buf |-> SubSeq(b, StartInside(b), Len(b) - 1), st |-> "header"]

Resynced(b) ==
  IF StartInside(b) = 0 THEN [buf |-> <<>>, st |-> "start"]
  ELSE [buf |-> SubSeq(b, StartInside(b), Len(b)), st |-> "header"]

(* Mutated form: a payload is awaited though its length is 0. *)
AfterHeaderAlwaysPayload(b) == IF Len(b) < Header THEN "header" ELSE "payload"

\* The state after the header or a payload byte.
AfterHeader(b) == IF Len(b) < Header THEN "header" ELSE IF b[2] = 0 THEN "crc2" ELSE "payload"
AfterPayload(b) == IF Len(b) - Header >= b[2] THEN "crc2" ELSE "payload"

\* feed_byte. A full buffer is an index out of bounds: the firmware stops.
FeedByte(byte) ==
  LET b == Append(buf, byte)
  IN  CASE st = "start" ->
             /\ IF byte = Start THEN buf' = b /\ st' = "header" ELSE UNCHANGED <<buf, st>>
             /\ UNCHANGED stored
        [] st # "start" /\ Len(buf) = Capacity ->
             st' = "stopped" /\ UNCHANGED <<buf, stored>>
        [] st = "header" /\ Len(buf) < Capacity ->
             buf' = b /\ st' = AfterHeader(b) /\ UNCHANGED stored
        [] st = "payload" /\ Len(buf) < Capacity ->
             buf' = b /\ st' = AfterPayload(b) /\ UNCHANGED stored
        [] st = "crc2" /\ Len(buf) < Capacity ->
             buf' = b /\ st' = "crc1" /\ UNCHANGED stored
        [] st = "crc1" /\ Len(buf) < Capacity ->
             IF ChecksOut(b)
             THEN /\ buf' = <<>> /\ st' = "start"
                  /\ stored' = IF Decoded(b) = None THEN stored ELSE Decoded(b)
             ELSE /\ buf' = Resynced(b).buf /\ st' = Resynced(b).st /\ UNCHANGED stored

Heard(byte) ==
  heard' = SubSeq(Append(heard, byte), IF Len(heard) < Capacity THEN 1 ELSE 2, Len(heard) + 1)

-----------------------------------------------------------------------------
SendFrame(m) ==
  /\ line = <<>> /\ line' = Encoded(m) /\ stored' = None
  /\ UNCHANGED <<buf, st, faults, heard>>

Receive ==
  /\ line # <<>> /\ st # "stopped"
  /\ line' = Tail(line)
  /\ \E byte \in {Head(line)} \cup (IF faults < MaxFaults THEN Noise ELSE {}) :
       /\ FeedByte(byte) /\ Heard(byte)
       /\ faults' = IF byte = Head(line) THEN faults ELSE faults + 1

\* serial_rx_frame_read: no parser, the frame is decoded as it is.
ReceiveFrame ==
  /\ Framed /\ \E m \in Frames : line = Encoded(m)
  /\ line' = <<>>
  /\ stored' = Decoded(line)
  /\ UNCHANGED <<buf, st, faults, heard>>

Lose ==
  /\ Loses /\ faults < MaxFaults /\ line # <<>>
  /\ line' = Tail(line) /\ faults' = faults + 1
  /\ UNCHANGED <<buf, st, stored, heard>>

Next == (\E m \in Frames : SendFrame(m)) \/ Receive \/ ReceiveFrame \/ Lose

\* The companion keeps sending, and bytes that arrive are read.
Spec == Init /\ [][Next]_vars /\ WF_vars(\E m \in Frames : SendFrame(m)) /\ WF_vars(Receive)

-----------------------------------------------------------------------------
(* The parser's buffer, state and messages. *)
TypeOK ==
  /\ Len(buf) <= Capacity /\ st \in {"start", "header", "payload", "crc2", "crc1", "stopped"}
  /\ st = "start" <=> buf = <<>>

(* Through every resynchronisation the buffer holds bytes as they were     *)
(* received last: no message is put together from separate pieces.         *)
BufferIsReceived ==
  st # "stopped" => buf = SubSeq(heard, Len(heard) - Len(buf) + 1, Len(heard))

(* However the line was disturbed, the companion is heard again: frames    *)
(* that follow undisturbed are stored.                                     *)
Resynchronises == []<>(stored # None)

=============================================================================
