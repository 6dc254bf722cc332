------------------------------- MODULE UbxRx -------------------------------
(***************************************************************************)
(* Receiving UBX frames from a u-blox receiver: the parser of the RP2350   *)
(* platform (gps.rs) and the one written out in the STM32 platform's       *)
(* ublox.rs. Both take the same steps per byte; they differ in which       *)
(* complete frames they take for a position (NAV-PVT).                     *)
(*                                                                         *)
(* Sizes are scaled: a byte is 0 .. Base - 1, Mu and Bee stand for 0xB5    *)
(* and 0x62, lengths are two bytes, checksums are sums modulo Base.        *)
(***************************************************************************)
EXTENDS Integers, Sequences, SequencesExt

CONSTANTS
  Base,        \* 256
  Platform,    \* "rp2350" or "stm32"
  MaxPayload,  \* UBX_MAX_PAYLOAD_BYTES
  PvtLen,      \* 92
  Frames,      \* what the receiver sends: <<class, id, payload>>
  Noise,       \* bytes that may take the place of a byte on the line
  MaxFaults    \* bound: bytes changed, lost or doubled

Mu == Base - 1
Bee == Base - 2
NavClass == 1
PvtId == 2

UbxRxAssumption ==
  /\ Base \in Nat /\ Base > 3 /\ MaxPayload \in Nat /\ PvtLen \in 1 .. MaxPayload /\ MaxFaults \in Nat
  /\ Platform \in {"rp2350", "stm32"} /\ Noise \subseteq 0 .. Base - 1

VARIABLES
  p,          \* index n, frame under way with its checksums
  line,       \* bytes of the frame under way
  faults,
  published,  \* payload taken for a position with the last byte, <<>> if none
  heard       \* history: the last bytes received

vars == <<p, line, faults, published, heard>>

Init ==
  /\ p = [n |-> 0, cl |-> 0, id |-> 0, length |-> 0, a |-> 0, b |-> 0,
          payload |-> [i \in 1 .. MaxPayload |-> 0]]
  /\ line = <<>> /\ faults = 0 /\ published = <<>> /\ heard = <<>>

-----------------------------------------------------------------------------
\* checksum of the sender: the sum of the bytes and the sum of its values so far
Total(numbers) == FoldLeft(LAMBDA sum, n : sum + n, 0, numbers)
Checksum(bytes) ==
  LET n == Len(bytes)
  IN  <<Total(bytes) % Base, Total([i \in 1 .. n |-> (n + 1 - i) * bytes[i]]) % Base>>

\* make_ubx_packet, make_packet
Encoded(f) ==
  LET body == <<f[1], f[2], Len(f[3]) % Base, Len(f[3]) \div Base>> \o f[3]
  IN  <<Mu, Bee>> \o body \o Checksum(body)

\* checksum_byte
Summed(q, c) == [q EXCEPT !.a = (@ + c) % Base, !.b = (@ + q.a + c) % Base]

\* reset_checksum
Started(q) == [q EXCEPT !.a = 0, !.b = 0]

TooLong(length) == length > MaxPayload

(* feed_byte. *)
Fed(q, c) ==
  LET n == IF c = Mu /\ q.n = 1 THEN 0 ELSE q.n
  IN  CASE n = 0 -> [q EXCEPT !.n = IF c = Mu THEN 1 ELSE 0]
        [] n = 1 -> [q EXCEPT !.n = IF c = Bee THEN 2 ELSE 0]
        [] n = 2 -> Summed([Started(q) EXCEPT !.n = 3, !.cl = c], c)
        [] n = 3 -> Summed([q EXCEPT !.n = 4, !.id = c], c)
        [] n = 4 -> Summed([q EXCEPT !.n = 5, !.length = c], c)
        [] n = 5 -> IF TooLong(q.length + Base * c)
                    THEN [q EXCEPT !.n = 0, !.length = @ + Base * c]
                    ELSE Summed([q EXCEPT !.n = 6, !.length = @ + Base * c], c)
        [] n > 5 /\ n < q.length + 6 ->
             Summed([q EXCEPT !.n = @ + 1, !.payload[n - 5] = c], c)
        [] n > 5 /\ n = q.length + 6 -> [q EXCEPT !.n = IF q.a = c THEN @ + 1 ELSE 0]
        [] n > 5 /\ n > q.length + 6 -> [q EXCEPT !.n = 0]

\* The same steps as written out in run of ublox.rs.
FedStm(q, c) == Fed(q, c)

\* The last checksum byte arrives and is right.
Completes(q, c) == q.n > 6 /\ q.n > q.length + 6 /\ q.b = c

(* Mutated form: the length is not looked at. *)
TakenRpAnyLength(q) == q.cl = NavClass /\ q.id = PvtId

\* Which complete frames are taken for NAV-PVT, and the bytes used then.
TakenRp(q) == q.cl = NavClass /\ q.id = PvtId /\ q.length = PvtLen
TakenStm(q) == q.cl = NavClass \/ q.id = PvtId
Taken(q) == IF Platform = "rp2350" THEN TakenRp(q) ELSE TakenStm(q)
NavPvt(q) == SubSeq(q.payload, 1, PvtLen)
NavPvtStm(q) == NavPvt(q)
Decoded(q) == IF Platform = "rp2350" THEN NavPvt(q) ELSE NavPvtStm(q)

-----------------------------------------------------------------------------
SendFrame(f) ==
  /\ line = <<>> /\ line' = Encoded(f) /\ published' = <<>>
  /\ UNCHANGED <<p, faults, heard>>

Keep == PvtLen + 8     \* bytes of a NAV-PVT frame

Hear(c) ==
  /\ p' = IF Platform = "rp2350" THEN Fed(p, c) ELSE FedStm(p, c)
  /\ published' = IF Completes(p, c) /\ Taken(p) THEN Decoded(p) ELSE published
  /\ heard' = SubSeq(Append(heard, c), IF Len(heard) < Keep THEN 1 ELSE 2, Len(heard) + 1)

Receive == line # <<>> /\ line' = Tail(line) /\ UNCHANGED faults /\ Hear(Head(line))

\* The line changes, loses or doubles a byte.
Disturb ==
  /\ line # <<>> /\ faults < MaxFaults /\ faults' = faults + 1
  /\ \/ \E c \in Noise : Hear(c) /\ line' = Tail(line)
     \/ line' = Tail(line) /\ UNCHANGED <<p, published, heard>>
     \/ Hear(Head(line)) /\ UNCHANGED line

Next == (\E f \in Frames : SendFrame(f)) \/ Receive \/ Disturb
Spec == Init /\ [][Next]_vars /\ WF_vars(\E f \in Frames : SendFrame(f)) /\ WF_vars(Receive)

-----------------------------------------------------------------------------
(* The index stays within the frame, and the frame within its buffer. *)
TypeOK ==
  /\ p.n \in 0 .. MaxPayload + 7
  /\ p.n > 5 => p.n <= p.length + 7 /\ p.length <= MaxPayload
  /\ DOMAIN p.payload = 1 .. MaxPayload

(* What is published as a position is the payload of one NAV-PVT frame,    *)
(* received whole and in one piece.                                        *)
PublishedIsPvt ==
  [][(published' # published /\ published' # <<>>) =>
       heard' = Encoded(<<NavClass, PvtId, published'>>)]_vars

(* However the line was disturbed, positions are published again. *)
PositionsReturn == []<>(published # <<>>)
=============================================================================
