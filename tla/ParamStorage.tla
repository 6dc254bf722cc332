---------------------------- MODULE ParamStorage ----------------------------
(***************************************************************************)
(* Parameters on the SD card (params/storage.rs, sd_card.rs and the board  *)
(* of the Pixracer Pro): the main loop posts a read or a write in a signal *)
(* and spins for the answer until a timeout; the SD task, on an interrupt  *)
(* executor, reads or writes the image block by block and posts the answer *)
(* with the id of the request. Power may fail at any moment.               *)
(*                                                                         *)
(* An image has one block for the header with the firmware version (block  *)
(* 0) and one per stored parameter; the last block also holds the CRC,     *)
(* which stands for the whole image it was computed from. One parameter    *)
(* more exists only in this firmware and is not part of the image.         *)
(***************************************************************************)
EXTENDS Integers

CONSTANTS
  Stored,       \* number of stored parameters
  MaxValue,     \* parameter values are 0 .. MaxValue
  CardFails,    \* the card may fail an operation
  Slow,         \* an answer may come after the timeout
  Upgrades,     \* a restart may be with a newer firmware
  MaxRequests,  \* bound: requests of the main loop
  MaxVersion,   \* bound: firmware versions
  MaxRestarts   \* bound: restarts

ASSUME StorageAssumption ==
  /\ Stored \in Nat \ {0} /\ MaxValue \in Nat \ {0} /\ MaxVersion \in Nat \ {0}
  /\ {CardFails, Slow, Upgrades} \subseteq BOOLEAN

VARIABLES
  params,    \* the table in memory
  job,       \* what the main loop waits for
  id,        \* sd_request_id
  readReq,   \* SD_READ_REQUEST_SIGNAL: an id, 0 when empty
  writeReq,  \* SD_WRITE_SIGNAL
  answer,    \* SD_READ_SIGNAL
  sd,        \* what the SD task is doing
  card,      \* blocks and CRC
  version,   \* VELOXITY_VERSION
  hist       \* history: images written, the one acknowledged, the one found at the start

vars == <<params, job, id, readReq, writeReq, answer, sd, card, version, hist>>

P == 1 .. Stored + 1
Blocks == 0 .. Stored
Value == 0 .. MaxValue
Default == [p \in P |-> 0]
Blank == [b \in Blocks |-> 0]       \* version 0: no image
NoMsg == [id |-> 0, img |-> Blank, ok |-> FALSE]
Idle == [op |-> "idle", k |-> 0, msg |-> NoMsg]

(***************************************************************************)
(* The codec. Parameters the C firmware does not know keep their defaults. *)
(***************************************************************************)
Encode(ps) == [b \in Blocks |-> IF b = 0 THEN version ELSE ps[b]]

Decodes(img) == img[0] = version

Decode(img) == [p \in P |-> IF p \in Blocks THEN img[p] ELSE Default[p]]

(* Mutated form: the stored CRC is not looked at. *)
ChecksOutUnseen(c) == TRUE

\* SdCard::read: the stored CRC is that of the bytes read.
ChecksOut(c) == c.crc = c.data

(***************************************************************************)
(* The main loop.                                                          *)
(***************************************************************************)
NextRequestId == id + 1

PostRead(j) ==
  /\ id' = NextRequestId /\ readReq' = NextRequestId /\ answer' = NoMsg /\ job' = j
  /\ UNCHANGED writeReq

PostWrite(j, ps) ==
  /\ id' = NextRequestId /\ answer' = NoMsg /\ job' = j
  /\ writeReq' = [id |-> NextRequestId, img |-> Encode(ps), ok |-> FALSE]
  /\ hist' = [hist EXCEPT !.images = @ \cup {Encode(ps)}, !.saved = Blank]
  /\ UNCHANGED readReq

\* main() of a fresh start: the first thing is to read the table.
Booted ==
  /\ params' = Default /\ readReq' = 1 /\ id' = 1 /\ job' = "boot"
  /\ writeReq' = NoMsg /\ answer' = NoMsg /\ sd' = Idle

Init ==
  /\ params = Default /\ readReq = 1 /\ id = 1 /\ job = "boot"
  /\ writeReq = NoMsg /\ answer = NoMsg /\ sd = Idle
  /\ card = [data |-> Blank, crc |-> Blank] /\ version = 1
  /\ hist = [images |-> {}, saved |-> Blank, found |-> Blank, sure |-> FALSE, restarts |-> 0]

SetParam(p, v) ==
  /\ job = "none" /\ params[p] # v
  /\ params' = [params EXCEPT ![p] = v]
  /\ hist' = [hist EXCEPT !.sure = FALSE]
  /\ UNCHANGED <<job, id, readReq, writeReq, answer, sd, card, version>>

ReadParams ==
  /\ job = "none" /\ id < MaxRequests /\ PostRead("read")
  /\ hist' = [hist EXCEPT !.sure = FALSE]
  /\ UNCHANGED <<params, sd, card, version>>

WriteParams ==
  /\ job = "none" /\ id < MaxRequests /\ PostWrite("write", params)
  /\ UNCHANGED <<params, sd, card, version>>

\* read_params and write_params return; at the start a failed read is
\* followed by writing the defaults, whatever comes of it.
Return(ok, img) ==
  IF job = "boot" /\ ~(ok /\ Decodes(img))
  THEN /\ params' = Default /\ PostWrite("init", Default)
  ELSE /\ params' = IF job \in {"boot", "read"} /\ ok /\ Decodes(img) THEN Decode(img) ELSE params
       /\ hist' = [hist EXCEPT !.saved = IF job \in {"write", "init"} /\ ok THEN Encode(params) ELSE @,
                               !.sure = job \in {"boot", "init"}]
       /\ job' = "none" /\ answer' = NoMsg
       /\ UNCHANGED <<id, readReq, writeReq>>

(* Mutated form: any answer is taken for the one waited for. *)
IsForAny(a) == a.id # 0

IsFor(a) == a.id = id

\* wait_for_sd_response: an answer to an earlier request is thrown away.
TakeAnswer ==
  /\ job # "none" /\ answer.id # 0
  /\ IF IsFor(answer) THEN Return(answer.ok, answer.img)
     ELSE answer' = NoMsg /\ UNCHANGED <<params, job, id, readReq, writeReq, hist>>
  /\ UNCHANGED <<sd, card, version>>

Timeout ==
  /\ Slow /\ job # "none"
  /\ Return(FALSE, Blank)
  /\ UNCHANGED <<sd, card, version>>

(***************************************************************************)
(* The SD task. select() polls the read request first.                     *)
(***************************************************************************)
Answer(msg) == answer' = msg /\ sd' = Idle

TakeRequest ==
  /\ sd.op = "idle"
  /\ IF readReq # 0
     THEN /\ sd' = [op |-> "read", k |-> 0, msg |-> [NoMsg EXCEPT !.id = readReq]]
          /\ readReq' = 0 /\ UNCHANGED writeReq
     ELSE /\ writeReq.id # 0
          /\ sd' = [op |-> "write", k |-> 0, msg |-> writeReq]
          /\ writeReq' = NoMsg /\ UNCHANGED readReq
  /\ UNCHANGED <<params, job, id, answer, card, version, hist>>

ReadCard ==
  /\ sd.op = "read"
  /\ Answer([sd.msg EXCEPT !.img = card.data, !.ok = ChecksOut(card)])
  /\ UNCHANGED <<params, job, id, readReq, writeReq, card, version, hist>>

\* write_image: the CRC of the whole image goes out with the last block.
WriteBlock ==
  /\ sd.op = "write" /\ sd.k \in Blocks
  /\ card' = [data |-> [card.data EXCEPT ![sd.k] = sd.msg.img[sd.k]],
              crc |-> IF sd.k = Stored THEN sd.msg.img ELSE card.crc]
  /\ sd' = [sd EXCEPT !.k = @ + 1]
  /\ UNCHANGED <<params, job, id, readReq, writeReq, answer, version, hist>>

WriteDone ==
  /\ sd.op = "write" /\ sd.k = Stored + 1
  /\ Answer([sd.msg EXCEPT !.ok = TRUE])
  /\ UNCHANGED <<params, job, id, readReq, writeReq, card, version, hist>>

CardError ==
  /\ CardFails /\ sd.op # "idle"
  /\ Answer([sd.msg EXCEPT !.ok = FALSE])
  /\ UNCHANGED <<params, job, id, readReq, writeReq, card, version, hist>>

\* Power fails, or a reboot, possibly into a newer firmware.
Restart ==
  /\ hist.restarts < MaxRestarts
  /\ Booted
  /\ version' \in {version} \cup (IF Upgrades /\ version < MaxVersion THEN {version + 1} ELSE {})
  /\ hist' = [hist EXCEPT !.found = IF ChecksOut(card) THEN card.data ELSE Blank,
                          !.sure = FALSE, !.saved = Blank, !.restarts = @ + 1]
  /\ UNCHANGED card

Next ==
  \/ \E p \in P, v \in Value : SetParam(p, v)
  \/ ReadParams \/ WriteParams \/ TakeAnswer \/ Timeout
  \/ TakeRequest \/ ReadCard \/ WriteBlock \/ WriteDone \/ CardError
  \/ Restart

\* The spinning loop sees an answer, and its timeout passes; the executor
\* runs the task. The card itself promises nothing.
Spec == Init /\ [][Next]_vars /\ WF_vars(TakeAnswer) /\ WF_vars(Timeout) /\ WF_vars(TakeRequest)

-----------------------------------------------------------------------------
(* Types of the main loop's, the task's and the card's state. *)
TypeOK ==
  /\ params \in [P -> Value] /\ job \in {"boot", "init", "read", "write", "none"}
  /\ readReq \in 0 .. id /\ writeReq.id \in 0 .. id /\ answer.id \in 0 .. id /\ sd.msg.id \in 0 .. id
  /\ sd.op \in {"idle", "read", "write"} /\ sd.k \in 0 .. Stored + 1
  /\ \A i \in P \cap Blocks : card.data[i] \in Value

(* write_params returned true: the card holds that image, checked and      *)
(* complete, until the next write is asked for, however late the answers   *)
(* to earlier requests come.                                               *)
AcknowledgedIsOnCard ==
  hist.saved # Blank => ChecksOut(card) /\ card.data = hist.saved

(* Memory never holds a mixture: whatever read_params or a start brings    *)
(* into the table was once the whole of a table somebody asked to write.   *)
TableIsOneImage ==
  [][(job \in {"boot", "read"} /\ job' = "none" /\ params' # params) => (Encode(params') \in hist.images)]_vars

(* A start finds what the card holds: with a card that works and answers   *)
(* in time, the table is the valid image that was on the card.             *)
StartRestoresCard ==
  hist.sure /\ hist.found # Blank /\ job = "none"
    => \A p \in P \cap Blocks : params[p] = hist.found[p]

(* The main loop, and with it the vehicle, is never stuck on the card.     *)
MainLoopReturns == job # "none" ~> job = "none"
=============================================================================
