-------------------------- MODULE ParametersProofs --------------------------
(***************************************************************************)
(* Parameters on the SD card, for images of every length, any number of    *)
(* requests, late answers, card errors and power failures: what an         *)
(* acknowledged write is worth, that no mixture is ever read back and that *)
(* a card that works in time gives a start what it held; and the file of   *)
(* the simulated firmware, for every set of parameters and their kinds.    *)
(***************************************************************************)
EXTENDS MCParameters, Sequences, TLAPS

Images == {f \in [Blocks -> Nat] : \A b \in P \cap Blocks : f[b] \in Value}

MessageOK(m, n) == DOMAIN m = {"id", "img", "ok"} /\ m.id \in 0 .. n /\ m.img \in Images

Typed ==
  /\ params \in [P -> Value] /\ job \in {"boot", "init", "read", "write", "none"}
  /\ id \in Nat /\ readReq \in 0 .. id /\ version \in Nat \ {0}
  /\ MessageOK(writeReq, id) /\ MessageOK(answer, id) /\ MessageOK(sd.msg, id)
  /\ DOMAIN sd = {"op", "k", "msg"}
  /\ sd.op \in {"idle", "read", "write"} /\ sd.k \in 0 .. Stored + 1
  /\ DOMAIN card = {"data", "crc"} /\ card.data \in Images /\ card.crc \in Images
  /\ DOMAIN hist = {"images", "saved", "found", "sure", "restarts"}

Writes == job \in {"write", "init"}

(* No write is asked for or under way. *)
Quiet == writeReq.id = 0 /\ sd.op # "write"
Holds(img) == card.data = img /\ card.crc = img

(* The write the main loop waits for is told from all others by its id: it *)
(* waits in the signal, or is being carried out, or its answer is there,   *)
(* and then nothing else writes.                                           *)
OwnRequest ==
  Writes =>
    /\ readReq # id /\ (sd.op = "read" => sd.msg.id # id)
    /\ writeReq.id # 0 => writeReq.img = Encode(params)
    /\ sd.op = "write" /\ sd.msg.id = id => writeReq.id = 0 /\ sd.msg.img = Encode(params)
    /\ answer.id = id /\ answer.ok => Quiet /\ Holds(Encode(params))

(* A write in progress has its first blocks on the card. *)
Progress ==
  sd.op = "write" =>
    /\ \A b \in Blocks : b < sd.k => card.data[b] = sd.msg.img[b]
    /\ sd.k = Stored + 1 => card.crc = sd.msg.img

Saved == hist.saved # Blank => Quiet /\ Holds(hist.saved)

(* Every CRC and every good answer is that of an image once written. *)
Known == hist.images \cup {Blank}
AllKnown ==
  /\ card.crc \in Known
  /\ writeReq.id # 0 => writeReq.img \in Known
  /\ sd.op = "write" => sd.msg.img \in Known
  /\ answer.ok => answer.img \in Known

IInv == Typed /\ OwnRequest /\ Progress /\ Saved /\ AllKnown

-----------------------------------------------------------------------------
LEMMA BlocksOfP ==
  /\ P \cap Blocks = Blocks \ {0} /\ 0 \in Blocks /\ Blocks \subseteq Nat
  /\ 0 \in Value /\ Value \subseteq Nat
  BY StorageAssumption DEF P, Blocks, Value

LEMMA BlankIsImage ==
  /\ Blank \in Images /\ Default \in [P -> Value] /\ NoMsg.id = 0 /\ NoMsg.ok = FALSE
  /\ \A n \in Nat : MessageOK(NoMsg, n)
  <1>1. Blank \in Images
    BY BlocksOfP DEF Blank, Images
  <1> QED
    BY <1>1, BlocksOfP DEF MessageOK, NoMsg, Default

LEMMA EncodeIsImage ==
  ASSUME NEW ps \in [P -> Value], version \in Nat
  PROVE  Encode(ps) \in Images
  BY BlocksOfP DEF Encode, Images

LEMMA DecodeTyped ==
  ASSUME NEW img \in Images
  PROVE  Decode(img) \in [P -> Value]
  BY BlocksOfP DEF Decode, Images, Default

LEMMA EncodeDecode ==
  ASSUME NEW img \in Images, Decodes(img)
  PROVE  Encode(Decode(img)) = img
  BY BlocksOfP DEF Encode, Decode, Decodes, Images

LEMMA InitIInv == Init => IInv
  <1> SUFFICES ASSUME Init PROVE IInv
    OBVIOUS
  <1> USE DEF Init
  <1>1. Typed
    <2>1. DOMAIN sd = {"op", "k", "msg"} /\ sd.op = "idle" /\ sd.k = 0 /\ sd.msg = NoMsg
      BY DEF Idle
    <2>2. DOMAIN card = {"data", "crc"} /\ card.data = Blank /\ card.crc = Blank
      OBVIOUS
    <2>3. DOMAIN hist = {"images", "saved", "found", "sure", "restarts"}
      OBVIOUS
    <2>4. 0 \in 0 .. Stored + 1 /\ 1 \in 0 .. 1 /\ MessageOK(NoMsg, 1)
      BY BlankIsImage, StorageAssumption
    <2> QED
      BY <2>1, <2>2, <2>3, <2>4, BlankIsImage DEF Typed
  <1>2. sd.op = "idle" /\ ~Writes /\ hist.saved = Blank /\ card.crc = Blank
    BY DEF Idle, Writes
  <1>3. writeReq.id = 0 /\ answer.ok = FALSE
    BY BlankIsImage
  <1> QED
    BY <1>1, <1>2, <1>3 DEF IInv, OwnRequest, Progress, Saved, AllKnown, Known

-----------------------------------------------------------------------------
(* The main loop. *)

(* A request is posted with a number that nothing else carries. *)
Untouched == UNCHANGED <<sd, card, version>>

LEMMA PostWriteIInv ==
  ASSUME IInv, NEW j \in {"write", "init"}, NEW ps \in [P -> Value],
         PostWrite(j, ps), params' = ps, Untouched
  PROVE  IInv'
  <1> USE DEF PostWrite, Untouched, NextRequestId
  <1>1. Typed
    BY DEF IInv
  <1>2. /\ id \in Nat /\ id' = id + 1 /\ job' = j /\ readReq' = readReq /\ answer' = NoMsg
        /\ sd' = sd /\ card' = card /\ version' = version /\ version \in Nat
        /\ readReq \in 0 .. id /\ sd.msg.id \in 0 .. id
    BY <1>1 DEF Typed, MessageOK
  <1>3. writeReq'.id = id + 1 /\ writeReq'.img = Encode(ps) /\ DOMAIN writeReq' = {"id", "img", "ok"}
    OBVIOUS
  <1>4. Encode(ps)' = Encode(ps) /\ Encode(ps) \in Images
    BY <1>2, EncodeIsImage DEF Encode
  <1>5. /\ hist'.saved = Blank /\ hist'.images = hist.images \cup {Encode(ps)}
        /\ DOMAIN hist' = DOMAIN hist
    BY <1>1 DEF Typed
  <1>6. \A m : MessageOK(m, id) => MessageOK(m, id + 1)
    BY <1>2 DEF MessageOK
  <1>7. Typed'
    <2>1. MessageOK(writeReq', id + 1)
      BY <1>2, <1>3, <1>4 DEF MessageOK
    <2> QED
      BY <1>1, <1>2, <1>5, <1>6, <2>1, BlankIsImage DEF Typed
  <1>8. OwnRequest'
    BY <1>2, <1>3, <1>4, BlankIsImage DEF OwnRequest
  <1>9. Progress' /\ Saved'
    BY <1>2, <1>5 DEF IInv, Progress, Saved
  <1>10. AllKnown'
    BY <1>2, <1>3, <1>5, BlankIsImage DEF IInv, AllKnown, Known
  <1> QED
    BY <1>7, <1>8, <1>9, <1>10 DEF IInv

(* A call that returns leaves nothing but the record of what it brought.   *)
LEMMA ReturnIInv ==
  ASSUME IInv, NEW ok \in BOOLEAN, NEW img \in Images, Return(ok, img), Untouched,
         ok /\ Writes => Quiet /\ Holds(Encode(params))
  PROVE  IInv'
  <1>1. Typed
    BY DEF IInv
  <1>2. CASE job = "boot" /\ ~(ok /\ Decodes(img))
    BY <1>2, PostWriteIInv, BlankIsImage DEF Return
  <1>3. CASE ~(job = "boot" /\ ~(ok /\ Decodes(img)))
    <2>1. /\ job' = "none" /\ answer' = NoMsg
          /\ UNCHANGED <<id, readReq, writeReq, sd, card, version>>
      BY <1>3 DEF Return, Untouched
    <2>2. params' \in [P -> Value]
      BY <1>1, <1>3, DecodeTyped DEF Return, Typed
    <2>3. hist' = [hist EXCEPT !.saved = IF job \in {"write", "init"} /\ ok THEN Encode(params) ELSE @,
                               !.sure = job \in {"boot", "init"}]
      BY <1>3 DEF Return
    <2>4. /\ hist'.saved = IF job \in {"write", "init"} /\ ok THEN Encode(params) ELSE hist.saved
          /\ hist'.images = hist.images /\ DOMAIN hist' = DOMAIN hist
      BY <1>1, <2>3 DEF Typed
    <2>5. Typed'
      BY <1>1, <2>1, <2>2, <2>4, BlankIsImage DEF Typed
    <2>6. OwnRequest' /\ Progress'
      BY <2>1 DEF IInv, OwnRequest, Writes, Progress
    <2>7. Saved'
      BY <2>1, <2>4 DEF IInv, Saved, Quiet, Holds, Writes
    <2>8. AllKnown'
      BY <2>1, <2>4, BlankIsImage DEF IInv, AllKnown, Known
    <2> QED
      BY <2>5, <2>6, <2>7, <2>8 DEF IInv
  <1> QED
    BY <1>2, <1>3

LEMMA TakeAnswerIInv == IInv /\ TakeAnswer => IInv'
  <1> SUFFICES ASSUME IInv, TakeAnswer PROVE IInv'
    OBVIOUS
  <1>1. Typed
    BY DEF IInv
  <1>2. CASE IsFor(answer)
    <2>1. Return(answer.ok, answer.img) /\ Untouched
      BY <1>2 DEF TakeAnswer, Untouched
    <2>2. Return(answer.ok = TRUE, answer.img)
      BY <2>1 DEF Return
    <2>3. answer.ok /\ Writes => Quiet /\ Holds(Encode(params))
      BY <1>2 DEF IInv, OwnRequest, IsFor
    <2> QED
      BY <1>1, <2>1, <2>2, <2>3, ReturnIInv DEF Typed, MessageOK
  <1>3. CASE ~IsFor(answer)
    <2>1. answer' = NoMsg /\ UNCHANGED <<params, job, id, readReq, writeReq, hist, sd, card, version>>
      BY <1>3 DEF TakeAnswer
    <2>2. Typed'
      BY <1>1, <2>1, BlankIsImage DEF Typed
    <2>3. OwnRequest'
      BY <2>1, BlankIsImage DEF IInv, OwnRequest, Writes, Quiet, Holds, Encode
    <2>4. Progress' /\ Saved' /\ AllKnown'
      BY <2>1, BlankIsImage DEF IInv, Progress, Saved, Quiet, Holds, AllKnown, Known
    <2> QED
      BY <2>2, <2>3, <2>4 DEF IInv
  <1> QED
    BY <1>2, <1>3

LEMMA TimeoutIInv == IInv /\ Timeout => IInv'
  BY ReturnIInv, BlankIsImage DEF Timeout, Untouched

LEMMA MainLoopIInv ==
  ASSUME IInv, ReadParams \/ WriteParams \/ \E p \in P, v \in Value : SetParam(p, v)
  PROVE  IInv'
  <1>1. Typed
    BY DEF IInv
  <1>2. CASE WriteParams
    BY <1>1, <1>2, PostWriteIInv DEF WriteParams, Untouched, Typed
  <1>3. CASE ReadParams
    <2>1. /\ id' = id + 1 /\ readReq' = id + 1 /\ answer' = NoMsg /\ job' = "read"
          /\ UNCHANGED <<writeReq, params, sd, card, version>>
      BY <1>3 DEF ReadParams, PostRead, NextRequestId
    <2>2. hist'.saved = hist.saved /\ hist'.images = hist.images /\ DOMAIN hist' = DOMAIN hist
      BY <1>1, <1>3 DEF ReadParams, Typed
    <2>3. id \in Nat /\ \A m : MessageOK(m, id) => MessageOK(m, id + 1)
      BY <1>1 DEF Typed, MessageOK
    <2>4. Typed'
      BY <1>1, <2>1, <2>2, <2>3, BlankIsImage DEF Typed
    <2>5. OwnRequest' /\ Progress' /\ Saved' /\ AllKnown'
      BY <2>1, <2>2, BlankIsImage
         DEF IInv, OwnRequest, Writes, Progress, Saved, Quiet, Holds, AllKnown, Known
    <2> QED
      BY <2>4, <2>5 DEF IInv
  <1>4. ASSUME NEW p \in P, NEW v \in Value, SetParam(p, v) PROVE IInv'
    <2>1. /\ job = "none" /\ params' = [params EXCEPT ![p] = v]
          /\ UNCHANGED <<job, id, readReq, writeReq, answer, sd, card, version>>
      BY <1>4 DEF SetParam
    <2>2. hist'.saved = hist.saved /\ hist'.images = hist.images /\ DOMAIN hist' = DOMAIN hist
      BY <1>1, <1>4 DEF SetParam, Typed
    <2>3. Typed'
      BY <1>1, <1>4, <2>1, <2>2 DEF Typed
    <2>4. OwnRequest' /\ Progress' /\ Saved' /\ AllKnown'
      BY <2>1, <2>2 DEF IInv, OwnRequest, Writes, Progress, Saved, Quiet, Holds, AllKnown, Known
    <2> QED
      BY <2>3, <2>4 DEF IInv
  <1> QED
    BY <1>2, <1>3, <1>4

-----------------------------------------------------------------------------
(* The SD task. *)

LEMMA TakeRequestIInv == IInv /\ TakeRequest => IInv'
  <1> SUFFICES ASSUME IInv, TakeRequest PROVE IInv'
    OBVIOUS
  <1>1. Typed /\ sd.op = "idle" /\ UNCHANGED <<params, job, id, answer, card, version, hist>>
    BY DEF IInv, TakeRequest
  <1>2. 0 \in 0 .. Stored + 1 /\ (Stored + 1) # 0
    BY StorageAssumption
  <1>3. CASE readReq # 0
    <2>1. /\ sd' = [op |-> "read", k |-> 0, msg |-> [NoMsg EXCEPT !.id = readReq]]
          /\ readReq' = 0 /\ writeReq' = writeReq
      BY <1>3 DEF TakeRequest
    <2>2. /\ DOMAIN sd' = {"op", "k", "msg"} /\ sd'.op = "read" /\ sd'.k = 0
          /\ sd'.msg.id = readReq /\ sd'.msg.img = Blank /\ DOMAIN sd'.msg = {"id", "img", "ok"}
      BY <2>1 DEF NoMsg
    <2>3. Typed'
      BY <1>1, <1>2, <2>1, <2>2, BlankIsImage DEF Typed, MessageOK
    <2>4. OwnRequest'
      BY <1>1, <1>3, <2>1, <2>2 DEF IInv, Typed, OwnRequest, Writes, Quiet, Holds, Encode
    <2>5. Progress' /\ Saved' /\ AllKnown'
      BY <1>1, <2>1, <2>2 DEF IInv, Progress, Saved, Quiet, Holds, AllKnown, Known
    <2> QED
      BY <2>3, <2>4, <2>5 DEF IInv
  <1>4. CASE readReq = 0
    <2>1. /\ writeReq.id # 0 /\ sd' = [op |-> "write", k |-> 0, msg |-> writeReq]
          /\ writeReq' = NoMsg /\ readReq' = readReq
      BY <1>4 DEF TakeRequest
    <2>2. DOMAIN sd' = {"op", "k", "msg"} /\ sd'.op = "write" /\ sd'.k = 0 /\ sd'.msg = writeReq
      BY <2>1
    <2>3. Typed'
      BY <1>1, <1>2, <2>1, <2>2, BlankIsImage DEF Typed
    <2>4. OwnRequest'
      BY <1>1, <2>1, <2>2, BlankIsImage DEF IInv, Typed, OwnRequest, Writes, Quiet, Holds, Encode
    <2>5. Progress'
      <3>1. \A b \in Blocks : ~(b < 0)
        BY DEF Blocks
      <3> QED
        BY <1>2, <2>2, <3>1 DEF Progress
    <2>6. Saved' /\ AllKnown'
      BY <1>1, <2>1, <2>2, BlankIsImage DEF IInv, Saved, Quiet, Holds, AllKnown, Known
    <2> QED
      BY <2>3, <2>4, <2>5, <2>6 DEF IInv
  <1> QED
    BY <1>3, <1>4

(* What the three ways an operation ends have in common. *)
Ends ==
  /\ sd' = Idle
  /\ answer'.id = sd.msg.id /\ answer'.img \in Images /\ DOMAIN answer' = {"id", "img", "ok"}
  /\ UNCHANGED <<params, job, id, readReq, writeReq, card, version, hist>>

LEMMA EndsIInv ==
  ASSUME IInv, Ends,
         answer'.ok => answer'.img \in Known,
         Writes /\ answer'.ok /\ sd.msg.id = id => sd.op = "write" /\ sd.k = Stored + 1
  PROVE  IInv'
  <1>1. Typed /\ UNCHANGED <<params, job, id, readReq, writeReq, card, version, hist>>
    BY DEF IInv, Ends
  <1>2. /\ DOMAIN sd' = {"op", "k", "msg"} /\ sd'.op = "idle" /\ sd'.k = 0 /\ sd'.msg = NoMsg
        /\ 0 \in 0 .. Stored + 1
    BY StorageAssumption DEF Ends, Idle
  <1>3. Typed'
    BY <1>1, <1>2, BlankIsImage DEF Ends, Typed, MessageOK
  <1>4. Progress' /\ Saved' /\ AllKnown'
    BY <1>1, <1>2 DEF IInv, Progress, Saved, Quiet, Holds, AllKnown, Known
  <1>5. OwnRequest'
    <2> SUFFICES ASSUME Writes
                 PROVE  /\ readReq # id
                        /\ writeReq.id # 0 => writeReq.img = Encode(params)
                        /\ answer'.id = id /\ answer'.ok => writeReq.id = 0 /\ Holds(Encode(params))
      BY <1>1, <1>2 DEF OwnRequest, Writes, Quiet, Holds, Encode
    <2>1. readReq # id /\ (writeReq.id # 0 => writeReq.img = Encode(params))
      BY DEF IInv, OwnRequest
    <2>2. ASSUME answer'.id = id, answer'.ok
          PROVE  writeReq.id = 0 /\ Holds(Encode(params))
      <3>1. sd.op = "write" /\ sd.k = Stored + 1 /\ sd.msg.id = id
        BY <2>2 DEF Ends
      <3>2. writeReq.id = 0 /\ sd.msg.img = Encode(params)
        BY <3>1 DEF IInv, OwnRequest
      <3>3. \A b \in Blocks : b < Stored + 1
        BY StorageAssumption DEF Blocks
      <3>4. card.crc = sd.msg.img /\ \A b \in Blocks : card.data[b] = sd.msg.img[b]
        BY <3>1, <3>3 DEF IInv, Progress
      <3>5. card.data = sd.msg.img
        BY <1>1, <3>4 DEF Typed, MessageOK, Images
      <3> QED
        BY <3>2, <3>4, <3>5 DEF Holds
    <2> QED
      BY <2>1, <2>2
  <1> QED
    BY <1>3, <1>4, <1>5 DEF IInv

LEMMA ReadCardIInv == IInv /\ ReadCard => IInv'
  <1> SUFFICES ASSUME IInv, ReadCard PROVE IInv'
    OBVIOUS
  <1>1. Typed
    BY DEF IInv
  <1>2. answer' = [sd.msg EXCEPT !.img = card.data, !.ok = ChecksOut(card)]
    BY DEF ReadCard, Answer
  <1>3. /\ answer'.id = sd.msg.id /\ answer'.img = card.data /\ answer'.ok = ChecksOut(card)
        /\ DOMAIN answer' = {"id", "img", "ok"}
    BY <1>1, <1>2 DEF Typed, MessageOK
  <1>4. Ends
    BY <1>1, <1>3 DEF ReadCard, Answer, Ends, Typed
  <1>5. answer'.ok => answer'.img \in Known
    BY <1>3 DEF ChecksOut, IInv, AllKnown
  <1>6. ~(Writes /\ sd.msg.id = id)
    BY DEF ReadCard, IInv, OwnRequest
  <1> QED
    BY <1>4, <1>5, <1>6, EndsIInv

LEMMA WriteDoneIInv == IInv /\ WriteDone => IInv'
  <1> SUFFICES ASSUME IInv, WriteDone PROVE IInv'
    OBVIOUS
  <1>1. Typed
    BY DEF IInv
  <1>2. answer' = [sd.msg EXCEPT !.ok = TRUE] /\ sd.op = "write" /\ sd.k = Stored + 1
    BY DEF WriteDone, Answer
  <1>3. /\ answer'.id = sd.msg.id /\ answer'.img = sd.msg.img
        /\ DOMAIN answer' = {"id", "img", "ok"}
    BY <1>1, <1>2 DEF Typed, MessageOK
  <1>4. Ends
    BY <1>1, <1>3 DEF WriteDone, Answer, Ends, Typed, MessageOK
  <1>5. answer'.img \in Known
    BY <1>2, <1>3 DEF IInv, AllKnown
  <1> QED
    BY <1>2, <1>4, <1>5, EndsIInv

LEMMA CardErrorIInv == IInv /\ CardError => IInv'
  <1> SUFFICES ASSUME IInv, CardError PROVE IInv'
    OBVIOUS
  <1>1. Typed
    BY DEF IInv
  <1>2. answer' = [sd.msg EXCEPT !.ok = FALSE]
    BY DEF CardError, Answer
  <1>3. /\ answer'.id = sd.msg.id /\ answer'.img = sd.msg.img /\ answer'.ok = FALSE
        /\ DOMAIN answer' = {"id", "img", "ok"}
    BY <1>1, <1>2 DEF Typed, MessageOK
  <1>4. Ends
    BY <1>1, <1>3 DEF CardError, Answer, Ends, Typed, MessageOK
  <1> QED
    BY <1>3, <1>4, EndsIInv

LEMMA WriteBlockIInv == IInv /\ WriteBlock => IInv'
  <1> SUFFICES ASSUME IInv, WriteBlock PROVE IInv'
    OBVIOUS
  <1> DEFINE k == sd.k
             img == sd.msg.img
  <1>1. /\ Typed /\ sd.op = "write" /\ k \in Blocks
        /\ UNCHANGED <<params, job, id, readReq, writeReq, answer, version, hist>>
    BY DEF IInv, WriteBlock
  <1>2. /\ sd' = [sd EXCEPT !.k = k + 1]
        /\ card' = [data |-> [card.data EXCEPT ![k] = img[k]],
                    crc |-> IF k = Stored THEN img ELSE card.crc]
    BY DEF WriteBlock
  <1>3. sd'.op = "write" /\ sd'.k = k + 1 /\ sd'.msg = sd.msg /\ DOMAIN sd' = {"op", "k", "msg"}
    BY <1>1, <1>2 DEF Typed
  <1>4. card'.data = [card.data EXCEPT ![k] = img[k]] /\ DOMAIN card' = {"data", "crc"}
        /\ card'.crc = (IF k = Stored THEN img ELSE card.crc)
    BY <1>2
  <1>5. k \in Nat /\ k <= Stored /\ k + 1 \in 0 .. Stored + 1
    BY <1>1, StorageAssumption DEF Blocks
  <1>6. img \in Images /\ card'.data \in Images /\ card'.crc \in Images
    BY <1>1, <1>4 DEF Typed, MessageOK, Images
  <1>7. Typed'
    BY <1>1, <1>3, <1>4, <1>5, <1>6 DEF Typed
  <1>8. Progress'
    <2>1. \A b \in Blocks : b < k + 1 => b < k \/ b = k
      BY <1>5 DEF Blocks
    <2>2. card.data \in [Blocks -> Nat]
      BY <1>1 DEF Typed, Images
    <2>3. \A b \in Blocks : b < k + 1 => card'.data[b] = img[b]
      BY <1>1, <1>4, <2>1, <2>2 DEF IInv, Progress
    <2> QED
      BY <1>3, <1>4, <1>5, <2>3, StorageAssumption DEF Progress
  <1>9. ~Quiet /\ ~Quiet'
    BY <1>1, <1>3 DEF Quiet
  <1>10. OwnRequest' /\ Saved'
    BY <1>1, <1>3, <1>9 DEF IInv, OwnRequest, Writes, Saved, Encode
  <1>11. AllKnown'
    BY <1>1, <1>3, <1>4 DEF IInv, AllKnown, Known
  <1> QED
    BY <1>7, <1>8, <1>10, <1>11 DEF IInv

(* Power fails: what is on the card stays, all else starts over. *)
LEMMA RestartIInv == IInv /\ Restart => IInv'
  <1> SUFFICES ASSUME IInv, Restart PROVE IInv'
    OBVIOUS
  <1>1. /\ Typed /\ card' = card /\ params' = Default /\ readReq' = 1 /\ id' = 1 /\ job' = "boot"
        /\ writeReq' = NoMsg /\ answer' = NoMsg /\ sd' = Idle
    BY DEF IInv, Restart, Booted
  <1>2. version' \in Nat \ {0}
    BY <1>1 DEF Restart, Typed
  <1>3. hist'.saved = Blank /\ hist'.images = hist.images /\ DOMAIN hist' = DOMAIN hist
    BY <1>1 DEF Restart, Typed
  <1>4. /\ DOMAIN sd' = {"op", "k", "msg"} /\ sd'.op = "idle" /\ sd'.k = 0 /\ sd'.msg = NoMsg
        /\ 0 \in 0 .. Stored + 1 /\ 1 \in 0 .. 1 /\ 1 \in Nat
    BY <1>1, StorageAssumption DEF Idle
  <1>5. Typed'
    BY <1>1, <1>2, <1>3, <1>4, BlankIsImage DEF Typed
  <1>6. OwnRequest' /\ Progress' /\ Saved' /\ AllKnown'
    BY <1>1, <1>3, <1>4, BlankIsImage DEF IInv, OwnRequest, Writes, Progress, Saved, AllKnown, Known
  <1> QED
    BY <1>5, <1>6 DEF IInv

LEMMA NextIInv == IInv /\ [Next]_vars => IInv'
  <1> SUFFICES ASSUME IInv, [Next]_vars PROVE IInv'
    OBVIOUS
  <1>1. CASE UNCHANGED vars
    BY <1>1 DEF vars, IInv, Typed, OwnRequest, Writes, Progress, Saved, Quiet, Holds, AllKnown, Known, Encode
  <1> QED
    BY <1>1, MainLoopIInv, TakeAnswerIInv, TimeoutIInv, TakeRequestIInv, ReadCardIInv, WriteBlockIInv,
       WriteDoneIInv, CardErrorIInv, RestartIInv DEF Next

-----------------------------------------------------------------------------
(* Types of the main loop's, the SD task's and the card's state, for       *)
(* images of every length (params/storage.rs, sd_card.rs).                 *)
THEOREM TypeCorrect == Spec => []TypeOK
  <1>1. IInv => TypeOK
    BY DEF IInv, Typed, MessageOK, Images, TypeOK
  <1> QED
    BY InitIInv, NextIInv, <1>1, PTL DEF Spec

(* A write that write_params acknowledged is on the card, checked and      *)
(* complete, until the next write is asked for (wait_for_sd_response).     *)
THEOREM Acknowledged == Spec => []AcknowledgedIsOnCard
  <1>1. IInv => AcknowledgedIsOnCard
    BY DEF IInv, Saved, Holds, AcknowledgedIsOnCard, ChecksOut
  <1> QED
    BY InitIInv, NextIInv, <1>1, PTL DEF Spec

(* A read of a mixture is refused: only the answer of a good read changes  *)
(* the table, and its image was once written whole.                        *)
LEMMA ReturnsOneImage ==
  ASSUME IInv, NEW ok, NEW img \in Images, Return(ok, img), ok => img \in Known, UNCHANGED version,
         job \in {"boot", "read"}, job' = "none", params' # params
  PROVE  Encode(params') \in hist.images
  <1>1. ~(job = "boot" /\ ~(ok /\ Decodes(img)))
    BY DEF Return, PostWrite
  <1>2. ok /\ Decodes(img) /\ params' = Decode(img)
    BY <1>1 DEF Return
  <1>3. img # Blank
    BY <1>2, BlocksOfP DEF IInv, Typed, Decodes, Blank
  <1> QED
    BY <1>2, <1>3, EncodeDecode DEF Known

LEMMA OneImageStep ==
  IInv /\ [Next]_vars =>
    [(job \in {"boot", "read"} /\ job' = "none" /\ params' # params) => (Encode(params') \in hist.images)]_vars
  <1> SUFFICES ASSUME IInv, [Next]_vars, job \in {"boot", "read"}, job' = "none", params' # params
               PROVE  Encode(params') \in hist.images
    OBVIOUS
  <1>1. CASE TakeAnswer
    <2>1. Return(answer.ok, answer.img) /\ UNCHANGED version
      BY <1>1 DEF TakeAnswer
    <2>2. answer.img \in Images /\ (answer.ok => answer.img \in Known)
      BY DEF IInv, Typed, MessageOK, AllKnown
    <2> QED
      BY <2>1, <2>2, ReturnsOneImage
  <1>2. CASE Timeout
    BY <1>2, BlankIsImage, ReturnsOneImage DEF Timeout
  <1>3. CASE \/ ReadParams \/ WriteParams \/ \E p \in P, v \in Value : SetParam(p, v)
             \/ TakeRequest \/ ReadCard \/ WriteBlock \/ WriteDone \/ CardError
    BY <1>3 DEF ReadParams, WriteParams, SetParam, TakeRequest, ReadCard, WriteBlock, WriteDone, CardError
  <1>4. CASE Restart
    BY <1>4 DEF Restart, Booted
  <1>5. CASE UNCHANGED vars
    BY <1>5 DEF vars
  <1> QED
    BY <1>1, <1>2, <1>3, <1>4, <1>5 DEF Next

(* Whatever a read or a start brings into the table was once the whole of  *)
(* a table somebody asked to write (SdCard::read, Params::read).           *)
THEOREM OneImage == Spec => TableIsOneImage
  BY InitIInv, NextIInv, OneImageStep, PTL DEF Spec, TableIsOneImage

-----------------------------------------------------------------------------
(* A card that works, in time, and one version of the firmware: an answer  *)
(* never comes after the timeout.                                          *)
WorkingNext ==
  \/ \E p \in P, v \in Value : SetParam(p, v)
  \/ ReadParams \/ WriteParams \/ TakeAnswer
  \/ TakeRequest \/ ReadCard \/ WriteBlock \/ WriteDone
  \/ Restart /\ version' = version

LEMMA InTimeWorks == InTime!Next => WorkingNext
  <1> USE DEF InTime!P, P, InTime!Blocks, Blocks, InTime!Value, Value, InTime!Default, Default,
              InTime!Blank, Blank, InTime!NoMsg, NoMsg, InTime!Idle, Idle,
              InTime!NextRequestId, NextRequestId
  <1>1. \A ps : InTime!Encode(ps) = Encode(ps)
    BY DEF InTime!Encode, Encode
  <1>2. \A img : InTime!Decodes(img) = Decodes(img) /\ InTime!Decode(img) = Decode(img)
    BY DEF InTime!Decodes, Decodes, InTime!Decode, Decode
  <1>3. InTime!ChecksOut(card) = ChecksOut(card) /\ InTime!IsFor(answer) = IsFor(answer)
    BY DEF InTime!ChecksOut, ChecksOut, InTime!IsFor, IsFor
  <1>4. \A j, ps : InTime!PostWrite(j, ps) => PostWrite(j, ps)
    BY <1>1 DEF InTime!PostWrite, PostWrite
  <1>5. \A p \in P, v \in Value : InTime!SetParam(p, v) => SetParam(p, v)
    BY DEF InTime!SetParam, SetParam
  <1>6. InTime!ReadParams => ReadParams
    BY DEF InTime!ReadParams, ReadParams, InTime!PostRead, PostRead
  <1>7. InTime!WriteParams => WriteParams
    BY <1>4 DEF InTime!WriteParams, WriteParams
  <1>8. InTime!TakeAnswer => TakeAnswer
    <2>1. InTime!Return(answer.ok, answer.img) => Return(answer.ok, answer.img)
      BY <1>1, <1>2, <1>4 DEF InTime!Return, Return
    <2> QED
      BY <1>3, <2>1 DEF InTime!TakeAnswer, TakeAnswer
  <1>9. ~ InTime!Timeout /\ ~ InTime!CardError
    BY DEF InTime!Timeout, InTime!CardError
  <1>10. InTime!TakeRequest => TakeRequest
    BY DEF InTime!TakeRequest, TakeRequest
  <1>11. InTime!ReadCard => ReadCard
    BY <1>3 DEF InTime!ReadCard, ReadCard, InTime!Answer, Answer
  <1>12. InTime!WriteBlock => WriteBlock
    BY DEF InTime!WriteBlock, WriteBlock
  <1>13. InTime!WriteDone => WriteDone
    BY DEF InTime!WriteDone, WriteDone, InTime!Answer, Answer
  <1>14. InTime!Restart => Restart /\ version' = version
    <2>1. InTime!Restart => version' = version
      BY DEF InTime!Restart
    <2> QED
      BY <1>3, <2>1 DEF InTime!Restart, Restart, InTime!Booted, Booted
  <1>15. InTime!P = P /\ InTime!Value = Value
    OBVIOUS
  <1> QED
    BY <1>5, <1>6, <1>7, <1>8, <1>9, <1>10, <1>11, <1>12, <1>13, <1>14, <1>15
       DEF InTime!Next, WorkingNext

LEMMA WorkingIsNext == WorkingNext => Next
  BY DEF WorkingNext, Next

(* While a start waits for its read nothing writes, so the answer is what   *)
(* the card held; a start that finds no image had none to find.             *)
Starting ==
  job = "boot" =>
    /\ writeReq.id = 0 /\ sd.op # "write"
    /\ hist.found = IF ChecksOut(card) THEN card.data ELSE Blank
    /\ answer.id # 0 => answer.img = card.data /\ answer.ok = ChecksOut(card)

Restored ==
  /\ \A img \in hist.images : img[0] = version
  /\ Starting
  /\ job = "init" => hist.found = Blank
  /\ hist.sure /\ hist.found # Blank => \A p \in P \cap Blocks : params[p] = hist.found[p]

LEMMA RestoredInit == Init => Restored
  <1> SUFFICES ASSUME Init PROVE Restored
    OBVIOUS
  <1>1. /\ job = "boot" /\ writeReq = NoMsg /\ answer = NoMsg /\ sd.op = "idle"
        /\ card.data = Blank /\ card.crc = Blank
        /\ hist.images = {} /\ hist.found = Blank
    BY DEF Init, Idle
  <1> QED
    BY <1>1 DEF Restored, Starting, NoMsg, ChecksOut

LEMMA RestoredAnswer == IInv /\ Restored /\ TakeAnswer => Restored'
  <1> SUFFICES ASSUME IInv, Restored, TakeAnswer PROVE Restored'
    OBVIOUS
  <1>1. Typed /\ UNCHANGED <<sd, card, version>> /\ answer.id # 0
    BY DEF IInv, TakeAnswer
  <1>2. NoMsg.id = 0
    BY DEF NoMsg
  <1>3. CASE ~ IsFor(answer)
    BY <1>1, <1>2, <1>3 DEF TakeAnswer, Restored, Starting, ChecksOut
  <1>4. CASE IsFor(answer) /\ job = "boot" /\ ~ (answer.ok /\ Decodes(answer.img))
    <2>1. PostWrite("init", Default) /\ params' = Default
      BY <1>4 DEF TakeAnswer, Return
    <2>2. /\ job' = "init" /\ hist'.images = hist.images \cup {Encode(Default)}
          /\ hist'.found = hist.found /\ hist'.sure = hist.sure
      BY <1>1, <2>1 DEF PostWrite, Typed
    <2>3. hist.found = Blank
      <3>1. hist.found = (IF ChecksOut(card) THEN card.data ELSE Blank)
            /\ answer.img = card.data /\ answer.ok = ChecksOut(card)
        BY <1>1, <1>4 DEF Restored, Starting
      <3>2. CASE ~ ChecksOut(card)
        BY <3>1, <3>2
      <3>3. CASE ChecksOut(card)
        <4>1. card.data \in hist.images \cup {Blank} /\ ~ Decodes(card.data)
          BY <1>4, <3>1, <3>3 DEF IInv, AllKnown, Known, ChecksOut
        <4>2. card.data = Blank
          BY <4>1 DEF Restored, Decodes
        <4> QED
          BY <3>1, <4>2
      <3> QED
        BY <3>2, <3>3
    <2>4. Encode(Default)[0] = version
      BY BlocksOfP DEF Encode
    <2> QED
      BY <1>1, <2>2, <2>3, <2>4 DEF Restored, Starting
  <1>5. CASE IsFor(answer) /\ ~ (job = "boot" /\ ~ (answer.ok /\ Decodes(answer.img)))
    <2>1. /\ params' = IF job \in {"boot", "read"} /\ answer.ok /\ Decodes(answer.img)
                       THEN Decode(answer.img) ELSE params
          /\ hist' = [hist EXCEPT !.saved = IF job \in {"write", "init"} /\ answer.ok
                                            THEN Encode(params) ELSE @,
                                  !.sure = job \in {"boot", "init"}]
          /\ job' = "none"
      BY <1>5 DEF TakeAnswer, Return
    <2>2. /\ hist'.images = hist.images /\ hist'.found = hist.found
          /\ hist'.sure = (job \in {"boot", "init"})
      BY <1>1, <2>1 DEF Typed
    <2>3. ASSUME hist'.sure, hist.found # Blank
          PROVE  \A p \in P \cap Blocks : params'[p] = hist.found[p]
      <3>1. job = "boot"
        BY <2>2, <2>3 DEF Restored
      <3>2. answer.ok /\ params' = Decode(answer.img) /\ answer.img = card.data
            /\ answer.ok = ChecksOut(card)
        BY <1>1, <1>5, <2>1, <3>1 DEF Restored, Starting
      <3>3. hist.found = card.data
        BY <3>1, <3>2 DEF Restored, Starting
      <3> QED
        BY <3>2, <3>3 DEF Decode
    <2> QED
      BY <1>1, <2>1, <2>2, <2>3 DEF Restored, Starting
  <1> QED
    BY <1>3, <1>4, <1>5

LEMMA RestoredNext == IInv /\ Restored /\ [WorkingNext]_vars => Restored'
  <1> SUFFICES ASSUME IInv, Restored, [WorkingNext]_vars PROVE Restored'
    OBVIOUS
  <1>1. Typed
    BY DEF IInv
  <1>2. CASE TakeAnswer
    BY <1>2, RestoredAnswer
  <1>3. CASE \E p \in P, v \in Value : SetParam(p, v)
    <2>1. hist'.images = hist.images /\ hist'.found = hist.found /\ ~ hist'.sure
          /\ job = "none" /\ job' = job /\ version' = version
      BY <1>1, <1>3 DEF SetParam, Typed
    <2> QED
      BY <2>1 DEF Restored, Starting
  <1>4. CASE ReadParams
    <2>1. hist'.images = hist.images /\ hist'.found = hist.found /\ ~ hist'.sure
          /\ job' = "read" /\ version' = version
      BY <1>1, <1>4 DEF ReadParams, PostRead, Typed
    <2> QED
      BY <2>1 DEF Restored, Starting
  <1>5. CASE WriteParams
    <2>1. /\ hist'.images = hist.images \cup {Encode(params)} /\ hist'.found = hist.found
          /\ hist'.sure = hist.sure /\ job' = "write" /\ UNCHANGED <<params, version>>
      BY <1>1, <1>5 DEF WriteParams, PostWrite, Typed
    <2>2. Encode(params)[0] = version
      BY BlocksOfP DEF Encode
    <2> QED
      BY <2>1, <2>2 DEF Restored, Starting
  <1>6. CASE TakeRequest
    <2>1. UNCHANGED <<params, job, answer, card, version, hist>>
      BY <1>6 DEF TakeRequest
    <2>2. job = "boot" => writeReq'.id = 0 /\ sd'.op # "write"
      BY <1>6 DEF TakeRequest, Restored, Starting
    <2> QED
      BY <2>1, <2>2 DEF Restored, Starting, ChecksOut
  <1>7. CASE ReadCard
    <2>1. UNCHANGED <<params, job, writeReq, card, version, hist>> /\ sd'.op = "idle"
      BY <1>7 DEF ReadCard, Answer, Idle
    <2>2. answer'.img = card.data /\ answer'.ok = ChecksOut(card)
      BY <1>1, <1>7 DEF ReadCard, Answer, Typed, MessageOK
    <2> QED
      BY <2>1, <2>2 DEF Restored, Starting, ChecksOut
  <1>8. CASE WriteBlock \/ WriteDone
    <2>1. job # "boot" /\ UNCHANGED <<params, job, version, hist>>
      BY <1>8 DEF WriteBlock, WriteDone, Restored, Starting
    <2> QED
      BY <2>1 DEF Restored, Starting
  <1>9. CASE Restart /\ version' = version
    <2>1. /\ hist'.images = hist.images /\ ~ hist'.sure
          /\ hist'.found = IF ChecksOut(card) THEN card.data ELSE Blank
      BY <1>1, <1>9 DEF Restart, Typed
    <2>2. /\ job' = "boot" /\ card' = card /\ writeReq'.id = 0 /\ answer'.id = 0
          /\ sd'.op = "idle"
      BY <1>9 DEF Restart, Booted, Idle, NoMsg
    <2> QED
      BY <1>9, <2>1, <2>2 DEF Restored, Starting, ChecksOut
  <1>10. CASE UNCHANGED vars
    BY <1>10 DEF vars, Restored, Starting, ChecksOut
  <1> QED
    BY <1>2, <1>3, <1>4, <1>5, <1>6, <1>7, <1>8, <1>9, <1>10 DEF WorkingNext

-----------------------------------------------------------------------------
(* The simulated firmware's file. *)
OfTheirKind(ps) == \A n \in Sim!NameSet : Kind[n] = "Int" => ps[n] % 10 = 0

LEMMA SimConstants ==
  /\ Names \in Seq(Sim!NameSet) /\ Len(Names) \in Nat \ {0} /\ DOMAIN Names = 1 .. Len(Names)
  /\ \A i, j \in 1 .. Len(Names) : Names[i] = Names[j] => i = j
  /\ \A n \in Sim!NameSet : \E i \in 1 .. Len(Names) : Names[i] = n
  /\ \A i \in 1 .. Len(Names) : Names[i] \in Sim!NameSet
  /\ \A n \in Sim!NameSet : Kind[n] \in {"Int", "Float"}
  /\ Values \subseteq Nat
  /\ SimDefault \in [Sim!NameSet -> Nat] /\ OfTheirKind(SimDefault)
  <1>1. /\ Names \in Seq(Sim!NameSet) /\ Names # <<>> /\ Sim!IsInjective(Names)
        /\ Kind \in [Sim!NameSet -> {"Int", "Float"}] /\ Values \subseteq Nat
        /\ SimDefault \in [Sim!NameSet -> Values]
        /\ \A n \in Sim!NameSet : Kind[n] = "Int" => SimDefault[n] % 10 = 0
    BY SimAssumed DEF Sim!SimParamsAssumption
  <1>2. Len(Names) \in Nat \ {0} /\ DOMAIN Names = 1 .. Len(Names)
    BY <1>1
  <1>3. Sim!NameSet = {Names[i] : i \in 1 .. Len(Names)}
    BY <1>2 DEF Sim!NameSet, Sim!Range
  <1>4. \A i, j \in 1 .. Len(Names) : Names[i] = Names[j] => i = j
    BY <1>1, <1>2 DEF Sim!IsInjective
  <1> QED
    BY <1>1, <1>2, <1>3, <1>4 DEF OfTheirKind

(* The text of a number is read as that number, where its kind can have it, *)
(* and what is read is of its kind.                                         *)
LEMMA FormatParse ==
  ASSUME NEW v \in Nat, NEW kind \in {"Int", "Float"}
  PROVE  /\ Sim!Parse(Sim!Format(v), kind) \in {{v}, {}}
         /\ (kind = "Int" => v % 10 = 0) <=> Sim!Parse(Sim!Format(v), kind) = {v}
  <1>1. CASE v % 10 = 0
    <2>1. Sim!Format(v) = <<"whole", v \div 10>> /\ (v \div 10) * 10 = v
      BY <1>1 DEF Sim!Format
    <2>2. Sim!Parse(<<"whole", v \div 10>>, kind) = {(v \div 10) * 10}
      BY DEF Sim!Parse
    <2> QED
      BY <1>1, <2>1, <2>2
  <1>2. CASE v % 10 # 0
    <2>1. Sim!Format(v) = <<"point", v>>
      BY <1>2 DEF Sim!Format
    <2>2. Sim!Parse(<<"point", v>>, kind) = IF kind = "Float" THEN {v} ELSE {}
      BY DEF Sim!Parse
    <2> QED
      BY <1>2, <2>1, <2>2
  <1> QED
    BY <1>1, <1>2

(* A whole file gives each parameter its value, or the default where its    *)
(* kind cannot have it.                                                     *)
LEMMA WholeFile ==
  ASSUME NEW ps \in [Sim!NameSet -> Nat]
  PROVE  LET read == Sim!ReadParams(Sim!Lines(ps))
         IN  /\ read = [n \in Sim!NameSet |->
                          IF Kind[n] = "Int" => ps[n] % 10 = 0 THEN ps[n] ELSE SimDefault[n]]
             /\ read \in [Sim!NameSet -> Nat] /\ OfTheirKind(read)
             /\ OfTheirKind(ps) => read = ps
  <1> DEFINE lines == Sim!Lines(ps)
             read == Sim!ReadParams(lines)
             mine(n) == {i \in DOMAIN lines :
                           lines[i][1] = n /\ Sim!Parse(lines[i][2], Kind[n]) # {}}
  <1>1. DOMAIN lines = 1 .. Len(Names)
        /\ \A i \in 1 .. Len(Names) : lines[i] = <<Names[i], Sim!Format(ps[Names[i]])>>
    BY DEF Sim!Lines
  <1>2. read = [n \in Sim!NameSet |->
                  IF mine(n) = {} THEN SimDefault[n]
                  ELSE CHOOSE v \in Sim!Parse(lines[Sim!Max(mine(n))][2], Kind[n]) : TRUE]
    BY DEF Sim!ReadParams
  <1>3. ASSUME NEW n \in Sim!NameSet
        PROVE  read[n] = IF Kind[n] = "Int" => ps[n] % 10 = 0 THEN ps[n] ELSE SimDefault[n]
    <2>1. PICK i \in 1 .. Len(Names) : Names[i] = n
      BY SimConstants
    <2>2. \A j \in 1 .. Len(Names) : Names[j] = n => j = i
      BY <2>1, SimConstants
    <2>3. lines[i][1] = n /\ lines[i][2] = Sim!Format(ps[n])
      BY <1>1, <2>1
    <2>4. Kind[n] \in {"Int", "Float"} /\ ps[n] \in Nat
      BY SimConstants
    <2>5. CASE Kind[n] = "Int" => ps[n] % 10 = 0
      <3>1. Sim!Parse(lines[i][2], Kind[n]) = {ps[n]}
        BY <2>3, <2>4, <2>5, FormatParse
      <3>2. mine(n) = {i}
        BY <1>1, <2>1, <2>2, <2>3, <3>1
      <3>3. Sim!Max({i}) = i
        BY SimConstants DEF Sim!Max
      <3>4. read[n] = CHOOSE v \in {ps[n]} : TRUE
        BY <1>2, <3>1, <3>2, <3>3
      <3> QED
        BY <2>5, <3>4
    <2>6. CASE ~ (Kind[n] = "Int" => ps[n] % 10 = 0)
      <3>1. Sim!Parse(lines[i][2], Kind[n]) = {}
        BY <2>3, <2>4, <2>6, FormatParse
      <3>2. mine(n) = {}
        BY <1>1, <2>2, <3>1
      <3> QED
        BY <1>2, <2>6, <3>2
    <2> QED
      BY <2>5, <2>6
  <1>4. DOMAIN read = Sim!NameSet
    BY <1>2
  <1>5. read = [n \in Sim!NameSet |->
                  IF Kind[n] = "Int" => ps[n] % 10 = 0 THEN ps[n] ELSE SimDefault[n]]
    <2> HIDE DEF read
    <2> QED
      BY <1>2, <1>3 DEF read
  <1> HIDE DEF read, lines
  <1>6. read \in [Sim!NameSet -> Nat] /\ OfTheirKind(read)
    BY <1>5, SimConstants DEF OfTheirKind
  <1>7. OfTheirKind(ps) => read = ps
    BY <1>5 DEF OfTheirKind
  <1> QED
    BY <1>5, <1>6, <1>7 DEF read, lines

(* The temporary file is a beginning of the parameters' lines while it is   *)
(* written, and all of them when it takes the file's place.                 *)
Filled ==
  sim_running /\ sim_step # "idle" =>
    /\ Len(sim_tmp) \in 0 .. Len(Names)
    /\ sim_tmp = [i \in 1 .. Len(sim_tmp) |-> Sim!Lines(sim_params)[i]]
    /\ sim_step = "fill" => Len(sim_tmp) < Len(Names)
    /\ sim_step = "rename" => Len(sim_tmp) = Len(Names)

SimInv ==
  /\ sim_params \in [Sim!NameSet -> Nat] /\ OfTheirKind(sim_params)
  /\ sim_step \in {"idle", "fill", "rename"}
  /\ \E ps \in [Sim!NameSet -> Nat] : sim_file = Sim!Lines(ps)
  /\ Sim!SavedIsReadBack
  /\ Filled

LEMMA SimInit == Sim!Init => SimInv
  <1> SUFFICES ASSUME Sim!Init PROVE SimInv
    OBVIOUS
  <1>1. Sim!OldValues \subseteq [Sim!NameSet -> Nat]
    BY SimConstants DEF Sim!OldValues
  <1>2. PICK ps \in Sim!OldValues :
          sim_file = Sim!Lines(ps) /\ sim_acked = Sim!ReadParams(Sim!Lines(ps))
    BY DEF Sim!Init
  <1> QED
    BY <1>1, <1>2, SimConstants DEF Sim!Init, SimInv, Filled, Sim!SavedIsReadBack

LEMMA SimNext == SimInv /\ [Sim!Next]_simVars => SimInv'
  <1> SUFFICES ASSUME SimInv, [Sim!Next]_simVars PROVE SimInv'
    OBVIOUS
  <1> USE DEF SimInv
  <1>1. CASE Sim!Create
    <2>1. PICK ps \in [Sim!NameSet -> Nat] : sim_file = Sim!Lines(ps)
      OBVIOUS
    <2>2. sim_params' \in [Sim!NameSet -> Nat] /\ OfTheirKind(sim_params')
      BY <1>1, <2>1, WholeFile DEF Sim!Create
    <2> QED
      BY <1>1, <2>2 DEF Sim!Create, Filled, Sim!SavedIsReadBack
  <1>2. CASE \E n \in Sim!NameSet, v \in Values : Sim!SetParam(n, v)
    <2>1. PICK n \in Sim!NameSet, v \in Values : Sim!SetParam(n, v)
      BY <1>2
    <2>2. sim_params' = [sim_params EXCEPT ![n] = v] /\ v \in Nat
          /\ (Kind[n] = "Int" => v % 10 = 0)
      BY <2>1, SimConstants DEF Sim!SetParam
    <2>3. sim_params' \in [Sim!NameSet -> Nat] /\ OfTheirKind(sim_params')
      BY <2>2 DEF OfTheirKind
    <2> QED
      BY <2>1, <2>3 DEF Sim!SetParam, Filled, Sim!SavedIsReadBack
  <1>3. CASE Sim!Begin
    <2>1. sim_tmp' = <<>> /\ sim_step' = "fill" /\ sim_running'
          /\ UNCHANGED <<sim_params, sim_file, sim_acked>>
      BY <1>3 DEF Sim!Begin
    <2>2. Filled'
      BY <2>1, SimConstants DEF Filled
    <2> QED
      BY <2>1, <2>2 DEF Sim!SavedIsReadBack
  <1>4. CASE Sim!Fill
    <2>1. /\ sim_tmp' = Append(sim_tmp, Sim!Lines(sim_params)[Len(sim_tmp) + 1])
          /\ sim_step' = IF Len(sim_tmp) + 1 = Len(Names) THEN "rename" ELSE "fill"
          /\ UNCHANGED <<sim_params, sim_file, sim_acked>>
      BY <1>4 DEF Sim!Fill
    <2>2. /\ Len(sim_tmp) \in 0 .. Len(Names) /\ Len(sim_tmp) < Len(Names)
          /\ sim_tmp = [i \in 1 .. Len(sim_tmp) |-> Sim!Lines(sim_params)[i]]
      BY <1>4 DEF Sim!Fill, Filled
    <2> DEFINE n == Len(sim_tmp)
               all == Sim!Lines(sim_params)
    <2>3. n \in Nat /\ Len(Names) \in Nat /\ sim_tmp = [i \in 1 .. n |-> all[i]]
      BY <2>2, SimConstants
    <2> HIDE DEF n, all
    <2>4. Len(sim_tmp') = n + 1 /\ sim_tmp' = [i \in 1 .. n + 1 |-> all[i]]
      <3>1. sim_tmp' = Append([i \in 1 .. n |-> all[i]], all[n + 1])
        BY <2>1, <2>3 DEF n, all
      <3> QED
        BY <2>3, <3>1
    <2>5. Filled'
      BY <2>1, <2>2, <2>3, <2>4 DEF Filled, n, all
    <2> QED
      BY <2>1, <2>5 DEF Sim!SavedIsReadBack
  <1>5. CASE Sim!Rename
    <2>1. /\ sim_file' = sim_tmp /\ sim_acked' = sim_params /\ sim_step' = "idle"
          /\ sim_params' = sim_params
      BY <1>5 DEF Sim!Rename
    <2>2. sim_tmp = Sim!Lines(sim_params)
      BY <1>5 DEF Sim!Rename, Filled, Sim!Lines
    <2>3. Sim!ReadParams(sim_file') = sim_acked'
      BY <2>1, <2>2, WholeFile
    <2> QED
      BY <2>1, <2>2, <2>3 DEF Filled, Sim!SavedIsReadBack
  <1>6. CASE Sim!Refused \/ Sim!Killed
    BY <1>6 DEF Sim!Refused, Sim!Killed, Filled, Sim!SavedIsReadBack
  <1>7. CASE UNCHANGED simVars
    BY <1>7 DEF simVars, Filled, Sim!SavedIsReadBack
  <1> QED
    BY <1>1, <1>2, <1>3, <1>4, <1>5, <1>6, <1>7 DEF Sim!Next

-----------------------------------------------------------------------------
(* What was saved is found again after a restart: in the simulated          *)
(* firmware's file through kills and refused writes (ffi.rs), for every set *)
(* of parameters, and on a card that works in time (params/storage.rs), for *)
(* images of every length and any number of restarts.                       *)
THEOREM Kept == SuiteSpec => []KeptOverRestarts
  <1> DEFINE Inv == IInv /\ (subject = "in_time" => Restored) /\ SimInv
  <1>1. SuiteInit => Inv
    BY InitIInv, RestoredInit, SimInit DEF SuiteInit
  <1>2. Inv /\ [SuiteNext]_suiteVars => Inv'
    <2> SUFFICES ASSUME Inv, [SuiteNext]_suiteVars PROVE Inv'
      OBVIOUS
    <2>1. subject' = subject
      BY DEF SuiteNext, Still, suiteVars
    <2>2. [Next]_vars
      BY InTimeWorks, WorkingIsNext DEF SuiteNext, Still, suiteVars
    <2>3. subject = "in_time" => [WorkingNext]_vars
      BY InTimeWorks DEF SuiteNext, Still, suiteVars
    <2>4. [Sim!Next]_simVars
      BY DEF SuiteNext, Still, suiteVars
    <2> QED
      BY <2>1, <2>2, <2>3, <2>4, NextIInv, RestoredNext, SimNext
  <1>3. Inv => KeptOverRestarts
    BY DEF KeptOverRestarts, IInv, Typed, MessageOK, Images, TypeOK, Restored, StartRestoresCard,
           SimInv, OfTheirKind, Sim!ValuesOfTheirKind
  <1> QED
    BY <1>1, <1>2, <1>3, PTL DEF SuiteSpec
=============================================================================
