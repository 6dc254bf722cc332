---------------------------- MODULE SerialPipe ----------------------------
(* The byte pipes between the flight loop and the companion link of the     *)
(* STM32 boards: serial_tx_write and serial_rx_read on one side, the UART   *)
(* telemetry tasks or the USB virtual COM port on the other. The tasks run  *)
(* in interrupt executors and empty the transmit pipe while a frame is      *)
(* still being written to it.                                               *)
EXTENDS Naturals, Sequences, FiniteSets, SequencesExt

CONSTANT Ports           \* the ports of the boards, as records of their sizes

VARIABLE port            \* the one this is about

FrameLen == port.FrameLen        \* bytes of a MAVLink frame
PipeSize == port.PipeSize        \* VCP_TX_BUFF_SIZE, TX_BUFF_SIZE
RxPipeSize == port.RxPipeSize    \* VCP_RX_BUFF_SIZE, RX_BUFF_SIZE
PacketSize == port.PacketSize    \* USB_CDC_FS_PACKET_SIZE
Usb == port.Usb                  \* the USB port, else the UART
Counted == port.Counted          \* a USB port built with the diagnostics' counters
MaxFrames == port.MaxFrames      \* bounds of the model
MaxRx == port.MaxRx
MaxBreaks == port.MaxBreaks

PipeAssumption ==
  /\ Ports \subseteq [FrameLen : Nat \ {0}, PipeSize : Nat \ {0}, RxPipeSize : Nat \ {0},
                      PacketSize : Nat \ {0}, Usb : BOOLEAN, Counted : BOOLEAN,
                      MaxFrames : Nat, MaxRx : Nat, MaxBreaks : Nat]
  /\ \A p \in Ports : p.Counted => p.Usb

VARIABLES
  frame,       \* the number of the latest frame given to serial_tx_write
  off,         \* bytes of it in the pipe so far
  sending,     \* serial_tx_write is running
  accepted,    \* frames it returned Ok for
  rejected,    \* frames it returned an error for
  partial,     \* the count of those left cut short in the pipe, where one is kept
  txPipe,      \* bytes <<frame, index>> in the transmit pipe
  hand,        \* bytes the transmit task took from it, not sent yet
  wire,        \* bytes sent
  torn,        \* frames of which a failed transmission lost bytes
  up,          \* the host has the port open
  serving,     \* the transmit task is past wait_connection
  rxServing,   \* the receive task is past wait_connection
  host,        \* how many bytes the host sent
  rxHand,      \* bytes of the packet being written to the receive pipe
  rxPipe,      \* the receive pipe
  seen,        \* the bytes the flight loop read
  breaks       \* failures of the link so far

txVars == <<frame, off, sending, accepted, rejected, partial>>
linkVars == <<txPipe, hand, wire, torn, serving>>
rxVars == <<rxServing, host, rxHand, rxPipe, seen>>
vars == <<port, frame, off, sending, accepted, rejected, partial, txPipe, hand, wire,
          torn, up, serving, rxServing, host, rxHand, rxPipe, seen, breaks>>

FramesOf(bytes) == {b[1] : b \in Range(bytes)}
Stream == wire \o hand \o txPipe

(* One type invariant. *)
TypeOK ==
  /\ frame \in 0 .. MaxFrames /\ off \in 0 .. FrameLen /\ sending \in BOOLEAN
  /\ accepted \subseteq 1 .. frame /\ rejected \subseteq 1 .. frame
  /\ accepted \cap rejected = {}
  /\ partial \in 0 .. Cardinality(rejected)
  /\ Len(txPipe) <= PipeSize /\ Len(rxPipe) <= RxPipeSize
  /\ Range(Stream) \subseteq (1 .. MaxFrames) \X (1 .. FrameLen)
  /\ torn \subseteq 1 .. frame
  /\ {up, serving, rxServing} \subseteq BOOLEAN
  /\ host \in 0 .. MaxRx /\ breaks \in 0 .. MaxBreaks

Init ==
  /\ port \in Ports
  /\ frame = 0 /\ off = 0 /\ sending = FALSE
  /\ accepted = {} /\ rejected = {} /\ partial = 0
  /\ txPipe = <<>> /\ hand = <<>> /\ wire = <<>> /\ torn = {}
  /\ up = ~Usb /\ serving = ~Usb /\ rxServing = ~Usb
  /\ host = 0 /\ rxHand = <<>> /\ rxPipe = <<>> /\ seen = <<>>
  /\ breaks = 0

-----------------------------------------------------------------------------
(* serial_tx_write is given the next frame.                                 *)
SerialTxWrite ==
  /\ ~sending /\ frame < MaxFrames
  /\ sending' = TRUE /\ frame' = frame + 1 /\ off' = 0
  /\ UNCHANGED <<accepted, rejected, partial, up, breaks>>
  /\ UNCHANGED linkVars /\ UNCHANGED rxVars

(* Mutated form: a write goes on from the start of the frame. *)
QueuedAgain(bytes) == [i \in 1 .. bytes |-> <<frame, i>>]

(* Pipe::try_write takes what fits before the end of its ring, at least one *)
(* byte when there is room.                                                 *)
Queued(bytes) == [i \in 1 .. bytes |-> <<frame, off + i>>]

(* A frame is given up, whose head may be queued. With the diagnostics the  *)
(* USB port counts that (record_frame_rejected); the UART never does.       *)
Rejects ==
  /\ rejected' = rejected \cup {frame}
  /\ partial' = IF Counted /\ off # 0 THEN partial + 1 ELSE partial

(* The room in the transmit pipe.                                           *)
Room == PipeSize - Len(txPipe)

(* A turn of its loop: the rest of the frame is offered, all of it taken    *)
(* ends the write, a part of it is gone over, and a full pipe ends it with  *)
(* an error and what was taken left behind.                                 *)
TryWrite ==
  /\ sending
  /\ LET free == Room
     IN \/ /\ free = 0
           /\ Rejects
           /\ sending' = FALSE
           /\ UNCHANGED <<off, accepted, txPipe>>
        \/ \E n \in 1 .. free :
             /\ off + n <= FrameLen
             /\ txPipe' = txPipe \o Queued(n)
             /\ off' = off + n
             /\ sending' = (off + n < FrameLen)
             /\ accepted' = IF off + n = FrameLen THEN accepted \cup {frame} ELSE accepted
             /\ UNCHANGED <<rejected, partial>>
  /\ UNCHANGED <<frame, hand, wire, torn, serving, up, breaks>> /\ UNCHANGED rxVars

(* The transmit task: wait_connection, a read of the pipe, and the chunks   *)
(* of what it read, one packet each on USB and in one piece on the UART.    *)
WaitTxConnection ==
  /\ ~serving /\ up
  /\ serving' = TRUE
  /\ UNCHANGED <<txPipe, hand, wire, torn, up, breaks>>
  /\ UNCHANGED txVars /\ UNCHANGED rxVars

Dequeue ==
  /\ serving /\ hand = <<>> /\ txPipe # <<>>
  /\ \E n \in 1 .. Len(txPipe) :
       /\ hand' = SubSeq(txPipe, 1, n)
       /\ txPipe' = SubSeq(txPipe, n + 1, Len(txPipe))
  /\ UNCHANGED <<wire, torn, serving, up, breaks>>
  /\ UNCHANGED txVars /\ UNCHANGED rxVars

Chunk == IF Usb /\ Len(hand) > PacketSize THEN PacketSize ELSE Len(hand)

WritePacket ==
  /\ serving /\ hand # <<>> /\ up
  /\ wire' = wire \o SubSeq(hand, 1, Chunk)
  /\ hand' = SubSeq(hand, Chunk + 1, Len(hand))
  /\ UNCHANGED <<txPipe, torn, serving, up, breaks>>
  /\ UNCHANGED txVars /\ UNCHANGED rxVars

(* A transmission that fails drops the rest of what was read: the USB task  *)
(* waits for the port to be opened again, the UART task goes on.            *)
WriteFails ==
  /\ serving /\ hand # <<>>
  /\ IF Usb THEN ~up /\ UNCHANGED breaks
            ELSE breaks < MaxBreaks /\ breaks' = breaks + 1
  /\ torn' = torn \cup FramesOf(hand)
  /\ hand' = <<>>
  /\ serving' = ~Usb
  /\ UNCHANGED <<txPipe, wire, up>>
  /\ UNCHANGED txVars /\ UNCHANGED rxVars

(* The host closes and opens the port.                                      *)
HostCloses ==
  /\ Usb /\ up /\ breaks < MaxBreaks
  /\ up' = FALSE /\ breaks' = breaks + 1
  /\ UNCHANGED txVars /\ UNCHANGED linkVars /\ UNCHANGED rxVars

HostOpens ==
  /\ Usb /\ ~up
  /\ up' = TRUE
  /\ UNCHANGED breaks
  /\ UNCHANGED txVars /\ UNCHANGED linkVars /\ UNCHANGED rxVars

-----------------------------------------------------------------------------
(* The receive task: wait_connection, a packet of the host, and write_all,  *)
(* which waits while the pipe is full.                                      *)
WaitRxConnection ==
  /\ ~rxServing /\ up
  /\ rxServing' = TRUE
  /\ UNCHANGED <<host, rxHand, rxPipe, seen, up, breaks>>
  /\ UNCHANGED txVars /\ UNCHANGED linkVars

ReadPacket ==
  /\ rxServing /\ rxHand = <<>>
  /\ \/ /\ up /\ host < MaxRx
        /\ \E n \in 1 .. MaxRx - host :
             /\ rxHand' = [i \in 1 .. n |-> host + i]
             /\ host' = host + n
        /\ UNCHANGED rxServing
     \/ /\ ~up
        /\ rxServing' = FALSE
        /\ UNCHANGED <<rxHand, host>>
  /\ UNCHANGED <<rxPipe, seen, up, breaks>>
  /\ UNCHANGED txVars /\ UNCHANGED linkVars

ProcessBytes ==
  /\ rxHand # <<>> /\ Len(rxPipe) < RxPipeSize
  /\ \E n \in 1 .. RxPipeSize - Len(rxPipe) :
       /\ n <= Len(rxHand)
       /\ rxPipe' = rxPipe \o SubSeq(rxHand, 1, n)
       /\ rxHand' = SubSeq(rxHand, n + 1, Len(rxHand))
  /\ UNCHANGED <<rxServing, host, seen, up, breaks>>
  /\ UNCHANGED txVars /\ UNCHANGED linkVars

(* serial_rx_read: what the pipe holds, or nothing.                         *)
SerialRxRead ==
  /\ rxPipe # <<>>
  /\ \E n \in 1 .. Len(rxPipe) :
       /\ seen' = seen \o SubSeq(rxPipe, 1, n)
       /\ rxPipe' = SubSeq(rxPipe, n + 1, Len(rxPipe))
  /\ UNCHANGED <<rxServing, host, rxHand, up, breaks>>
  /\ UNCHANGED txVars /\ UNCHANGED linkVars

Next ==
  /\ UNCHANGED port
  /\ \/ SerialTxWrite \/ TryWrite
     \/ WaitTxConnection \/ Dequeue \/ WritePacket \/ WriteFails
     \/ HostCloses \/ HostOpens
     \/ WaitRxConnection \/ ReadPacket \/ ProcessBytes \/ SerialRxRead

Spec == Init /\ [][Next]_vars

-----------------------------------------------------------------------------
(* The bytes on the wire, in the task's hands and in the pipe are those of  *)
(* the frames in the order they were written: none twice, none out of       *)
(* order, whatever was cut short or dropped.                                *)
NothingReordered ==
  \A i \in 1 .. Len(Stream) - 1 :
    LET a == Stream[i]
        b == Stream[i + 1]
    IN a[1] < b[1] \/ (a[1] = b[1] /\ a[2] < b[2])

(* A frame that serial_tx_write answered Ok for reaches the companion       *)
(* whole: it is lost or cut only if a transmission failed while the task    *)
(* held some of its bytes.                                                  *)
AcceptedWhole ==
  \A f \in accepted \ torn : \A i \in 1 .. FrameLen : \E k \in 1 .. Len(Stream) : Stream[k] = <<f, i>>

(* On a port that counts, a frame whose head went out without its tail is   *)
(* one the counter of partial failures counted, or one a failed             *)
(* transmission tore.                                                       *)
CutFrames ==
  {f \in FramesOf(Stream) \ (accepted \cup torn) : ~(sending /\ f = frame)}

CutsCounted ==
  Counted =>
    /\ Cardinality(CutFrames) <= partial
    /\ torn = {} => Cardinality(CutFrames) = partial

(* What the flight loop reads is what the companion sent, byte for byte:    *)
(* a full receive pipe holds the host back and loses nothing.               *)
ReceivedWhole ==
  LET rx == seen \o rxPipe \o rxHand
  IN Len(rx) = host /\ \A i \in 1 .. Len(rx) : rx[i] = i

(* Received bytes reach the flight loop although nothing is being sent: the *)
(* two directions of the USB port do not wait for each other.               *)
ReceivedServed == rxHand # <<>> ~> rxHand = <<>> /\ rxPipe = <<>>
=============================================================================
