------------------------------- MODULE RxRing -------------------------------
(***************************************************************************)
(* The ring of frame slots through which the IOP hands received frames to  *)
(* the EE (src/netman_iop/src/rpc_client.c), the receive thread of the EE  *)
(* (src/netman/src/rpc_server.c) and the pool of packet buffers it uses    *)
(* (src/src/networking.c).                                                 *)
(*                                                                         *)
(* A slot of the EE always has a packet buffer, whose address the IOP      *)
(* knows: a frame is transferred into it, and its status after it.  The    *)
(* EE puts a new buffer in the slot and tells the IOP, which may then use  *)
(* the slot again.  Interrupts of the EE are taken at once, so no thread   *)
(* of the EE takes a step while one is pending.                            *)
(*                                                                         *)
(* Frames are numbered; the length of a frame is its number, since only    *)
(* zero and not zero matter.                                               *)
(***************************************************************************)
EXTENDS FrameRing, Sequences

\* NUM_PACKET_BUFFERS: one more than there are slots.
Buffers == 1 .. Slots + 1
NULL == 0

\* USHRT_MAX: the slot waits for a buffer.
IN_USE == MaxFrames + 1
Lengths == 0 .. IN_USE

VARIABLES
  received, EEWrPtr,      \* the network adaptor of the IOP, EEFrameBufferWrPtr
  iopStatus, handed,      \* FrameBufferStatus of the IOP: lengths, buffers
  group, alarm,           \* dmatReqs, and whether FrameSendCB is set
  toEE, stalled,          \* what the channel to the EE has yet to transfer; it is stopped
  irq,                    \* the interrupt of that channel is pending
  eeStatus, inSlot,       \* FrameBufferStatus of the EE: lengths, buffers
  contents,               \* the frame in each packet buffer
  rxpc, wakeups, IsProcessingRx,  \* the receive thread
  rxRdPtr, rxNextRdPtr,   \*   RxBufferRdPtr, RxBufferNextRdPtr
  packet, packetNext,     \*   and its local variables
  given,                  \* slots the EE has given their first buffer
  releases,               \* ClearBufferLen transfers under way to the IOP
  free,                   \* free_packet_buffer
  delivered               \* the frames the packet stack has been given

iopVars == <<received, EEWrPtr, group, alarm>>
threadVars == <<rxpc, rxRdPtr, rxNextRdPtr, packet, packetNext>>
wakeVars == <<wakeups, IsProcessingRx>>
sifVars == <<toEE, stalled, irq>>
rxVars == <<iopVars, iopStatus, handed, sifVars, eeStatus, inSlot, contents, wakeVars,
          threadVars, given, releases, free, delivered>>

Entries == [slot : Slot, buffer : Buffers, notify : BOOLEAN]

RxTypeOK ==
  /\ received \in 0 .. MaxFrames /\ EEWrPtr \in Slot
  /\ iopStatus \in [Slot -> Lengths] /\ handed \in [Slot -> Buffers \cup {NULL}]
  /\ group \in Seq(Entries) /\ Len(group) < GroupSize
  /\ alarm \in BOOLEAN /\ (alarm <=> group # <<>>)
  /\ toEE \in Seq(Entries) /\ stalled \in BOOLEAN /\ irq \in BOOLEAN
  /\ eeStatus \in [Slot -> Lengths] /\ inSlot \in [Slot -> Buffers \cup {NULL}]
  /\ contents \in [Buffers -> 0 .. MaxFrames]
  /\ rxpc \in {"poll", "sleep", "alloc", "next", "clear", "advance", "deliver"}
  /\ wakeups \in 0 .. 2 /\ IsProcessingRx \in BOOLEAN
  /\ rxRdPtr \in Slot /\ rxNextRdPtr \in Slot
  /\ packet \in Buffers \cup {NULL} /\ packetNext \in Buffers \cup {NULL}
  /\ given \in 0 .. Slots
  /\ releases \in Seq([slot : Slot, buffer : Buffers])
  /\ free \in Seq(Buffers)
  /\ delivered \in Seq(0 .. MaxFrames)

\* NetManInitRPCClient, NETMAN_EE_RPC_FUNC_INIT and InitConnection.
RxInit ==
  /\ received = 0 /\ EEWrPtr = 0
  /\ iopStatus = [s \in Slot |-> IN_USE] /\ handed = [s \in Slot |-> NULL]
  /\ group = <<>> /\ alarm = FALSE
  /\ toEE = <<>> /\ stalled = FALSE /\ irq = FALSE
  /\ eeStatus = [s \in Slot |-> 0] /\ inSlot = [s \in Slot |-> NULL]
  /\ contents = [b \in Buffers |-> 0]
  /\ rxpc = "poll" /\ wakeups = 0 /\ IsProcessingRx = FALSE
  /\ rxRdPtr = 0 /\ rxNextRdPtr = 0 /\ packet = NULL /\ packetNext = NULL
  /\ given = 0 /\ releases = <<>>
  /\ free = [b \in Buffers |-> b]
  /\ delivered = <<>>

-----------------------------------------------------------------------------
(***************************************************************************)
(* The IOP.                                                                *)
(***************************************************************************)
\* The last frame of a group notifies the receive thread.
Notifying(g) == [g EXCEPT ![Len(g)].notify = TRUE]

\* AllocRxPacket finds the slot free; otherwise the adaptor drops the frame.
SlotIsFree == iopStatus[EEWrPtr] = 0

(***************************************************************************)
(* The adaptor allocates a packet, copies a frame into it and calls        *)
(* EnQFrame, which cancels the alarm: a group that is full is sent, any    *)
(* other waits for the alarm.                                              *)
(***************************************************************************)
EnQFrame ==
  /\ received < MaxFrames /\ SlotIsFree
  /\ received' = received + 1
  /\ iopStatus' = [iopStatus EXCEPT ![EEWrPtr] = received']
  /\ EEWrPtr' = After(EEWrPtr)
  /\ LET e == [slot |-> EEWrPtr, buffer |-> handed[EEWrPtr], notify |-> FALSE]
         g == Append(group, e)
     IN  IF Len(g) >= GroupSize
         THEN /\ toEE' = toEE \o Notifying(g)
              /\ group' = <<>> /\ alarm' = FALSE
         ELSE group' = g /\ alarm' = TRUE /\ UNCHANGED toEE
  /\ UNCHANGED <<handed, stalled, irq, eeStatus, inSlot, contents, wakeVars, threadVars,
                 given, releases, free, delivered>>

\* Mutant of FrameSendCB: when sending fails the alarm is not set again.
FrameSendCBOnce ==
  /\ alarm
  /\ alarm' = FALSE
  /\ \/ toEE' = toEE \o Notifying(group) /\ group' = <<>>
     \/ group' = Notifying(group) /\ UNCHANGED toEE
  /\ UNCHANGED <<received, EEWrPtr, iopStatus, handed, stalled, irq, eeStatus, inSlot,
                 contents, wakeVars, threadVars, given, releases, free, delivered>>

\* The alarm: there is room for the transfers, or it is tried again later.
FrameSendCB ==
  /\ alarm
  /\ \/ /\ toEE' = toEE \o Notifying(group)
        /\ group' = <<>> /\ alarm' = FALSE
     \/ /\ group' = Notifying(group)
        /\ UNCHANGED <<toEE, alarm>>
  /\ UNCHANGED <<received, EEWrPtr, iopStatus, handed, stalled, irq, eeStatus, inSlot,
                 contents, wakeVars, threadVars, given, releases, free, delivered>>

\* A frame arrives in its buffer, and its status after it.  With SIF_DMA_INT_O
\* the channel stops and interrupts the EE.
FrameArrives ==
  /\ toEE # <<>> /\ ~stalled
  /\ LET e == Head(toEE) IN
       /\ contents' = [contents EXCEPT ![e.buffer] = iopStatus[e.slot]]
       /\ eeStatus' = [eeStatus EXCEPT ![e.slot] = iopStatus[e.slot]]
       /\ inSlot' = [inSlot EXCEPT ![e.slot] = handed[e.slot]]
       /\ stalled' = e.notify
       /\ irq' = (irq \/ e.notify)
  /\ toEE' = Tail(toEE)
  /\ UNCHANGED <<iopVars, iopStatus, handed, wakeVars, threadVars, given, releases, free,
                 delivered>>

\* A ClearBufferLen of the EE arrives: what is transferred is the EE's status.
ReleaseArrives ==
  /\ releases # <<>>
  /\ LET e == Head(releases) IN
       /\ iopStatus' = [iopStatus EXCEPT ![e.slot] = eeStatus[e.slot]]
       /\ handed' = [handed EXCEPT ![e.slot] = inSlot[e.slot]]
  /\ releases' = Tail(releases)
  /\ UNCHANGED <<iopVars, sifVars, eeStatus, inSlot, contents, wakeVars, threadVars,
                 given, free, delivered>>

-----------------------------------------------------------------------------
(***************************************************************************)
(* The EE.                                                                 *)
(***************************************************************************)
\* Another user of the channel has been interrupted: all handlers are called.
OtherSifEvent ==
  /\ ~irq /\ ~stalled
  /\ irq' = TRUE
  /\ UNCHANGED <<iopVars, iopStatus, handed, toEE, stalled, eeStatus, inSlot, contents,
                 wakeVars, threadVars, given, releases, free, delivered>>

\* Mutant of FrameIsThere: it looks at the slot that is being released.
FrameIsThereAtRdPtr == eeStatus[rxRdPtr] > 0

FrameIsThere == eeStatus[rxNextRdPtr] > 0

\* The interrupt: the channel goes on, and the receive thread is woken.
EEHandleRxEvent ==
  /\ irq
  /\ irq' = FALSE
  /\ IF FrameIsThere
     THEN /\ stalled' = FALSE
          /\ IsProcessingRx' = TRUE
          /\ wakeups' = IF IsProcessingRx THEN wakeups ELSE wakeups + 1
     ELSE UNCHANGED <<stalled, wakeVars>>
  /\ UNCHANGED <<iopVars, iopStatus, handed, toEE, eeStatus, inSlot, contents, threadVars,
                 given, releases, free, delivered>>

\* AllocRxPacket takes the first free buffer, FreeRxPacket puts one there.
\* (NoneMissing: the pool is never empty when this is called.)
Alloc(b) == free # <<>> /\ b = Head(free) /\ free' = Tail(free)
Free(b) == free' = <<b>> \o free

\* ClearBufferLen.
Clear(s, b) ==
  /\ eeStatus' = [eeStatus EXCEPT ![s] = 0]
  /\ inSlot' = [inSlot EXCEPT ![s] = b]
  /\ releases' = Append(releases, [slot |-> s, buffer |-> b])

\* NetManRPCAllocRxBuffers, slot by slot.
GiveBuffer ==
  /\ ~irq /\ given < Slots
  /\ \E b \in Buffers : Alloc(b) /\ Clear(given, b)
  /\ given' = given + 1
  /\ UNCHANGED <<iopVars, iopStatus, handed, sifVars, contents, wakeVars, threadVars,
                 delivered>>

\* Mutant of Poll: the thread goes to sleep with IsProcessingRx still set.
PollProcessing ==
  /\ ~irq /\ rxpc = "poll"
  /\ IF eeStatus[rxRdPtr] > 0
     THEN packet' = inSlot[rxRdPtr] /\ rxpc' = "alloc"
     ELSE rxpc' = "sleep" /\ UNCHANGED packet
  /\ UNCHANGED <<iopVars, iopStatus, handed, sifVars, eeStatus, inSlot, contents, wakeVars,
                 rxRdPtr, rxNextRdPtr, packetNext, given, releases, free, delivered>>

\* NETMAN_RxThread looks at its slot with interrupts disabled.
Poll ==
  /\ ~irq /\ rxpc = "poll"
  /\ IF eeStatus[rxRdPtr] > 0
     THEN /\ packet' = inSlot[rxRdPtr]
          /\ rxpc' = "alloc"
          /\ UNCHANGED IsProcessingRx
     ELSE /\ IsProcessingRx' = FALSE
          /\ rxpc' = "sleep"
          /\ UNCHANGED packet
  /\ UNCHANGED <<iopVars, iopStatus, handed, sifVars, eeStatus, inSlot, contents, wakeups,
                 rxRdPtr, rxNextRdPtr, packetNext, given, releases, free, delivered>>

\* SleepThread returns.
Sleep ==
  /\ ~irq /\ rxpc = "sleep" /\ wakeups > 0
  /\ wakeups' = wakeups - 1
  /\ rxpc' = "poll"
  /\ UNCHANGED <<iopVars, iopStatus, handed, sifVars, eeStatus, inSlot, contents,
                 IsProcessingRx, rxRdPtr, rxNextRdPtr, packet, packetNext, given,
                 releases, free, delivered>>

\* `Must successfully allocate a replacement buffer for the input buffer.'
AllocNext ==
  /\ ~irq /\ rxpc = "alloc"
  /\ \E b \in Buffers : Alloc(b) /\ packetNext' = b
  /\ rxpc' = "next"
  /\ UNCHANGED <<iopVars, iopStatus, handed, sifVars, eeStatus, inSlot, contents, wakeVars,
                 rxRdPtr, rxNextRdPtr, packet, given, releases, delivered>>

\* RxBufferNextRdPtr goes on before the slot is released ...
AdvanceNext ==
  /\ ~irq /\ rxpc = "next"
  /\ rxNextRdPtr' = After(rxNextRdPtr)
  /\ rxpc' = "clear"
  /\ UNCHANGED <<iopVars, iopStatus, handed, sifVars, eeStatus, inSlot, contents, wakeVars,
                 rxRdPtr, packet, packetNext, given, releases, free, delivered>>

\* Mutant: the IOP is given the buffer whose frame is still to be processed.
ReleaseSlotWithPacket ==
  /\ ~irq /\ rxpc = "clear"
  /\ Clear(rxRdPtr, packet)
  /\ rxpc' = "advance"
  /\ UNCHANGED <<iopVars, iopStatus, handed, sifVars, contents, wakeVars, rxRdPtr,
                 rxNextRdPtr, packet, packetNext, given, free, delivered>>

ReleaseSlot ==
  /\ ~irq /\ rxpc = "clear"
  /\ Clear(rxRdPtr, packetNext)
  /\ rxpc' = "advance"
  /\ UNCHANGED <<iopVars, iopStatus, handed, sifVars, contents, wakeVars, rxRdPtr,
                 rxNextRdPtr, packet, packetNext, given, free, delivered>>

\* ... and RxBufferRdPtr after it.
Advance ==
  /\ ~irq /\ rxpc = "advance"
  /\ rxRdPtr' = rxNextRdPtr
  /\ rxpc' = "deliver"
  /\ UNCHANGED <<iopVars, iopStatus, handed, sifVars, eeStatus, inSlot, contents, wakeVars,
                 rxNextRdPtr, packet, packetNext, given, releases, free, delivered>>

\* Mutant of EnQRxPacket: a frame of a protocol it does not know is not freed.
EnQRxPacketKept ==
  /\ ~irq /\ rxpc = "deliver"
  /\ delivered' = Append(delivered, contents[packet])
  /\ \/ Free(packet)
     \/ UNCHANGED free
  /\ rxpc' = "poll"
  /\ UNCHANGED <<iopVars, iopStatus, handed, sifVars, eeStatus, inSlot, contents, wakeVars,
                 rxRdPtr, rxNextRdPtr, packet, packetNext, given, releases>>

\* EnQRxPacket handles the frame, and frees the packet whatever it was.
EnQRxPacket ==
  /\ ~irq /\ rxpc = "deliver"
  /\ delivered' = Append(delivered, contents[packet])
  /\ Free(packet)
  /\ rxpc' = "poll"
  /\ UNCHANGED <<iopVars, iopStatus, handed, sifVars, eeStatus, inSlot, contents, wakeVars,
                 rxRdPtr, rxNextRdPtr, packet, packetNext, given, releases>>

-----------------------------------------------------------------------------
RxThread == \/ Poll \/ Sleep \/ AllocNext \/ AdvanceNext \/ ReleaseSlot \/ Advance
            \/ EnQRxPacket

RxNext == \/ EnQFrame \/ FrameSendCB \/ FrameArrives \/ ReleaseArrives
          \/ OtherSifEvent \/ EEHandleRxEvent \/ GiveBuffer \/ RxThread

RxSpec == RxInit /\ [][RxNext]_rxVars

(***************************************************************************)
(* Transfers end; interrupts are taken; the receive thread runs when       *)
(* nothing more urgent does; the alarm finds room in the end.              *)
(***************************************************************************)
RxFairness ==
  /\ WF_rxVars(FrameArrives) /\ WF_rxVars(EEHandleRxEvent)
  /\ SF_rxVars(RxThread) /\ WF_rxVars(FrameSendCB /\ group' = <<>>)

-----------------------------------------------------------------------------
(***************************************************************************)
(* The packet stack is given the frames the adaptor accepted, in order,    *)
(* each once and whole: no frame is put into a slot or a buffer still in   *)
(* use.                                                                    *)
(***************************************************************************)
DeliveredInOrder == \A i \in DOMAIN delivered : delivered[i] = i

(***************************************************************************)
(* NUM_PACKET_BUFFERS is just enough: each allocation, of the receive      *)
(* thread and of the thread that registers the stack, finds a buffer.      *)
(* (The first that did not would print; the next would leave interrupts    *)
(* disabled.)                                                              *)
(***************************************************************************)
NoneMissing == rxpc = "alloc" \/ given < Slots => free # <<>>

(***************************************************************************)
(* The channel to the EE never stays stopped: when it is, the interrupt    *)
(* that lets it go on is pending, and the handler will find a frame where  *)
(* it looks, although the receive thread is releasing slots meanwhile.     *)
(***************************************************************************)
ChannelGoesOn == stalled => irq /\ FrameIsThere

(***************************************************************************)
(* The receive thread does not sleep on a frame: when nobody is to wake it *)
(* (no wakeup, interrupt, transfer or alarm is pending), the packet stack  *)
(* has been given every frame the adaptor accepted, although only the last *)
(* frame of a group interrupts, and only the first interrupt wakes.        *)
(***************************************************************************)
NoneLeftBehind ==
  rxpc = "sleep" /\ wakeups = 0 /\ ~irq /\ toEE = <<>> /\ ~alarm
    => Len(delivered) = received

(***************************************************************************)
(* Every frame the adaptor accepted is given to the packet stack: neither  *)
(* a wakeup skipped because IsProcessingRx is set (HandleRxEvent) nor a    *)
(* group whose alarm finds no room (FrameSendCB) leaves one behind.        *)
(***************************************************************************)
EveryFrameIsDelivered ==
  \A f \in 1 .. MaxFrames : (received >= f) ~> (Len(delivered) >= f)
=============================================================================
