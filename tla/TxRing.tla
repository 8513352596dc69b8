------------------------------- MODULE TxRing -------------------------------
(***************************************************************************)
(* The ring of frame slots in IOP memory through which the transmit thread *)
(* of the EE (src/netman/src/rpc_client.c, NETMAN_TxThread) hands frames   *)
(* to the network adaptor of the IOP (src/netman_iop/src/rpc_server.c).    *)
(*                                                                         *)
(* Each side has its own copy of FrameBufferStatus: the EE writes to the   *)
(* IOP's by DMA or through a SIF command, the IOP clears the EE's by DMA.  *)
(* Frames are numbered; the length of a frame is its number, since only    *)
(* zero and not zero matter.                                               *)
(***************************************************************************)
EXTENDS FrameRing, Sequences

VARIABLES
  txpc, sent, NumTx,        \* the transmit thread, frames it has handed over
  eeLength, wrPtr,          \* FrameBufferStatus and IOPFrameBufferWrPtr of the EE
  sif,                      \* the transfer to the IOP that is under way
  buffer, length, rdPtr,    \* TxFrameBuffer, FrameBufferStatus, IOPFrameBufferRdPtr
  clears,                   \* slots whose ClearBufferLen is on its way to the EE
  xmit,                     \* NetManNetIFXmit has been called since the adaptor last
                            \* found nothing to send
  sending, wire,            \* the adaptor is copying a frame; what it has sent
  overrun                   \* history: a frame was put over one not yet sent

eeVars == <<txpc, sent, NumTx, wrPtr>>
adaptorVars == <<rdPtr, clears, sending, wire>>
vars == <<eeVars, eeLength, sif, buffer, length, xmit, adaptorVars, overrun>>

Frames == 1 .. MaxFrames
Nothing == [stage |-> "none", slot |-> 0, frame |-> 0, notify |-> FALSE]

TypeOK ==
  /\ txpc \in {"sleep", "wait", "send", "stat"}
  /\ sent \in 0 .. MaxFrames /\ NumTx \in Nat
  /\ eeLength \in [Slot -> 0 .. MaxFrames] /\ wrPtr \in Slot
  /\ sif \in [stage : {"none", "data", "status"}, slot : Slot, frame : 0 .. MaxFrames,
              notify : BOOLEAN]
  /\ buffer \in [Slot -> 0 .. MaxFrames]
  /\ length \in [Slot -> 0 .. MaxFrames]
  /\ rdPtr \in Slot
  /\ clears \subseteq Slot
  /\ xmit \in BOOLEAN /\ sending \in BOOLEAN /\ overrun \in BOOLEAN
  /\ wire \in Seq(0 .. MaxFrames)

\* NETMAN_IOP_RPC_FUNC_REG_NETWORK_STACK: both sides start with empty slots.
Init ==
  /\ txpc = "sleep" /\ sent = 0 /\ NumTx = 0
  /\ eeLength = [s \in Slot |-> 0] /\ wrPtr = 0
  /\ sif = Nothing
  /\ buffer = [s \in Slot |-> 0]
  /\ length = [s \in Slot |-> 0]
  /\ rdPtr = 0
  /\ clears = {}
  /\ xmit = FALSE /\ sending = FALSE /\ wire = <<>>
  /\ overrun = FALSE

-----------------------------------------------------------------------------
\* A packet has been queued and the thread is woken.
Wakeup ==
  /\ txpc = "sleep" /\ sent < MaxFrames
  /\ txpc' = "wait" /\ NumTx' = 0
  /\ UNCHANGED <<sent, wrPtr, eeLength, sif, buffer, length, xmit, adaptorVars, overrun>>

\* `Wait for a spot to be freed up.'
WaitForSpot ==
  /\ txpc = "wait" /\ eeLength[wrPtr] = 0
  /\ txpc' = "send"
  /\ UNCHANGED <<sent, NumTx, wrPtr, eeLength, sif, buffer, length, xmit, adaptorVars,
                 overrun>>

(***************************************************************************)
(* The last frame of a group, or one after which there is room, goes with  *)
(* a SIF command that notifies the IOP; the status of any other is copied  *)
(* by DMA, and only then is it stored on this side.                        *)
(***************************************************************************)
Notifies == NumTx + 1 >= GroupSize \/ eeLength[After(wrPtr)] = 0

Transfer ==
  /\ txpc = "send" /\ sif = Nothing
  /\ sent' = sent + 1
  /\ sif' = [stage |-> "data", slot |-> wrPtr, frame |-> sent', notify |-> Notifies]
  /\ eeLength' = IF Notifies THEN eeLength ELSE [eeLength EXCEPT ![wrPtr] = sent']
  /\ wrPtr' = After(wrPtr)
  /\ txpc' = "stat"
  /\ UNCHANGED <<NumTx, buffer, length, xmit, adaptorVars, overrun>>

\* SifDmaStat: the transfer has left the EE.  There is another packet, or not.
TransferDone ==
  /\ txpc = "stat" /\ sif.stage # "data"
  /\ NumTx' = NumTx + 1
  /\ \/ txpc' = "wait" /\ sent < MaxFrames
     \/ txpc' = "sleep"
  /\ UNCHANGED <<sent, wrPtr, eeLength, sif, buffer, length, xmit, adaptorVars, overrun>>

-----------------------------------------------------------------------------
\* The frame arrives in its slot.
DataArrives ==
  /\ sif.stage = "data"
  /\ buffer' = [buffer EXCEPT ![sif.slot] = sif.frame]
  /\ overrun' = (overrun \/ length[sif.slot] # 0)
  /\ sif' = [sif EXCEPT !.stage = "status"]
  /\ UNCHANGED <<eeVars, eeLength, length, xmit, adaptorVars>>

\* Mutant: HandleRxEvent does not call NetManNetIFXmit.
HandleRxEventQuietly ==
  /\ sif.stage = "status"
  /\ length' = [length EXCEPT ![sif.slot] = sif.frame]
  /\ sif' = Nothing
  /\ UNCHANGED <<eeVars, eeLength, buffer, xmit, adaptorVars, overrun>>

\* Then its status does, and HandleRxEvent notifies the adaptor.
HandleRxEvent ==
  /\ sif.stage = "status"
  /\ length' = [length EXCEPT ![sif.slot] = sif.frame]
  /\ xmit' = (xmit \/ sif.notify)
  /\ sif' = Nothing
  /\ UNCHANGED <<eeVars, eeLength, buffer, adaptorVars, overrun>>

\* The adaptor asks for a frame until there is none.
NextTxPacket ==
  /\ xmit /\ ~sending
  /\ IF length[rdPtr] = 0
     THEN xmit' = FALSE /\ UNCHANGED <<sending, wire>>
     ELSE /\ sending' = TRUE
          /\ wire' = Append(wire, buffer[rdPtr])
          /\ UNCHANGED xmit
  /\ UNCHANGED <<eeVars, eeLength, sif, buffer, length, rdPtr, clears, overrun>>

\* Mutant: the slot is not cleared.
DeQTxPacketKept ==
  /\ sending
  /\ sending' = FALSE
  /\ rdPtr' = After(rdPtr)
  /\ UNCHANGED <<eeVars, eeLength, sif, buffer, length, clears, xmit, wire, overrun>>

\* DeQTxPacket, with ClearBufferLen.
DeQTxPacket ==
  /\ sending
  /\ sending' = FALSE
  /\ length' = [length EXCEPT ![rdPtr] = 0]
  /\ clears' = clears \cup {rdPtr}
  /\ rdPtr' = After(rdPtr)
  /\ UNCHANGED <<eeVars, eeLength, sif, buffer, xmit, wire, overrun>>

\* The zero arrives in the EE's copy.
ClearArrives ==
  /\ \E s \in clears : /\ eeLength' = [eeLength EXCEPT ![s] = 0]
                       /\ clears' = clears \ {s}
  /\ UNCHANGED <<eeVars, sif, buffer, length, xmit, rdPtr, sending, wire, overrun>>

-----------------------------------------------------------------------------
TxThread == Wakeup \/ WaitForSpot \/ Transfer \/ TransferDone
Adaptor == NextTxPacket \/ DeQTxPacket

Next == TxThread \/ Adaptor \/ DataArrives \/ HandleRxEvent \/ ClearArrives

Spec == Init /\ [][Next]_vars

\* Transfers end, and the adaptor's thread goes on while it has frames.
TxFairness == WF_vars(DataArrives) /\ WF_vars(HandleRxEvent) /\ WF_vars(Adaptor)

-----------------------------------------------------------------------------
(***************************************************************************)
(* "Wait for a spot to be freed up" (NETMAN_TxThread): once the thread has *)
(* waited, the slot it goes on to overwrite holds no frame that the        *)
(* adaptor has still to send.                                              *)
(***************************************************************************)
SpotIsFree == txpc = "send" => length[wrPtr] = 0

\* What the adaptor sends are the frames handed over, in order, each once --
\* until the EE has overrun it.
InOrder == ~overrun => \A i \in DOMAIN wire : wire[i] = i

(***************************************************************************)
(* Until then the frames handed over and not yet dequeued are in the slots *)
(* from rdPtr on, and everything else is empty: the two ends of the ring   *)
(* agree without ever comparing their pointers.                            *)
(***************************************************************************)
Dequeued == IF sending THEN Len(wire) - 1 ELSE Len(wire)
Landed == IF sif = Nothing THEN sent ELSE sent - 1

RingAligned ==
  ~overrun =>
    /\ wrPtr = sent % Slots /\ rdPtr = Dequeued % Slots
    /\ Dequeued <= Landed /\ Landed <= Dequeued + Slots
    /\ \A s \in Slot :
         length[s] # 0 <=> \E f \in Dequeued + 1 .. Landed : (f - 1) % Slots = s
    /\ \A f \in Dequeued + 1 .. Landed :
         length[(f - 1) % Slots] = f /\ buffer[(f - 1) % Slots] = f

(***************************************************************************)
(* Nor do they disagree on whether there is something to do: when no       *)
(* transfer is under way and the adaptor has found nothing more to send,   *)
(* nothing handed over is left in the ring, although a frame may arrive    *)
(* while it looks.                                                         *)
(***************************************************************************)
NoneLeftInRing == ~overrun /\ sif = Nothing /\ ~xmit => Len(wire) = sent

\* Every frame handed over is sent, unless the ring has been overrun.
EveryFrameIsSent ==
  \A f \in Frames : (sent >= f) ~> (Len(wire) >= f \/ overrun)
=============================================================================
