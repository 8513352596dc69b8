------------------------------ MODULE TxQueue ------------------------------
(***************************************************************************)
(* The transmit queue of the console: a pool of packet buffers, the queue  *)
(* of packets to send (src/src/networking.c: AllocTxPacket, AddTxPacket,   *)
(* NextTxPacket, AfterTxPacket, DeQTxPacket), the threads that send        *)
(* packets and the thread that transmits them                              *)
(* (src/netman/src/rpc_client.c: NETMAN_TxThread, NetManRpcNetIFXmit).     *)
(*                                                                         *)
(* What the code does between DI() and EI() is one step.  Threads are      *)
(* preempted anywhere else.                                                *)
(*                                                                         *)
(* AllocTxPacket may go on with an uninitialised pointer.  What the code   *)
(* does from then on is followed (`stale' records it), but the properties  *)
(* speak of the time before, except DequeuedWasSent, which shows why.      *)
(***************************************************************************)
EXTENDS Naturals, SequencesExt

CONSTANTS Threads,        \* the threads that send: game, receive, RPC
          NUM_TX_PACKET_BUFFERS,
          Priorities,     \* NET_PRIORITY_*: the smaller, the more urgent
          StaleRegister,  \* what may be in the uninitialised `buf' of AllocTxPacket:
                          \*   NULL, a buffer, or anything else
          MaxPackets      \* bound of the model: calls of AllocTxPacket

ASSUME PriorityAssumption == Priorities \subseteq Nat /\ 0 \in Priorities
ASSUME MaxPacketsAssumption == MaxPackets \in Nat
ASSUME BuffersAssumption == NUM_TX_PACKET_BUFFERS \in Nat

\* tx_packet_buffers, by index from 1.
Buffers == 1 .. NUM_TX_PACKET_BUFFERS
NULL    == 0

VARIABLES
  free,            \* free_tx_packet_buffer and its successors
  queue,           \* next_tx_packet_buffer and its successors
  priority,        \* of each buffer
  transmitting,    \* of each buffer
  pc, held,        \* of each thread: where it is, the buffer it fills
  txpc,            \* where the transmit thread is
  current, after,  \* the packet it transmits, the one it will transmit next
  IsProcessingTx,
  wakeups,         \* WakeupThread calls the transmit thread has not consumed
  allocs,          \* calls of AllocTxPacket so far
  stale            \* history: AllocTxPacket has gone on with a pointer it never set

threadVars == <<pc, held, allocs, stale>>
txVars == <<txpc, current, after, IsProcessingTx>>
vars == <<free, queue, priority, transmitting, threadVars, txVars, wakeups>>

TypeOK ==
  /\ free \in Seq(Buffers)
  /\ queue \in Seq(Buffers)
  /\ priority \in [Buffers -> Priorities]
  /\ transmitting \in [Buffers -> BOOLEAN]
  /\ pc \in [Threads -> {"idle", "filling", "notify", "wake"}]
  /\ held \in [Threads -> Buffers \cup {NULL}]
  /\ txpc \in {"sleep", "next", "begin", "send", "after", "dequeue", "clear"}
  /\ current \in Buffers \cup {NULL}
  /\ after \in Buffers \cup {NULL}
  /\ IsProcessingTx \in BOOLEAN
  /\ wakeups \in Nat
  /\ allocs \in Nat
  /\ stale \in BOOLEAN

\* InitConnection chains all buffers; static storage starts at 0.
Init ==
  /\ free = [i \in Buffers |-> i]
  /\ queue = <<>>
  /\ priority = [b \in Buffers |-> 0]
  /\ transmitting = [b \in Buffers |-> FALSE]
  /\ pc = [t \in Threads |-> "idle"]
  /\ held = [t \in Threads |-> NULL]
  /\ txpc = "sleep"
  /\ current = NULL /\ after = NULL
  /\ IsProcessingTx = FALSE
  /\ wakeups = 0
  /\ allocs = 0 /\ stale = FALSE

-----------------------------------------------------------------------------
\* The caller of AllocTxPacket goes on with the buffer b.
Obtain(t, b, p) ==
  /\ held' = [held EXCEPT ![t] = b]
  /\ pc' = [pc EXCEPT ![t] = "filling"]
  /\ priority' = [priority EXCEPT ![b] = p]
  /\ transmitting' = [transmitting EXCEPT ![b] = FALSE]

\* One call of AllocTxPacket, within the bound.
Call(t) == pc[t] = "idle" /\ allocs < MaxPackets /\ allocs' = allocs + 1

\* The first of the free buffers.
AllocFree(t) ==
  /\ Call(t)
  /\ free # <<>>
  /\ \E p \in Priorities : Obtain(t, Head(free), p)
  /\ free' = Tail(free)
  /\ UNCHANGED <<queue, stale, txVars, wakeups>>

\* Mutants: a packet on its way is taken; an equal gives no way.
EligibleOnItsWay(i, p) == p <= priority[queue[i]]
EligibleLess(i, p) == ~transmitting[queue[i]] /\ p < priority[queue[i]]

\* A queued packet gives way to one as urgent or more, unless it is on its way.
Eligible(i, p) == ~transmitting[queue[i]] /\ p <= priority[queue[i]]

\* Mutant: the packet is not unlinked.
AllocStealLinked(t) ==
  /\ Call(t)
  /\ free = <<>>
  /\ \E p \in Priorities, i \in DOMAIN queue : Eligible(i, p) /\ Obtain(t, queue[i], p)
  /\ UNCHANGED <<free, queue, stale, txVars, wakeups>>

\* No free buffer: the last packet that gives way is taken out of the queue.
AllocSteal(t) ==
  /\ Call(t)
  /\ free = <<>>
  /\ \E p \in Priorities, i \in DOMAIN queue :
       /\ Eligible(i, p)
       /\ \A j \in DOMAIN queue : j > i => ~Eligible(j, p)
       /\ Obtain(t, queue[i], p)
       /\ queue' = RemoveAt(queue, i)
  /\ UNCHANGED <<free, stale, txVars, wakeups>>

(***************************************************************************)
(* No free buffer and no packet that gives way: `buf' was never assigned.  *)
(* The code goes on with whatever its register holds, and unlinks it if it *)
(* is in the queue.  Only when it is NULL does the caller learn that there *)
(* is no buffer; the two stores through NULL then hit no packet.           *)
(***************************************************************************)
AllocFails(t) ==
  /\ Call(t)
  /\ free = <<>>
  /\ \E p \in Priorities, b \in StaleRegister :
       /\ \A i \in DOMAIN queue : ~Eligible(i, p)
       /\ \/ /\ b = NULL
             /\ UNCHANGED <<queue, priority, transmitting, pc, held, stale>>
          \/ /\ b # NULL
             /\ stale' = TRUE
             /\ Obtain(t, b, p)
             /\ queue' = Remove(queue, b)
  /\ UNCHANGED <<free, txVars, wakeups>>

\* AddTxPacket, up to EI().
AddTxPacket(t) ==
  /\ pc[t] = "filling"
  /\ transmitting' = [transmitting EXCEPT ![held[t]] = FALSE]
  /\ queue' = Append(queue, held[t])
  /\ held' = [held EXCEPT ![t] = NULL]
  /\ pc' = [pc EXCEPT ![t] = "notify"]
  /\ UNCHANGED <<free, priority, allocs, stale, txVars, wakeups>>

\* NetManRpcNetIFXmit: the test, and the wakeup.
TestProcessing(t) ==
  /\ pc[t] = "notify"
  /\ pc' = [pc EXCEPT ![t] = IF IsProcessingTx THEN "idle" ELSE "wake"]
  /\ UNCHANGED <<free, queue, priority, transmitting, held, allocs, stale, txVars, wakeups>>

WakeTxThread(t) ==
  /\ pc[t] = "wake"
  /\ pc' = [pc EXCEPT ![t] = "idle"]
  /\ wakeups' = wakeups + 1
  /\ UNCHANGED <<free, queue, priority, transmitting, held, allocs, stale, txVars>>

-----------------------------------------------------------------------------
\* NETMAN_TxThread.  SleepThread returns at once when a wakeup is pending.
Sleep ==
  /\ txpc = "sleep" /\ wakeups > 0
  /\ wakeups' = wakeups - 1
  /\ txpc' = "next"
  /\ UNCHANGED <<free, queue, priority, transmitting, threadVars, current, after,
                 IsProcessingTx>>

\* NextTxPacket marks the head of the queue.
NextTxPacket ==
  /\ txpc = "next"
  /\ IF queue = <<>>
     THEN txpc' = "sleep" /\ UNCHANGED <<transmitting, current>>
     ELSE /\ txpc' = "begin"
          /\ current' = Head(queue)
          /\ transmitting' = [transmitting EXCEPT ![Head(queue)] = TRUE]
  /\ UNCHANGED <<free, queue, priority, threadVars, after, IsProcessingTx, wakeups>>

BeginTx ==
  /\ txpc = "begin"
  /\ IsProcessingTx' = TRUE
  /\ txpc' = "send"
  /\ UNCHANGED <<free, queue, priority, transmitting, threadVars, current, after, wakeups>>

\* The DMA transfer of `current' to the IOP starts.
StartDma ==
  /\ txpc = "send"
  /\ txpc' = "after"
  /\ UNCHANGED <<free, queue, priority, transmitting, threadVars, current, after,
                 IsProcessingTx, wakeups>>

\* AfterTxPacket marks the second packet of the queue, if there is one.
AfterTxPacket ==
  /\ txpc = "after"
  /\ txpc' = "dequeue"
  /\ IF Len(queue) > 1
     THEN /\ after' = queue[2]
          /\ transmitting' = [transmitting EXCEPT ![queue[2]] = TRUE]
     ELSE after' = NULL /\ UNCHANGED transmitting
  /\ UNCHANGED <<free, queue, priority, threadVars, current, IsProcessingTx, wakeups>>

\* The DMA has ended (SifDmaStat); DeQTxPacket frees the head of the queue.
DeQTxPacket ==
  /\ txpc = "dequeue"
  /\ IF queue = <<>> THEN UNCHANGED <<free, queue>>
     ELSE queue' = Tail(queue) /\ free' = <<Head(queue)>> \o free
  /\ current' = after
  /\ txpc' = IF after = NULL THEN "clear" ELSE "send"
  /\ UNCHANGED <<priority, transmitting, threadVars, after, IsProcessingTx, wakeups>>

\* Mutant: the queue is not looked at again before the thread sleeps.
EndTxOnce ==
  /\ txpc = "clear"
  /\ IsProcessingTx' = FALSE
  /\ txpc' = "sleep"
  /\ UNCHANGED <<free, queue, priority, transmitting, threadVars, current, after, wakeups>>

EndTx ==
  /\ txpc = "clear"
  /\ IsProcessingTx' = FALSE
  /\ txpc' = "next"
  /\ UNCHANGED <<free, queue, priority, transmitting, threadVars, current, after, wakeups>>

-----------------------------------------------------------------------------
Alloc(t) == AllocFree(t) \/ AllocSteal(t) \/ AllocFails(t)
Submit(t) == AddTxPacket(t) \/ TestProcessing(t) \/ WakeTxThread(t)
TxThread == Sleep \/ NextTxPacket \/ BeginTx \/ StartDma \/ AfterTxPacket
              \/ DeQTxPacket \/ EndTx

Next == TxThread \/ \E t \in Threads : Alloc(t) \/ Submit(t)

Spec == Init /\ [][Next]_vars

\* A thread that has a buffer goes on, and the transmit thread, which runs
\* at a higher priority than the network threads, is scheduled.
FairSpec == Spec /\ WF_vars(TxThread) /\ \A t \in Threads : WF_vars(Submit(t))

-----------------------------------------------------------------------------
(***************************************************************************)
(* Until AllocTxPacket has gone on with a pointer it never set, every      *)
(* buffer is free, or once in the queue, or with exactly one thread: no    *)
(* packet is written by two threads, sent twice or leaked (AllocTxPacket   *)
(* steals from the queue the transmit thread is walking through).          *)
(***************************************************************************)
Held == {t \in Threads : pc[t] = "filling"}
Free == {free[i] : i \in DOMAIN free}
Queued == {queue[i] : i \in DOMAIN queue}
Distinct(s) == \A i, j \in DOMAIN s : s[i] = s[j] => i = j

Apart ==
  /\ Distinct(free) /\ Distinct(queue)
  /\ \A t, u \in Held : held[t] = held[u] => t = u
  /\ \A t \in Held : held[t] \in Buffers /\ held[t] \notin Free \cup Queued
  /\ Free \cap Queued = {}
  /\ \A b \in Buffers : b \in Free \cup Queued \cup {held[t] : t \in Held}

Partition == ~stale => Apart

(***************************************************************************)
(* Until then, while the transmit thread works on a packet, through the    *)
(* DMA and until DeQTxPacket, that packet is the head of the queue and     *)
(* marked; the one AfterTxPacket has announced is the second.  Neither is  *)
(* stolen or reused and what is dequeued is what was sent.                 *)
(***************************************************************************)
Lined ==
  /\ txpc \in {"begin", "send", "after", "dequeue"} =>
       queue # <<>> /\ Head(queue) = current /\ transmitting[current]
  /\ txpc = "dequeue" /\ after # NULL =>
       Len(queue) > 1 /\ queue[2] = after /\ transmitting[after]

InFlight == ~stale => Lined

(***************************************************************************)
(* "the last packet has been transmitted" (DeQTxPacket): the packet that   *)
(* is taken out of the queue is the one that was sent.                     *)
(***************************************************************************)
DequeuedWasSent == txpc = "dequeue" => queue # <<>> /\ Head(queue) = current

(***************************************************************************)
(* Nor is a wakeup lost: when the transmit thread sleeps on a queue that   *)
(* is not empty, a wakeup is pending or a thread is about to give one,     *)
(* although NetManRpcNetIFXmit skips it while IsProcessingTx is set.       *)
(***************************************************************************)
NoLostWakeup ==
  txpc = "sleep" /\ queue # <<>> =>
    wakeups > 0 \/ \E t \in Threads : pc[t] \in {"notify", "wake"}

(***************************************************************************)
(* The most urgent requests (DHCP) always get a buffer, and never the      *)
(* pointer that was not set: at most two packets are on their way, so with *)
(* two more buffers than threads one can be taken.                         *)
(***************************************************************************)
MostUrgent(p) == \A q \in Priorities : p <= q

UrgentServed ==
  ~stale /\ free = <<>> /\ Held # Threads =>
    \A p \in Priorities : MostUrgent(p) => \E i \in DOMAIN queue : Eligible(i, p)

\* What is queued is sent, or gives way: the queue never hangs (before that).
EveryPacketLeaves ==
  \A b \in Buffers : (b \in Queued) ~> (b \notin Queued \/ stale)
=============================================================================
