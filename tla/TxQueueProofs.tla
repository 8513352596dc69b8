--------------------------- MODULE TxQueueProofs ---------------------------
(***************************************************************************)
(* Proofs about the transmit queue, for any threads, buffers and           *)
(* priorities, any number of packets and anything in the register `buf'    *)
(* has, until AllocTxPacket goes on with what it has found there.          *)
(***************************************************************************)
EXTENDS TxQueue, FiniteSetTheorems, TLAPS

\* IsProcessingTx is set from BeginTx to EndTx.
Processing == IsProcessingTx <=> txpc \in {"send", "after", "dequeue", "clear"}

\* What every step keeps that does not take a pointer which was never set.
Sane == TypeOK /\ Apart /\ Lined /\ Processing /\ NoLostWakeup

IInv == ~stale => Sane

Elements(s) == {s[i] : i \in DOMAIN s}

-----------------------------------------------------------------------------
\* What is left of a queue of different packets when the i-th is taken out.
LEMMA RemoveAtFacts ==
  ASSUME NEW S, NEW s \in Seq(S), Distinct(s), NEW i \in DOMAIN s
  PROVE  /\ RemoveAt(s, i) \in Seq(S)
         /\ Len(RemoveAt(s, i)) = Len(s) - 1
         /\ \A j \in 1..Len(s) - 1 : RemoveAt(s, i)[j] = s[IF j < i THEN j ELSE j + 1]
         /\ Distinct(RemoveAt(s, i))
         /\ Elements(RemoveAt(s, i)) = Elements(s) \ {s[i]}
  <1> DEFINE r == RemoveAt(s, i)
  <1>1. i \in 1..Len(s) /\ Len(s) \in Nat /\ DOMAIN s = 1..Len(s)
    OBVIOUS
  <1>2. r = SubSeq(s, 1, i - 1) \o SubSeq(s, i + 1, Len(s))
    BY DEF RemoveAt
  <1>3. SubSeq(s, 1, i - 1) \in Seq(S) /\ SubSeq(s, i + 1, Len(s)) \in Seq(S)
    BY <1>1
  <1>4. Len(SubSeq(s, 1, i - 1)) = i - 1 /\ Len(SubSeq(s, i + 1, Len(s))) = Len(s) - i
    BY <1>1
  <1>5. r \in Seq(S) /\ Len(r) = Len(s) - 1
    <2>1. \A a, b \in Seq(S) : a \o b \in Seq(S) /\ Len(a \o b) = Len(a) + Len(b)
      OBVIOUS
    <2>2. r \in Seq(S) /\ Len(r) = (i - 1) + (Len(s) - i)
      BY <1>2, <1>3, <1>4, <2>1
    <2>3. QED
      BY <1>1, <2>2
  <1>6. ASSUME NEW j \in 1..Len(s) - 1
        PROVE  r[j] = s[IF j < i THEN j ELSE j + 1]
    <2>1. CASE j < i
      BY <1>1, <1>2, <1>3, <1>4, <2>1
    <2>2. CASE ~(j < i)
      <3>1. \A a, b \in Seq(S) : \A k \in 1..Len(a) + Len(b) :
              ~(k <= Len(a)) => (a \o b)[k] = b[k - Len(a)]
        OBVIOUS
      <3>2. j \in 1..(i - 1) + (Len(s) - i) /\ ~(j <= i - 1)
        BY <1>1, <2>2
      <3>3. r[j] = SubSeq(s, i + 1, Len(s))[j - (i - 1)]
        <4>1. PICK a, b \in Seq(S) :
                /\ a = SubSeq(s, 1, i - 1) /\ b = SubSeq(s, i + 1, Len(s)) /\ r = a \o b
                /\ Len(a) = i - 1 /\ Len(b) = Len(s) - i
          BY <1>2, <1>3, <1>4
        <4>2. (a \o b)[j] = b[j - Len(a)]
          BY <3>1, <3>2, <4>1
        <4> QED
          BY <4>1, <4>2
      <3>4. j - (i - 1) \in 1..Len(s) - i
        BY <1>1, <3>2
      <3>5. SubSeq(s, i + 1, Len(s))[j - (i - 1)] = s[(i + 1) + (j - (i - 1)) - 1]
        BY <1>1, <3>4
      <3> QED
        BY <1>1, <2>2, <3>3, <3>5
    <2>3. QED
      BY <2>1, <2>2
  <1>7. DOMAIN r = 1..Len(s) - 1
    BY <1>5
  <1>8. Distinct(r)
    <2>1. SUFFICES ASSUME NEW j \in 1..Len(s) - 1, NEW k \in 1..Len(s) - 1, r[j] = r[k]
                   PROVE  j = k
      BY <1>7 DEF Distinct
    <2> DEFINE J == IF j < i THEN j ELSE j + 1
               K == IF k < i THEN k ELSE k + 1
    <2>2. J \in 1..Len(s) /\ K \in 1..Len(s)
      BY <1>1
    <2>3. s[J] = s[K]
      BY <1>6, <2>1
    <2>4. J = K
      BY <1>1, <2>2, <2>3 DEF Distinct
    <2>5. QED
      BY <1>1, <2>4
  <1>9. \A j \in DOMAIN r : r[j] \in Elements(s) /\ r[j] # s[i]
    BY <1>1, <1>6, <1>7 DEF Distinct, Elements
  <1>10. ASSUME NEW k \in DOMAIN s, k # i
         PROVE  \E j \in DOMAIN r : r[j] = s[k]
    <2>1. CASE k < i
      <3>1. k \in DOMAIN r /\ r[k] = s[k]
        BY <1>1, <1>6, <1>7, <2>1
      <3>2. QED
        BY <3>1
    <2>2. CASE k > i
      <3>1. k - 1 \in DOMAIN r /\ r[k - 1] = s[k]
        BY <1>1, <1>6, <1>7, <2>2
      <3>2. QED
        BY <3>1
    <2>3. QED
      BY <1>1, <1>10, <2>1, <2>2
  <1>11. Elements(r) = Elements(s) \ {s[i]}
    BY <1>9, <1>10 DEF Elements
  <1>12. QED
    BY <1>5, <1>6, <1>8, <1>11

\* A packet that is not in the queue is added at its end.
LEMMA AppendFacts ==
  ASSUME NEW S, NEW s \in Seq(S), Distinct(s), NEW b \in S, b \notin Elements(s)
  PROVE  /\ Append(s, b) \in Seq(S)
         /\ Len(Append(s, b)) = Len(s) + 1
         /\ \A j \in 1..Len(s) : Append(s, b)[j] = s[j]
         /\ Distinct(Append(s, b))
         /\ Elements(Append(s, b)) = Elements(s) \cup {b}
  <1> DEFINE r == Append(s, b)
  <1>1. /\ r \in Seq(S) /\ Len(r) = Len(s) + 1
        /\ DOMAIN r = 1..Len(s) + 1 /\ DOMAIN s = 1..Len(s) /\ Len(s) \in Nat
    OBVIOUS
  <1>2. r[Len(s) + 1] = b /\ \A j \in 1..Len(s) : r[j] = s[j]
    OBVIOUS
  <1>3. \A j \in DOMAIN r : j \in DOMAIN s \/ j = Len(s) + 1
    BY <1>1
  <1>4. Distinct(r)
    BY <1>1, <1>2, <1>3 DEF Distinct, Elements
  <1>5. Elements(r) = Elements(s) \cup {b}
    BY <1>1, <1>2, <1>3 DEF Elements
  <1>6. QED
    BY <1>1, <1>2, <1>4, <1>5

\* The head of the queue is taken out of it.
LEMMA TailFacts ==
  ASSUME NEW S, NEW s \in Seq(S), Distinct(s), s # <<>>
  PROVE  /\ Tail(s) \in Seq(S)
         /\ Len(Tail(s)) = Len(s) - 1
         /\ \A j \in 1..Len(s) - 1 : Tail(s)[j] = s[j + 1]
         /\ Distinct(Tail(s))
         /\ Head(s) = s[1] /\ Head(s) \in S
         /\ Elements(Tail(s)) = Elements(s) \ {Head(s)}
  <1> DEFINE r == Tail(s)
  <1>1. /\ r \in Seq(S) /\ Len(r) = Len(s) - 1 /\ Len(s) \in Nat /\ Len(s) > 0
        /\ DOMAIN r = 1..Len(s) - 1 /\ DOMAIN s = 1..Len(s)
        /\ Head(s) = s[1] /\ Head(s) \in S
    OBVIOUS
  <1>2. \A j \in 1..Len(s) - 1 : r[j] = s[j + 1]
    OBVIOUS
  <1>3. Distinct(r)
    BY <1>1, <1>2 DEF Distinct
  <1>4. \A j \in DOMAIN r : r[j] \in Elements(s) /\ r[j] # s[1]
    BY <1>1, <1>2 DEF Distinct, Elements
  <1>5. ASSUME NEW k \in DOMAIN s, k # 1
        PROVE  \E j \in DOMAIN r : r[j] = s[k]
    <2>1. k - 1 \in DOMAIN r /\ r[k - 1] = s[k]
      BY <1>1, <1>2, <1>5
    <2>2. QED
      BY <2>1
  <1>6. Elements(r) = Elements(s) \ {Head(s)}
    BY <1>1, <1>4, <1>5 DEF Elements
  <1>7. QED
    BY <1>1, <1>2, <1>3, <1>6

\* A buffer that is not in the list of free ones is put in front of it.
LEMMA PushFacts ==
  ASSUME NEW S, NEW s \in Seq(S), Distinct(s), NEW b \in S, b \notin Elements(s)
  PROVE  /\ <<b>> \o s \in Seq(S)
         /\ Distinct(<<b>> \o s)
         /\ Elements(<<b>> \o s) = Elements(s) \cup {b}
  <1> DEFINE r == <<b>> \o s
  <1>1. /\ r \in Seq(S) /\ Len(s) \in Nat
        /\ DOMAIN r = 1..Len(s) + 1 /\ DOMAIN s = 1..Len(s)
    OBVIOUS
  <1>2. r[1] = b /\ \A j \in 2..Len(s) + 1 : r[j] = s[j - 1]
    OBVIOUS
  <1>3. Distinct(r)
    BY <1>1, <1>2 DEF Distinct, Elements
  <1>4. \A j \in DOMAIN r : r[j] \in Elements(s) \cup {b}
    BY <1>1, <1>2 DEF Elements
  <1>5. ASSUME NEW k \in DOMAIN s PROVE \E j \in DOMAIN r : r[j] = s[k]
    <2>1. k + 1 \in DOMAIN r /\ r[k + 1] = s[k]
      BY <1>1, <1>2
    <2>2. QED
      BY <2>1
  <1>6. Elements(r) = Elements(s) \cup {b}
    <2>1. 1 \in DOMAIN r
      BY <1>1
    <2>2. Elements(r) \subseteq Elements(s) \cup {b}
      BY <1>4 DEF Elements
    <2>3. b \in Elements(r)
      BY <1>2, <2>1 DEF Elements
    <2>4. Elements(s) \subseteq Elements(r)
      BY <1>5 DEF Elements
    <2>5. QED
      BY <2>2, <2>3, <2>4
  <1>7. QED
    BY <1>1, <1>3, <1>6

-----------------------------------------------------------------------------
\* Initially every buffer is free.
LEMMA InitInvariant == Init => Sane
  <1> SUFFICES ASSUME Init PROVE Sane
    OBVIOUS
  <1>1. TypeOK
    <2>1. priority \in [Buffers -> Priorities] /\ queue \in Seq(Buffers)
      BY PriorityAssumption DEF Init
    <2>2. free \in Seq(Buffers)
      BY BuffersAssumption DEF Init, Buffers
    <2>3. QED
      BY <2>1, <2>2 DEF Init, TypeOK
  <1>2. Apart
    <2>1. DOMAIN free = Buffers /\ \A i \in Buffers : free[i] = i
      BY DEF Init
    <2>2. Distinct(free) /\ Free = Buffers
      BY <2>1 DEF Distinct, Free
    <2>3. QED
      BY <2>2 DEF Init, Apart, Held, Queued, Distinct
  <1>3. Lined /\ Processing /\ NoLostWakeup
    BY DEF Init, Lined, Processing, NoLostWakeup
  <1>4. QED
    BY <1>1, <1>2, <1>3 DEF Sane

\* A thread that obtains a buffer, free or queued, is the only one to have it.
LEMMA ObtainApart ==
  ASSUME TypeOK, Apart, NEW t \in Threads, pc[t] = "idle",
         NEW b \in Free \cup Queued, NEW p \in Priorities, Obtain(t, b, p),
         Distinct(free'), Distinct(queue'), Free' \cap Queued' = {},
         Free' \cup Queued' = (Free \cup Queued) \ {b}
  PROVE  Apart'
  <1>1. Held' = Held \cup {t} /\ t \notin Held
    BY DEF Held, Obtain, TypeOK
  <1>2. held'[t] = b /\ \A u \in Held : held'[u] = held[u]
    BY <1>1 DEF Obtain, TypeOK, Held
  <1>3. b \in Buffers
    BY DEF TypeOK, Free, Queued
  <1>4. \A u \in Held : held[u] # b
    BY DEF Apart
  <1>5. \A u, v \in Held' : held'[u] = held'[v] => u = v
    BY <1>1, <1>2, <1>4 DEF Apart
  <1>6. \A u \in Held' : held'[u] \in Buffers /\ held'[u] \notin Free' \cup Queued'
    BY <1>1, <1>2, <1>3 DEF Apart
  <1>7. \A c \in Buffers : c \in Free' \cup Queued' \cup {held'[u] : u \in Held'}
    <2> SUFFICES ASSUME NEW c \in Buffers, c \notin Free' \cup Queued'
                 PROVE  \E u \in Held' : held'[u] = c
      OBVIOUS
    <2>1. CASE c = b
      BY <1>1, <1>2, <2>1
    <2>2. CASE c # b
      <3>1. PICK u \in Held : held[u] = c
        BY <2>2 DEF Apart
      <3>2. QED
        BY <1>1, <1>2, <3>1
    <2>3. QED
      BY <2>1, <2>2
  <1>8. QED
    BY <1>5, <1>6, <1>7 DEF Apart

\* A free buffer is nobody's, so the packets on their way are not disturbed.
LEMMA AllocFreeInvariant ==
  ASSUME Sane, NEW t \in Threads, AllocFree(t)
  PROVE  Sane'
  <1> DEFINE b == Head(free)
  <1> PICK p \in Priorities : Obtain(t, b, p)
    BY DEF AllocFree
  <1> USE DEF Sane
  <1>1. /\ pc[t] = "idle" /\ allocs' = allocs + 1
        /\ free # <<>> /\ free' = Tail(free)
        /\ UNCHANGED <<queue, stale, txVars, wakeups>>
    BY DEF AllocFree, Call
  <1>2. /\ free' \in Seq(Buffers) /\ Distinct(free') /\ Free' = Free \ {b}
        /\ b \in Buffers /\ b \in Free /\ b \notin Queued
    <2>1. free \in Seq(Buffers) /\ Distinct(free) /\ Free = Elements(free)
      BY DEF TypeOK, Apart, Free, Elements
    <2>2. b \in Free
      BY <1>1, <2>1 DEF Free
    <2>3. Free' = Elements(free')
      BY DEF Free, Elements
    <2>4. QED
      BY <1>1, <2>1, <2>2, <2>3, TailFacts DEF Apart
  <1>3. Queued' = Queued
    BY <1>1 DEF Queued
  <1>4. TypeOK'
    BY <1>1, <1>2 DEF TypeOK, Obtain, txVars
  <1>5. Apart'
    <2>1. Distinct(queue') /\ Free' \cap Queued' = {}
             /\ Free' \cup Queued' = (Free \cup Queued) \ {b}
      BY <1>1, <1>2, <1>3 DEF Apart
    <2>2. QED
      BY <1>1, <1>2, <2>1, ObtainApart
  <1>6. \A c \in Queued : transmitting'[c] = transmitting[c]
    <2>1. \A c \in Queued : c \in Buffers /\ c # b
      BY <1>2 DEF TypeOK, Queued
    <2>2. QED
      BY <2>1 DEF Obtain, TypeOK
  <1>7. Lined'
    <2>1. queue # <<>> => Head(queue) \in Queued
      BY DEF TypeOK, Queued
    <2>2. Len(queue) > 1 => queue[2] \in Queued
      BY DEF TypeOK, Queued
    <2>3. QED
      BY <1>1, <1>6, <2>1, <2>2 DEF Lined, txVars
  <1>8. Processing' /\ NoLostWakeup'
    BY <1>1 DEF Processing, NoLostWakeup, txVars, Obtain, TypeOK
  <1>9. QED
    BY <1>4, <1>5, <1>7, <1>8

(***************************************************************************)
(* AllocTxPacket takes a packet out of the middle of the queue: those on   *)
(* their way, the first and the second, stay where they are.               *)
(***************************************************************************)
LEMMA AllocStealInvariant ==
  ASSUME Sane, NEW t \in Threads, AllocSteal(t)
  PROVE  Sane'
  <1> PICK p \in Priorities, i \in DOMAIN queue :
        Eligible(i, p) /\ Obtain(t, queue[i], p) /\ queue' = RemoveAt(queue, i)
    BY DEF AllocSteal
  <1> USE DEF Sane
  <1>1. /\ pc[t] = "idle" /\ allocs' = allocs + 1 /\ free = <<>>
        /\ UNCHANGED <<free, stale, txVars, wakeups>>
    BY DEF AllocSteal, Call
  <1>2. queue \in Seq(Buffers) /\ Distinct(queue) /\ Queued = Elements(queue)
    BY DEF TypeOK, Apart, Queued, Elements
  <1>3. /\ queue[i] \in Buffers /\ queue[i] \in Queued
        /\ i \in 1..Len(queue) /\ Len(queue) \in Nat
    BY <1>2 DEF Elements
  <1>4. /\ queue' \in Seq(Buffers) /\ Len(queue') = Len(queue) - 1
        /\ \A j \in 1..Len(queue) - 1 : queue'[j] = queue[IF j < i THEN j ELSE j + 1]
        /\ Distinct(queue') /\ Queued' = Queued \ {queue[i]}
    <2>1. Queued' = Elements(queue')
      BY DEF Queued, Elements
    <2>2. QED
      BY <1>2, <2>1, RemoveAtFacts
  <1>5. TypeOK'
    BY <1>1, <1>3, <1>4 DEF TypeOK, Obtain, txVars
  <1>6. Apart'
    <2>1. /\ Free' = Free /\ Distinct(free')
          /\ Free' \cap Queued' = {} /\ Free' \cup Queued' = (Free \cup Queued) \ {queue[i]}
      BY <1>1, <1>3, <1>4 DEF Free, Apart
    <2>2. QED
      BY <1>1, <1>3, <1>4, <2>1, ObtainApart
  <1>7. ~transmitting[queue[i]]
    BY DEF Eligible
  <1>8. \A c \in Buffers : c # queue[i] => transmitting'[c] = transmitting[c]
    BY DEF Obtain, TypeOK
  <1>9. ASSUME txpc \in {"begin", "send", "after", "dequeue"}
        PROVE  queue' # <<>> /\ Head(queue') = current /\ transmitting'[current]
    <2>1. queue # <<>> /\ queue[1] = current /\ transmitting[current]
      BY <1>2, <1>9 DEF Lined
    <2>2. i > 1
      BY <1>3, <1>7, <2>1
    <2>3. queue' # <<>> /\ queue'[1] = queue[1]
      BY <1>3, <1>4, <2>2
    <2>4. Head(queue') = current /\ current \in Buffers
      BY <1>2, <1>4, <2>1, <2>3
    <2>5. QED
      BY <1>7, <1>8, <2>1, <2>3, <2>4
  <1>10. ASSUME txpc = "dequeue", after # NULL
         PROVE  Len(queue') > 1 /\ queue'[2] = after /\ transmitting'[after]
    <2>1. /\ queue[1] = current /\ transmitting[current]
          /\ Len(queue) > 1 /\ queue[2] = after /\ transmitting[after]
      BY <1>2, <1>10 DEF Lined
    <2>2. i > 2
      BY <1>3, <1>7, <2>1
    <2>3. Len(queue') > 1 /\ queue'[2] = queue[2] /\ queue[2] \in Buffers
      BY <1>2, <1>3, <1>4, <2>2
    <2>4. QED
      BY <1>7, <1>8, <2>1, <2>3
  <1>11. Lined'
    BY <1>1, <1>9, <1>10 DEF Lined, txVars
  <1>12. Processing' /\ NoLostWakeup'
    <2>1. queue' # <<>> => queue # <<>>
      BY <1>3
    <2>2. QED
      BY <1>1, <2>1 DEF Processing, NoLostWakeup, txVars, Obtain, TypeOK
  <1>13. QED
    BY <1>5, <1>6, <1>11, <1>12

\* When the lack of a buffer is seen, nothing is touched.
LEMMA AllocFailsInvariant ==
  ASSUME Sane, NEW t \in Threads, AllocFails(t), ~stale'
  PROVE  Sane'
  <1>1. /\ allocs' = allocs + 1 /\ stale' \in BOOLEAN
        /\ UNCHANGED <<free, queue, priority, transmitting, pc, held, txVars, wakeups>>
    BY DEF AllocFails, Call, Sane, TypeOK
  <1>2. TypeOK'
    BY <1>1 DEF Sane, TypeOK, txVars
  <1>3. Apart'
    BY <1>1 DEF Sane, Apart, Held, Free, Queued
  <1>4. Lined' /\ Processing' /\ NoLostWakeup'
    BY <1>1 DEF Sane, Lined, Processing, NoLostWakeup, txVars
  <1>5. QED
    BY <1>2, <1>3, <1>4 DEF Sane

\* AddTxPacket moves the packet from its thread to the end of the queue.
LEMMA AddInvariant ==
  ASSUME Sane, NEW t \in Threads, AddTxPacket(t)
  PROVE  Sane'
  <1> DEFINE b == held[t]
  <1> USE DEF Sane
  <1>1. /\ pc[t] = "filling" /\ queue' = Append(queue, b)
        /\ transmitting' = [transmitting EXCEPT ![b] = FALSE]
        /\ held' = [held EXCEPT ![t] = NULL] /\ pc' = [pc EXCEPT ![t] = "notify"]
        /\ UNCHANGED <<free, priority, allocs, stale, txVars, wakeups>>
    BY DEF AddTxPacket
  <1>2. t \in Held /\ b \in Buffers /\ b \notin Free \cup Queued
    BY <1>1 DEF Held, Apart
  <1>3. queue \in Seq(Buffers) /\ Distinct(queue) /\ Queued = Elements(queue)
    BY DEF TypeOK, Apart, Queued, Elements
  <1>4. Queued' = Elements(queue')
    BY DEF Queued, Elements
  <1>5. /\ queue' \in Seq(Buffers) /\ Len(queue') = Len(queue) + 1
        /\ \A j \in 1..Len(queue) : queue'[j] = queue[j]
        /\ Distinct(queue') /\ Queued' = Queued \cup {b}
    BY <1>1, <1>2, <1>3, <1>4, AppendFacts
  <1>6. TypeOK'
    BY <1>1, <1>5 DEF TypeOK, txVars
  <1>7. Held' = Held \ {t} /\ \A u \in Held' : held'[u] = held[u]
    BY <1>1 DEF Held, TypeOK
  <1>f. Free' = Free
    BY <1>1 DEF Free
  <1>8. Apart'
    <2>1. \A u \in Held' : /\ held'[u] \in Buffers /\ held'[u] # b
                           /\ held'[u] \notin Free' \cup Queued'
      BY <1>2, <1>5, <1>7, <1>f DEF Apart
    <2>2. \A u, v \in Held' : held'[u] = held'[v] => u = v
      BY <1>7 DEF Apart
    <2>3. Free' \cap Queued' = {} /\ Distinct(free')
      BY <1>1, <1>2, <1>5, <1>f DEF Apart
    <2>4. ASSUME NEW c \in Buffers, c \notin Free' \cup Queued'
          PROVE  \E u \in Held' : held'[u] = c
      <3>1. PICK u \in Held : held[u] = c
        BY <1>5, <1>f, <2>4 DEF Apart
      <3>2. u # t
        BY <1>5, <2>4, <3>1
      <3>3. QED
        BY <1>7, <3>1, <3>2
    <2>5. QED
      BY <1>5, <2>1, <2>2, <2>3, <2>4 DEF Apart
  <1>9. \A c \in Queued : transmitting'[c] = transmitting[c]
    <2>1. \A c \in Queued : c \in Buffers /\ c # b
      BY <1>2 DEF TypeOK, Queued
    <2>2. QED
      BY <1>1, <2>1 DEF TypeOK
  <1>10. Lined'
    <2>1. Len(queue) \in Nat /\ Len(queue') \in Nat
      BY <1>3, <1>5
    <2>2. ASSUME queue # <<>>
          PROVE  queue' # <<>> /\ Head(queue') = Head(queue) /\ Head(queue) \in Queued
      <3>1. queue'[1] = queue[1] /\ Head(queue) = queue[1] /\ queue[1] \in Queued
        BY <1>3, <1>5, <2>2 DEF Queued
      <3>2. QED
        BY <1>3, <1>5, <2>1, <2>2, <3>1
    <2>3. Len(queue) > 1 => Len(queue') > 1 /\ queue'[2] = queue[2] /\ queue[2] \in Queued
      BY <1>3, <1>5, <2>1 DEF Queued
    <2>4. QED
      BY <1>1, <1>9, <2>2, <2>3 DEF Lined, txVars
  <1>11. Processing' /\ NoLostWakeup'
    BY <1>1 DEF Processing, NoLostWakeup, txVars, TypeOK
  <1>12. QED
    BY <1>6, <1>8, <1>10, <1>11

(***************************************************************************)
(* NetManRpcNetIFXmit may leave the transmit thread alone only while       *)
(* IsProcessingTx is set, and then that thread looks at the queue again.   *)
(***************************************************************************)
LEMMA NotifyInvariant ==
  ASSUME Sane, NEW t \in Threads, TestProcessing(t) \/ WakeTxThread(t)
  PROVE  Sane'
  <1>1. /\ UNCHANGED <<free, queue, priority, transmitting, held, allocs, stale, txVars>>
        /\ wakeups' \in Nat
    BY DEF Sane, TypeOK, TestProcessing, WakeTxThread
  <1>2. /\ pc[t] \in {"notify", "wake"}
        /\ pc' \in [Threads -> {"idle", "filling", "notify", "wake"}]
        /\ \A u \in Threads : u # t => pc'[u] = pc[u]
        /\ pc'[t] \in {"idle", "wake"}
    BY DEF Sane, TypeOK, TestProcessing, WakeTxThread
  <1>3. TypeOK'
    BY <1>1, <1>2 DEF Sane, TypeOK, txVars
  <1>4. Apart'
    <2>1. Held' = Held
      BY <1>2 DEF Held
    <2>2. QED
      BY <1>1, <2>1 DEF Sane, Apart, Free, Queued
  <1>5. Lined' /\ Processing'
    BY <1>1 DEF Sane, Lined, Processing, txVars
  <1>6. NoLostWakeup'
    <2>1. CASE TestProcessing(t)
      <3>1. SUFFICES ASSUME txpc = "sleep", queue # <<>> PROVE NoLostWakeup'
        BY <1>1 DEF NoLostWakeup, txVars
      <3>2. pc'[t] = "wake"
        BY <2>1, <3>1 DEF Sane, Processing, TestProcessing, TypeOK
      <3>3. QED
        BY <3>2 DEF NoLostWakeup
    <2>2. CASE WakeTxThread(t)
      <3>1. wakeups' > 0
        BY <2>2 DEF Sane, TypeOK, WakeTxThread
      <3>2. QED
        BY <3>1 DEF NoLostWakeup
    <2>3. QED
      BY <2>1, <2>2
  <1>7. QED
    BY <1>3, <1>4, <1>5, <1>6 DEF Sane

-----------------------------------------------------------------------------
\* DeQTxPacket frees the packet that was sent; the next one is the head.
LEMMA DeQInvariant == Sane /\ DeQTxPacket => Sane'
  <1> SUFFICES ASSUME Sane, DeQTxPacket PROVE Sane'
    OBVIOUS
  <1> USE DEF Sane
  <1>1. queue # <<>>
    BY DEF DeQTxPacket, Lined
  <1>2. /\ txpc = "dequeue" /\ queue' = Tail(queue) /\ free' = <<Head(queue)>> \o free
        /\ current' = after /\ txpc' = IF after = NULL THEN "clear" ELSE "send"
        /\ UNCHANGED <<priority, transmitting, threadVars, after, IsProcessingTx, wakeups>>
    BY <1>1 DEF DeQTxPacket
  <1>3. queue \in Seq(Buffers) /\ Distinct(queue) /\ Queued = Elements(queue)
    BY DEF TypeOK, Apart, Queued, Elements
  <1>4. Queued' = Elements(queue')
    BY DEF Queued, Elements
  <1>5. /\ queue' \in Seq(Buffers) /\ Len(queue') = Len(queue) - 1
        /\ \A j \in 1..Len(queue) - 1 : queue'[j] = queue[j + 1]
        /\ Distinct(queue') /\ Queued' = Queued \ {Head(queue)} /\ Head(queue) \in Buffers
    BY <1>1, <1>2, <1>3, <1>4, TailFacts
  <1>6. Head(queue) \in Queued
    BY <1>1, <1>3 DEF Queued
  <1>f. /\ free' \in Seq(Buffers) /\ Distinct(free') /\ Free' = Free \cup {Head(queue)}
    <2>1. free \in Seq(Buffers) /\ Distinct(free) /\ Free = Elements(free)
      BY DEF TypeOK, Apart, Free, Elements
    <2>2. Head(queue) \notin Free
      BY <1>6 DEF Apart
    <2>3. Free' = Elements(free')
      BY DEF Free, Elements
    <2>4. QED
      BY <1>2, <1>5, <2>1, <2>2, <2>3, PushFacts
  <1>7. TypeOK'
    BY <1>2, <1>5, <1>f DEF TypeOK, threadVars
  <1>8. Apart'
    <2>1. UNCHANGED <<Held, held>>
      BY <1>2 DEF Held, threadVars
    <2>2. Free' \cup Queued' = Free \cup Queued /\ Free' \cap Queued' = {}
      BY <1>5, <1>6, <1>f DEF Apart
    <2>3. QED
      BY <1>5, <1>f, <2>1, <2>2 DEF Apart
  <1>9. Lined'
    <2>1. CASE after = NULL
      BY <1>2, <2>1 DEF Lined
    <2>2. CASE after # NULL
      <3>1. Len(queue) > 1 /\ queue[2] = after /\ transmitting[after]
        BY <1>2, <2>2 DEF Lined
      <3>2. queue' # <<>> /\ Head(queue') = after
        BY <1>3, <1>5, <3>1
      <3>3. QED
        BY <1>2, <2>2, <3>1, <3>2 DEF Lined
    <2>3. QED
      BY <2>1, <2>2
  <1>10. Processing' /\ NoLostWakeup'
    BY <1>2 DEF Processing, NoLostWakeup
  <1>11. QED
    BY <1>7, <1>8, <1>9, <1>10

\* The other steps of the transmit thread leave every packet where it is.
LEMMA TxThreadInvariant == Sane /\ TxThread => Sane'
  <1> SUFFICES ASSUME Sane, TxThread PROVE Sane'
    OBVIOUS
  <1>1. CASE DeQTxPacket
    BY <1>1, DeQInvariant
  <1>2. CASE Sleep \/ NextTxPacket \/ BeginTx \/ StartDma \/ AfterTxPacket \/ EndTx
    <2>1. UNCHANGED <<free, queue, priority, threadVars>>
      BY <1>2 DEF Sleep, NextTxPacket, BeginTx, StartDma, AfterTxPacket, EndTx
    <2>2. queue \in Seq(Buffers) /\ (queue # <<>> => Head(queue) = queue[1] /\ queue[1] \in Buffers)
      BY DEF Sane, TypeOK
    <2>3. Len(queue) > 1 => queue[2] \in Buffers
      BY <2>2
    <2>4. TypeOK'
      <3>1. CASE Sleep \/ BeginTx \/ StartDma \/ EndTx
        <4>1. wakeups' \in Nat
          BY <3>1 DEF Sane, TypeOK, Sleep, BeginTx, StartDma, EndTx
        <4>2. /\ IsProcessingTx' \in BOOLEAN
              /\ txpc' \in {"sleep", "next", "begin", "send", "after", "dequeue", "clear"}
              /\ UNCHANGED <<transmitting, current, after>>
          BY <3>1 DEF Sane, TypeOK, Sleep, BeginTx, StartDma, EndTx
        <4>3. QED
          BY <2>1, <4>1, <4>2 DEF Sane, TypeOK, threadVars
      <3>2. CASE NextTxPacket
        BY <2>1, <2>2, <3>2 DEF Sane, TypeOK, threadVars, NextTxPacket
      <3>3. CASE AfterTxPacket
        BY <2>1, <2>3, <3>3 DEF Sane, TypeOK, threadVars, AfterTxPacket
      <3>4. QED
        BY <1>2, <3>1, <3>2, <3>3
    <2>5. Apart'
      BY <2>1 DEF Sane, Apart, Held, Free, Queued, threadVars
    <2>6. Lined'
      BY <1>2, <2>1, <2>2, <2>3
      DEF Sane, TypeOK, Lined, Sleep, NextTxPacket, BeginTx, StartDma, AfterTxPacket, EndTx
    <2>7. Processing'
      BY <1>2 DEF Sane, TypeOK, Processing, Sleep, NextTxPacket, BeginTx, StartDma,
                  AfterTxPacket, EndTx
    <2>8. NoLostWakeup'
      BY <1>2, <2>1 DEF NoLostWakeup, Sleep, NextTxPacket, BeginTx, StartDma, AfterTxPacket, EndTx
    <2>9. QED
      BY <2>4, <2>5, <2>6, <2>7, <2>8 DEF Sane
  <1>3. QED
    BY <1>1, <1>2 DEF TxThread

\* Once AllocTxPacket has gone on with such a pointer, it has.
LEMMA StaleStays == [Next]_vars /\ stale => stale'
  <1> SUFFICES ASSUME [Next]_vars, stale PROVE stale'
    OBVIOUS
  <1>1. CASE TxThread
    BY <1>1 DEF TxThread, Sleep, NextTxPacket, BeginTx, StartDma, AfterTxPacket, DeQTxPacket,
                EndTx, threadVars
  <1>2. ASSUME NEW t \in Threads, Alloc(t) PROVE stale'
    BY <1>2 DEF Alloc, AllocFree, AllocSteal, AllocFails
  <1>3. ASSUME NEW t \in Threads, Submit(t) PROVE stale'
    BY <1>3 DEF Submit, AddTxPacket, TestProcessing, WakeTxThread
  <1>4. CASE UNCHANGED vars
    BY <1>4 DEF vars, threadVars
  <1>5. QED
    BY <1>1, <1>2, <1>3, <1>4 DEF Next

\* Every step of Next keeps the inductive invariant.
LEMMA NextInvariant == IInv /\ [Next]_vars => IInv'
  <1> SUFFICES ASSUME Sane, [Next]_vars, ~stale' PROVE Sane'
    BY StaleStays DEF IInv
  <1>1. CASE TxThread
    BY <1>1, TxThreadInvariant
  <1>2. ASSUME NEW t \in Threads, Alloc(t) PROVE Sane'
    BY <1>2, AllocFreeInvariant, AllocStealInvariant, AllocFailsInvariant DEF Alloc
  <1>3. ASSUME NEW t \in Threads, Submit(t) PROVE Sane'
    BY <1>3, AddInvariant, NotifyInvariant DEF Submit
  <1>4. CASE UNCHANGED vars
    <2>1. TypeOK'
      BY <1>4 DEF vars, threadVars, txVars, Sane, TypeOK
    <2>2. Apart'
      <3>1. UNCHANGED <<free, queue, held, Held, Free, Queued>>
        BY <1>4 DEF vars, threadVars, Held, Free, Queued
      <3>2. QED
        BY <3>1 DEF Sane, Apart
    <2>3. Lined' /\ Processing' /\ NoLostWakeup'
      BY <1>4 DEF vars, threadVars, txVars, Sane, Lined, Processing, NoLostWakeup
    <2>4. QED
      BY <2>1, <2>2, <2>3 DEF Sane
  <1>5. QED
    BY <1>1, <1>2, <1>3, <1>4 DEF Next

-----------------------------------------------------------------------------
(***************************************************************************)
(* The invariant holds of every interleaving of the senders and the        *)
(* transmit thread, up to the call of AllocTxPacket that finds no buffer   *)
(* and goes on with something else than NULL.                              *)
(***************************************************************************)
THEOREM Invariance == Spec => []IInv
  <1>1. Init => IInv
    BY InitInvariant DEF IInv
  <1>2. IInv /\ [Next]_vars => IInv'
    BY NextInvariant
  <1>3. QED
    BY <1>1, <1>2, PTL DEF Spec

\* Up to that call no buffer of the pool is lost, used twice or queued twice
\* (AllocTxPacket, AddTxPacket, DeQTxPacket).
THEOREM PoolIsPartitioned == Spec => []Partition
  <1>1. IInv => Partition
    BY DEF IInv, Sane, Partition
  <1>2. QED
    BY <1>1, Invariance, PTL

\* Up to that call AllocTxPacket never takes a packet that NETMAN_TxThread is
\* sending.
THEOREM PacketsOnTheirWayStay == Spec => []InFlight
  <1>1. IInv => InFlight
    BY DEF IInv, Sane, InFlight
  <1>2. QED
    BY <1>1, Invariance, PTL

\* Up to that call NETMAN_TxThread never sleeps on a packet that nobody will
\* wake it for.
THEOREM WakeupIsNotLost == Spec => [](~stale => NoLostWakeup)
  <1>1. IInv => (~stale => NoLostWakeup)
    BY DEF IInv, Sane
  <1>2. QED
    BY <1>1, Invariance, PTL

\* Up to that call the state of the queue never leaves its types.
THEOREM TypeCorrect == Spec => [](~stale => TypeOK)
  <1>1. IInv => (~stale => TypeOK)
    BY DEF IInv, Sane
  <1>2. QED
    BY <1>1, Invariance, PTL

-----------------------------------------------------------------------------
(***************************************************************************)
(* A queued packet that may not be displaced is the one under transfer, or *)
(* the one announced.                                                      *)
(***************************************************************************)
Marked ==
  \A b \in Queued : transmitting[b] =>
    \/ b = current /\ txpc \in {"begin", "send", "after", "dequeue"}
    \/ b = after /\ txpc = "dequeue"

\* A packet that a thread takes or queues is not marked.
LEMMA SenderMarks ==
  ASSUME Sane, Marked, NEW t \in Threads, Alloc(t) \/ Submit(t), ~stale'
  PROVE  Marked'
  <1> USE DEF Sane
  <1>1. queue \in Seq(Buffers) /\ Distinct(queue) /\ Queued = Elements(queue)
    BY DEF TypeOK, Apart, Queued, Elements
  <1>2. Queued' = Elements(queue') /\ Queued \subseteq Buffers
    BY DEF Queued, Elements, TypeOK
  <1>3. txVars' = txVars
    BY DEF Alloc, Submit, AllocFree, AllocSteal, AllocFails, AddTxPacket, TestProcessing,
           WakeTxThread
  <1>4. \A b \in Queued' : transmitting'[b] => b \in Queued /\ transmitting[b]
    <2>1. ASSUME NEW b, NEW p, Obtain(t, b, p)
          PROVE  \A c \in Buffers : transmitting'[c] => transmitting[c]
      BY <2>1 DEF Obtain, TypeOK
    <2>2. CASE AllocFree(t)
      BY <1>2, <2>1, <2>2 DEF AllocFree, Queued
    <2>3. CASE AllocSteal(t)
      <3>1. PICK p \in Priorities, i \in DOMAIN queue :
              Obtain(t, queue[i], p) /\ queue' = RemoveAt(queue, i)
        BY <2>3 DEF AllocSteal
      <3>2. Queued' \subseteq Queued
        BY <1>1, <1>2, <3>1, RemoveAtFacts
      <3> QED
        BY <1>2, <2>1, <3>1, <3>2
    <2>4. CASE AllocFails(t)
      BY <2>4 DEF AllocFails, Queued
    <2>5. CASE AddTxPacket(t)
      <3>1. held[t] \in Buffers /\ held[t] \notin Queued /\ queue' = Append(queue, held[t])
            /\ transmitting' = [transmitting EXCEPT ![held[t]] = FALSE]
        BY <2>5 DEF AddTxPacket, Apart, Held
      <3>2. Queued' = Queued \cup {held[t]}
        BY <1>1, <1>2, <3>1, AppendFacts
      <3> QED
        BY <1>2, <3>1, <3>2 DEF TypeOK
    <2>6. CASE TestProcessing(t) \/ WakeTxThread(t)
      BY <2>6 DEF TestProcessing, WakeTxThread, Queued
    <2> QED
      BY <2>2, <2>3, <2>4, <2>5, <2>6 DEF Alloc, Submit
  <1> QED
    BY <1>3, <1>4 DEF Marked, txVars

\* NextTxPacket marks the head, AfterTxPacket the second, and DeQTxPacket
\* leaves the second alone as the new head.
LEMMA TxThreadMarks ==
  ASSUME Sane, Marked, TxThread
  PROVE  Marked'
  <1> USE DEF Sane
  <1>1. queue \in Seq(Buffers) /\ Distinct(queue) /\ Queued = Elements(queue)
    BY DEF TypeOK, Apart, Queued, Elements
  <1>2. Queued' = Elements(queue') /\ Queued \subseteq Buffers
    BY DEF Queued, Elements, TypeOK
  <1>3. transmitting \in [Buffers -> BOOLEAN]
    BY DEF TypeOK
  <1>4. CASE Sleep \/ BeginTx \/ StartDma \/ EndTx
    <2>1. Queued' = Queued /\ UNCHANGED <<transmitting, current, after>>
      BY <1>4 DEF Sleep, BeginTx, StartDma, EndTx, Queued
    <2> QED
      BY <1>4, <2>1 DEF Marked, Sleep, BeginTx, StartDma, EndTx
  <1>5. CASE NextTxPacket
    <2>1. Queued' = Queued /\ after' = after /\ txpc = "next"
      BY <1>5 DEF NextTxPacket, Queued
    <2>2. CASE queue = <<>>
      BY <1>1, <2>2, <2>1 DEF Marked, Elements
    <2>3. CASE queue # <<>>
      <3>1. txpc' = "begin" /\ transmitting' = [transmitting EXCEPT ![current'] = TRUE]
        BY <1>5, <2>3 DEF NextTxPacket
      <3> QED
        BY <1>2, <1>3, <2>1, <3>1 DEF Marked
    <2> QED
      BY <2>2, <2>3
  <1>6. CASE AfterTxPacket
    <2>1. Queued' = Queued /\ current' = current /\ txpc = "after" /\ txpc' = "dequeue"
      BY <1>6 DEF AfterTxPacket, Queued
    <2>2. CASE Len(queue) > 1
      <3>1. transmitting' = [transmitting EXCEPT ![after'] = TRUE]
        BY <1>6, <2>2 DEF AfterTxPacket
      <3> QED
        BY <1>2, <1>3, <2>1, <3>1 DEF Marked
    <2>3. CASE ~(Len(queue) > 1)
      <3>1. transmitting' = transmitting
        BY <1>6, <2>3 DEF AfterTxPacket
      <3> QED
        BY <2>1, <3>1 DEF Marked
    <2> QED
      BY <2>2, <2>3
  <1>7. CASE DeQTxPacket
    <2>1. /\ txpc = "dequeue" /\ queue # <<>> /\ Head(queue) = current
          /\ queue' = Tail(queue) /\ transmitting' = transmitting /\ after' = after
          /\ current' = after /\ txpc' = IF after = NULL THEN "clear" ELSE "send"
      BY <1>7 DEF DeQTxPacket, Lined
    <2>2. Queued' = Queued \ {current}
      BY <1>1, <1>2, <2>1, TailFacts
    <2>3. NULL \notin Queued
      BY <1>2 DEF Buffers, NULL
    <2> QED
      BY <2>1, <2>2, <2>3 DEF Marked
  <1> QED
    BY <1>4, <1>5, <1>6, <1>7 DEF TxThread

(***************************************************************************)
(* Two packets are on their way at most, so among more buffers than that   *)
(* and one with each sender there is one to take.                          *)
(***************************************************************************)
LEMMA RoomForTheUrgent ==
  ASSUME Sane, Marked, IsFiniteSet(Threads),
         NUM_TX_PACKET_BUFFERS >= Cardinality(Threads) + 2
  PROVE  UrgentServed
  <1> USE DEF Sane
  <1> SUFFICES ASSUME free = <<>>, Held # Threads, NEW p \in Priorities, MostUrgent(p),
                      \A i \in DOMAIN queue : ~Eligible(i, p)
               PROVE  FALSE
    BY DEF UrgentServed
  <1> DEFINE H == {held[t] : t \in Held}
             W == {current, after}
  <1>1. Queued \subseteq W
    <2>1. ASSUME NEW i \in DOMAIN queue PROVE transmitting[queue[i]]
      <3>1. p <= priority[queue[i]]
        BY DEF MostUrgent, TypeOK
      <3> QED
        BY <3>1 DEF Eligible
    <2> QED
      BY <2>1 DEF Marked, Queued
  <1>2. Buffers \subseteq W \cup H
    <2>1. Free = {}
      BY DEF Free
    <2> QED
      BY <1>1, <2>1 DEF Apart
  <1>3. IsFiniteSet(W) /\ Cardinality(W) \in Nat /\ Cardinality(W) <= 2
    <2> DEFINE C == {current}
    <2>1. IsFiniteSet(C) /\ Cardinality(C) = 1
      BY FS_Singleton
    <2>2. W = C \cup {after}
      OBVIOUS
    <2> HIDE DEF W, C
    <2>3. /\ IsFiniteSet(C \cup {after})
          /\ Cardinality(C \cup {after}) = IF after \in C THEN Cardinality(C) ELSE Cardinality(C) + 1
      BY <2>1, FS_AddElement
    <2> QED
      BY <2>1, <2>2, <2>3
  <1>4. /\ IsFiniteSet(Held) /\ Cardinality(Held) \in Nat /\ Cardinality(Threads) \in Nat
        /\ Cardinality(Held) < Cardinality(Threads)
    <2>1. Held \in SUBSET Threads
      BY DEF Held
    <2>2. /\ IsFiniteSet(Held) /\ Cardinality(Held) <= Cardinality(Threads)
          /\ Cardinality(Threads) # Cardinality(Held)
      BY <2>1, FS_Subset
    <2>3. Cardinality(Held) \in Nat /\ Cardinality(Threads) \in Nat
      BY <2>2, FS_CardinalityType
    <2> QED
      BY <2>2, <2>3
  <1>5. IsFiniteSet(H) /\ Cardinality(H) \in Nat /\ Cardinality(H) <= Cardinality(Held)
    <2> DEFINE f == [t \in Held |-> held[t]]
    <2>1. f \in Surjection(Held, H)
      BY DEF Surjection
    <2> HIDE DEF f, H
    <2>2. IsFiniteSet(H) /\ Cardinality(H) <= Cardinality(Held)
      BY <1>4, <2>1, FS_Surjection
    <2> QED
      BY <2>2, FS_CardinalityType
  <1>6. IsFiniteSet(Buffers) /\ Cardinality(Buffers) = NUM_TX_PACKET_BUFFERS
    <2>1. Cardinality(Threads) \in Nat
      BY <1>4
    <2> QED
      BY <2>1, BuffersAssumption, FS_Interval DEF Buffers
  <1> HIDE DEF H, W
  <1>7. IsFiniteSet(W \cup H) /\ Cardinality(W \cup H) <= Cardinality(W) + Cardinality(H)
    <2>1. /\ IsFiniteSet(W \cup H)
          /\ Cardinality(W \cup H) = Cardinality(W) + Cardinality(H) - Cardinality(W \cap H)
      BY <1>3, <1>5, FS_Union
    <2>2. Cardinality(W \cap H) \in Nat
      <3>1. W \cap H \in SUBSET W
        OBVIOUS
      <3>2. IsFiniteSet(W \cap H)
        BY <1>3, <3>1, FS_Subset
      <3> QED
        BY <3>2, FS_CardinalityType
    <2> QED
      BY <1>3, <1>5, <2>1, <2>2
  <1>8. NUM_TX_PACKET_BUFFERS <= Cardinality(W \cup H) /\ Cardinality(W \cup H) \in Nat
    <2>1. Buffers \in SUBSET (W \cup H)
      BY <1>2
    <2>2. Cardinality(W \cup H) \in Nat
      BY <1>7, FS_CardinalityType
    <2> QED
      BY <1>6, <1>7, <2>1, <2>2, FS_Subset
  <1> QED
    BY <1>3, <1>4, <1>5, <1>7, <1>8, BuffersAssumption

(***************************************************************************)
(* Up to that call AllocTxPacket always has a buffer for the most urgent   *)
(* packets (DHCP), when there are two buffers more than threads that send: *)
(* it is never a DHCP packet that is written through the unset pointer.    *)
(***************************************************************************)
THEOREM UrgentGetABuffer ==
  ASSUME IsFiniteSet(Threads), NUM_TX_PACKET_BUFFERS >= Cardinality(Threads) + 2
  PROVE  Spec => []UrgentServed
  <1> DEFINE M == ~stale => Marked
  <1>1. Init => M
    BY DEF Init, Marked, Queued
  <1>2. IInv /\ M /\ [Next]_vars => M'
    <2> SUFFICES ASSUME Sane, Marked, [Next]_vars, ~stale' PROVE Marked'
      BY StaleStays DEF IInv
    <2>1. CASE TxThread
      BY <2>1, TxThreadMarks
    <2>2. ASSUME NEW t \in Threads, Alloc(t) \/ Submit(t) PROVE Marked'
      BY <2>2, SenderMarks
    <2>3. CASE UNCHANGED vars
      BY <2>3 DEF Marked, Queued, vars, txVars
    <2> QED
      BY <2>1, <2>2, <2>3 DEF Next
  <1>3. IInv /\ M => UrgentServed
    <2>1. CASE stale
      BY <2>1 DEF UrgentServed
    <2>2. CASE ~stale
      BY <2>2, RoomForTheUrgent DEF IInv
    <2> QED
      BY <2>1, <2>2
  <1>4. Spec => []IInv
    BY Invariance
  <1> QED
    BY <1>1, <1>2, <1>3, <1>4, PTL DEF Spec
=============================================================================
