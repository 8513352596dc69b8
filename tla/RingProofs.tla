----------------------------- MODULE RingProofs -----------------------------
(***************************************************************************)
(* Proofs about the two rings of frame slots between the EE and the IOP,   *)
(* for any number of slots, any size of a group and any number of frames.  *)
(* The names of the receive ring begin with Rx where both have the idea.   *)
(***************************************************************************)
EXTENDS TxRing, RxRing, Integers, TLAPS

-----------------------------------------------------------------------------
(***************************************************************************)
(* Division with remainder by the number of slots.                         *)
(***************************************************************************)
LEMMA DivMod ==
  ASSUME NEW n \in Nat
  PROVE  /\ n \div Slots \in Nat /\ n % Slots \in Slot
         /\ n = Slots * (n \div Slots) + (n % Slots)
  BY SlotsAssumption DEF Slot

LEMMA AtLeast == ASSUME NEW k \in Int, k >= 1 PROVE Slots * k >= Slots
  BY SlotsAssumption

LEMMA Distributes ==
  ASSUME NEW k \in Int, NEW j \in Int PROVE Slots * (k - j) = Slots * k - Slots * j
  BY SlotsAssumption

LEMMA QuotientsDiffer ==
  ASSUME NEW q \in Int, NEW p \in Int, NEW r \in Slot, NEW s \in Slot, q > p
  PROVE  Slots * q + r # Slots * p + s
  <1>1. Slots * (q - p) >= Slots
    BY AtLeast
  <1>2. Slots * (q - p) = Slots * q - Slots * p /\ Slots * q \in Int /\ Slots * p \in Int
    BY Distributes, SlotsAssumption
  <1> QED BY <1>1, <1>2, SlotsAssumption DEF Slot

\* A quotient and a remainder belong to one number only.
LEMMA Remainder ==
  ASSUME NEW n \in Nat, NEW q \in Nat, NEW r \in Slot, n = Slots * q + r
  PROVE  n % Slots = r
  <1>1. ~(q > n \div Slots) /\ ~(n \div Slots > q)
    BY DivMod, QuotientsDiffer
  <1>2. q = n \div Slots
    BY <1>1, DivMod
  <1>3. n % Slots \in Int /\ Slots * q \in Int /\ r \in Int
    BY DivMod, SlotsAssumption DEF Slot
  <1> QED BY <1>2, <1>3, DivMod

LEMMA AfterMod == ASSUME NEW n \in Nat PROVE (n + 1) % Slots = After(n % Slots)
  <1> DEFINE q == n \div Slots
             r == n % Slots
  <1>1. q \in Nat /\ r \in Slot /\ n = Slots * q + r
    BY DivMod
  <1> HIDE DEF q, r
  <1>2. CASE r + 1 \in Slot
    <2>1. n + 1 = Slots * q + (r + 1) /\ n + 1 \in Nat
      BY <1>1, SlotsAssumption DEF Slot
    <2>2. (n + 1) % Slots = r + 1
      BY <1>1, <1>2, <2>1, Remainder
    <2>3. r + 1 = Slots * 0 + (r + 1) /\ r + 1 \in Nat
      BY <1>2, SlotsAssumption DEF Slot
    <2>4. (r + 1) % Slots = r + 1
      BY <1>2, <2>3, Remainder
    <2> QED BY <2>2, <2>4 DEF After, r
  <1>3. CASE r + 1 \notin Slot
    <2>1. r + 1 = Slots /\ 0 \in Slot
      BY <1>1, <1>3, SlotsAssumption DEF Slot
    <2>2. Slots * (q + 1) = Slots * q + Slots /\ Slots * q \in Nat
      BY <1>1, SlotsAssumption
    <2>3. n + 1 = Slots * (q + 1) + 0 /\ q + 1 \in Nat /\ n + 1 \in Nat
      <3>1. q + 1 \in Nat /\ n + 1 \in Nat /\ q \in Int
        BY <1>1
      <3>2. r = Slots - 1 /\ Slots \in Int
        BY <1>1, <2>1, SlotsAssumption DEF Slot
      <3> DEFINE m == Slots * q
                 k == Slots * (q + 1)
      <3>3. m \in Int /\ k = m + Slots /\ n = m + r
        BY <1>1, <2>2
      <3> HIDE DEF m, k
      <3>4. n + 1 = k + 0
        BY <3>2, <3>3
      <3> QED BY <3>1, <3>4 DEF k
    <2>4. (n + 1) % Slots = 0
      BY <2>1, <2>3, Remainder
    <2>5. Slots = Slots * 1 + 0 /\ 1 \in Nat /\ Slots \in Nat
      BY SlotsAssumption
    <2>6. Slots % Slots = 0
      BY <2>1, <2>5, Remainder
    <2> QED BY <2>1, <2>4, <2>6 DEF After, r
  <1> QED BY <1>2, <1>3

\* Two frames less than a turn apart do not share a slot.
LEMMA SlotsApart ==
  ASSUME NEW f \in Nat, NEW g \in Nat, f < g, g < f + Slots
  PROVE  f % Slots # g % Slots
  <1> SUFFICES ASSUME f % Slots = g % Slots PROVE FALSE
    OBVIOUS
  <1> DEFINE q == f \div Slots
             p == g \div Slots
             r == f % Slots
  <1>1. q \in Nat /\ p \in Nat /\ r \in Slot /\ f = Slots * q + r /\ g = Slots * p + r
    BY DivMod
  <1> HIDE DEF q, p, r
  <1>2. Slots * (p - q) = Slots * p - Slots * q /\ Slots * p \in Int /\ Slots * q \in Int
    BY <1>1, Distributes, SlotsAssumption
  <1>3. Slots * (p - q) = g - f
    BY <1>1, <1>2, SlotsAssumption DEF Slot
  <1>4. CASE p > q
    <2>1. Slots * (p - q) >= Slots
      BY <1>1, <1>4, AtLeast
    <2> QED BY <1>3, <2>1, SlotsAssumption
  <1>5. CASE p = q
    <2>1. Slots * p = Slots * q
      BY <1>5
    <2> QED BY <1>1, <1>2, <2>1, SlotsAssumption DEF Slot
  <1>6. CASE q > p
    <2>1. Slots * (q - p) >= Slots /\ Slots * (q - p) = Slots * q - Slots * p
      BY <1>1, <1>6, AtLeast, Distributes
    <2> QED BY <1>2, <1>3, <2>1, SlotsAssumption
  <1> QED BY <1>1, <1>4, <1>5, <1>6

\* A frame a whole turn later has the same slot.
LEMMA SlotsTurn == ASSUME NEW n \in Nat PROVE (n + Slots) % Slots = n % Slots
  <1> DEFINE q == n \div Slots
             r == n % Slots
  <1>1. n = Slots * q + r /\ q \in Nat /\ r \in Slot
    BY DivMod
  <1> HIDE DEF q, r
  <1>2. Slots * (q + 1) = Slots * q + Slots /\ Slots * q \in Nat
    BY <1>1, SlotsAssumption
  <1>3. n + Slots = Slots * (q + 1) + r /\ q + 1 \in Nat /\ n + Slots \in Nat
    BY <1>1, <1>2, SlotsAssumption DEF Slot
  <1>4. (n + Slots) % Slots = r
    BY <1>1, <1>3, Remainder
  <1> QED BY <1>4 DEF r

-----------------------------------------------------------------------------
(***************************************************************************)
(* The transmit ring's invariant.  The pointers of the two ends count      *)
(* frames modulo the ring, on each side for itself; the transfer under way *)
(* is that of the last frame; and until an overrun the slots hold exactly  *)
(* the frames that have landed and are not dequeued.                       *)
(***************************************************************************)
Zeros == eeLength \in [Slot -> {0}]

Pointers == wrPtr = sent % Slots /\ rdPtr = Dequeued % Slots

Thread == txpc \in {"wait", "send"} => sent < MaxFrames

Transit ==
  /\ sif.stage = "none" <=> sif = Nothing
  /\ sif # Nothing => sent >= 1 /\ sif.slot = (sent - 1) % Slots /\ sif.frame = sent
  /\ sending => Len(wire) >= 1

Held(s) == \E f \in Dequeued + 1 .. Landed : (f - 1) % Slots = s

Content ==
  /\ Dequeued <= Landed /\ Landed <= Dequeued + Slots
  /\ sending => Dequeued < Landed
  /\ sif.stage = "status" => Landed < Dequeued + Slots /\ buffer[sif.slot] = sent
  /\ \A s \in Slot : length[s] # 0 <=> Held(s)
  /\ \A f \in Dequeued + 1 .. Landed :
       length[(f - 1) % Slots] = f /\ buffer[(f - 1) % Slots] = f
  /\ \A i \in DOMAIN wire : wire[i] = i

IInv == TypeOK /\ Zeros /\ Pointers /\ Thread /\ Transit /\ (~overrun => Content)

LEMMA AfterSlot == ASSUME NEW s \in Slot PROVE After(s) \in Slot
  BY DivMod DEF Slot, After

\* With every length zero the next frame is announced by a command.
LEMMA AlwaysNotifies == IInv => Notifies
  <1>1. IInv => eeLength[After(wrPtr)] = 0
    BY AfterSlot DEF IInv, TypeOK, Zeros
  <1> QED BY <1>1 DEF Notifies

LEMMA Counts ==
  ASSUME IInv
  PROVE  /\ Dequeued \in Nat /\ Landed \in Nat /\ sent \in Nat /\ Len(wire) \in Nat
         /\ sif # Nothing => Landed = sent - 1
         /\ sif = Nothing => Landed = sent
  <1>1. Len(wire) \in Nat /\ sent \in Nat
    BY MaxFramesAssumption DEF IInv, TypeOK
  <1> QED BY <1>1 DEF IInv, Transit, Dequeued, Landed

LEMMA InitIInv == Init => IInv
  <1> SUFFICES ASSUME Init PROVE IInv
    OBVIOUS
  <1>1. 0 \in Slot /\ 0 % Slots = 0
    <2>1. 0 \in Slot /\ 0 = Slots * 0 + 0
      BY SlotsAssumption DEF Slot
    <2> QED BY <2>1, Remainder
  <1>2. Len(wire) = 0 /\ Dequeued = 0 /\ Landed = 0 /\ wire \in Seq(0 .. MaxFrames)
    BY DEF Init, Dequeued, Landed
  <1>3. TypeOK
    <2>1. 0 \in 0 .. MaxFrames /\ 0 \in Nat
      BY MaxFramesAssumption
    <2>2. /\ eeLength \in [Slot -> 0 .. MaxFrames] /\ buffer \in [Slot -> 0 .. MaxFrames]
          /\ length \in [Slot -> 0 .. MaxFrames]
      BY <2>1 DEF Init
    <2>3. sif \in [stage : {"none", "data", "status"}, slot : Slot, frame : 0 .. MaxFrames,
                   notify : BOOLEAN]
      BY <1>1, <2>1 DEF Init, Nothing
    <2>4. /\ txpc = "sleep" /\ sent \in 0 .. MaxFrames /\ NumTx \in Nat /\ wrPtr \in Slot
          /\ rdPtr \in Slot /\ clears \subseteq Slot
          /\ xmit \in BOOLEAN /\ sending \in BOOLEAN /\ overrun \in BOOLEAN
      BY <1>1, <2>1 DEF Init
    <2> QED BY <1>2, <2>2, <2>3, <2>4 DEF TypeOK
  <1>4. Zeros /\ Pointers /\ Thread /\ Transit
    BY <1>1, <1>2 DEF Init, Zeros, Pointers, Thread, Transit, Nothing
  <1>5. Content
    <2>1. \A s \in Slot : length[s] = 0
      BY DEF Init
    <2>2. Dequeued + 1 .. Landed = {} /\ DOMAIN wire = {}
      BY <1>2 DEF Init
    <2> QED BY <1>2, <2>1, <2>2, SlotsAssumption DEF Init, Content, Held, Nothing
  <1> QED BY <1>3, <1>4, <1>5 DEF IInv

-----------------------------------------------------------------------------
\* Nothing that the invariant of the ring speaks of changes.
LEMMA QuietStep ==
  ASSUME IInv, UNCHANGED <<sent, wrPtr, sif, buffer, length, rdPtr, sending, wire, overrun>>
  PROVE  (Pointers /\ Transit /\ (~overrun => Content))'
  BY DEF IInv, Pointers, Transit, Content, Held, Dequeued, Landed

LEMMA ThreadKeepsIInv ==
  ASSUME IInv, Wakeup \/ WaitForSpot \/ TransferDone
  PROVE  IInv'
  <1>1. UNCHANGED <<sent, wrPtr, eeLength, sif, buffer, length, xmit, adaptorVars, overrun>>
    BY DEF Wakeup, WaitForSpot, TransferDone
  <1>2. txpc' \in {"sleep", "wait", "send", "stat"} /\ NumTx' \in Nat
    BY DEF IInv, TypeOK, Wakeup, WaitForSpot, TransferDone
  <1>3. Thread'
    BY <1>1 DEF IInv, Thread, Wakeup, WaitForSpot, TransferDone
  <1>4. TypeOK'
    BY <1>1, <1>2 DEF IInv, TypeOK, adaptorVars
  <1>5. (Pointers /\ Transit /\ (~overrun => Content))'
    BY <1>1, QuietStep DEF adaptorVars
  <1> QED BY <1>1, <1>3, <1>4, <1>5 DEF IInv, Zeros

LEMMA ClearKeepsIInv ==
  ASSUME IInv, ClearArrives
  PROVE  IInv'
  <1> PICK s \in clears : eeLength' = [eeLength EXCEPT ![s] = 0] /\ clears' = clears \ {s}
    BY DEF ClearArrives
  <1>1. UNCHANGED <<eeVars, sif, buffer, length, xmit, rdPtr, sending, wire, overrun>>
    BY DEF ClearArrives
  <1>2. eeLength' = eeLength
    BY DEF IInv, TypeOK, Zeros
  <1>3. TypeOK'
    BY <1>1, <1>2 DEF IInv, TypeOK, eeVars
  <1>4. (Pointers /\ Transit /\ (~overrun => Content))'
    BY <1>1, QuietStep DEF eeVars
  <1> QED BY <1>1, <1>2, <1>3, <1>4 DEF IInv, Zeros, Thread, eeVars

LEMMA TransferKeepsIInv ==
  ASSUME IInv, Transfer
  PROVE  IInv'
  <1>1. /\ txpc = "send" /\ sif = Nothing /\ txpc' = "stat" /\ sent' = sent + 1
        /\ sif' = [stage |-> "data", slot |-> wrPtr, frame |-> sent + 1, notify |-> TRUE]
        /\ eeLength' = eeLength /\ wrPtr' = After(wrPtr)
        /\ UNCHANGED <<NumTx, buffer, length, xmit, adaptorVars, overrun>>
    BY AlwaysNotifies DEF Transfer
  <1>2. sif'.stage = "data" /\ sif'.slot = wrPtr /\ sif'.frame = sent + 1 /\ sif' # Nothing
    BY <1>1 DEF Nothing
  <1>3. sent \in Nat /\ sent < MaxFrames /\ MaxFrames \in Nat
    BY <1>1, Counts, MaxFramesAssumption DEF IInv, Thread
  <1>4. TypeOK'
    <2>1. sent' \in 0 .. MaxFrames /\ wrPtr' \in Slot
      BY <1>1, <1>3, AfterSlot DEF IInv, TypeOK
    <2>2. sif' \in [stage : {"none", "data", "status"}, slot : Slot, frame : 0 .. MaxFrames,
                    notify : BOOLEAN]
      BY <1>1, <1>3 DEF IInv, TypeOK
    <2> QED BY <1>1, <2>1, <2>2 DEF IInv, TypeOK, adaptorVars
  <1>5. Dequeued' = Dequeued /\ Landed' = Landed
    <2>1. Landed = sent
      BY <1>1 DEF Landed
    <2>2. Landed' = sent' - 1
      BY <1>2 DEF Landed, Nothing
    <2> QED BY <1>1, <1>3, <2>1, <2>2 DEF Dequeued, adaptorVars
  <1>6. Pointers'
    BY <1>1, <1>3, <1>5, AfterMod DEF IInv, Pointers, adaptorVars
  <1>7. Transit'
    <2>1. sent' >= 1 /\ sent' - 1 = sent /\ sif'.frame = sent'
      BY <1>1, <1>2, <1>3
    <2>2. sif'.slot = (sent' - 1) % Slots
      BY <1>2, <2>1 DEF IInv, Pointers
    <2>3. Nothing' = Nothing /\ sif'.stage # "none"
      BY <1>2 DEF Nothing
    <2> QED BY <1>1, <1>2, <2>1, <2>2, <2>3 DEF IInv, Transit, adaptorVars
  <1>8. (~overrun => Content)'
    <2>1. \A s : Held(s)' <=> Held(s)
      BY <1>5 DEF Held
    <2> QED BY <1>1, <1>2, <1>5, <2>1 DEF IInv, Content, adaptorVars
  <1> QED BY <1>1, <1>4, <1>6, <1>7, <1>8 DEF IInv, Zeros, Thread

(***************************************************************************)
(* The slot a frame arrives in is its own, and empty unless that is an     *)
(* overrun: then a whole turn of frames would be under way.                *)
(***************************************************************************)
LEMMA DataKeepsIInv ==
  ASSUME IInv, DataArrives
  PROVE  IInv'
  <1>1. /\ sif.stage = "data" /\ sif' = [sif EXCEPT !.stage = "status"]
        /\ buffer' = [buffer EXCEPT ![sif.slot] = sif.frame]
        /\ overrun' = (overrun \/ length[sif.slot] # 0)
        /\ UNCHANGED <<eeVars, eeLength, length, xmit, adaptorVars>>
    BY DEF DataArrives
  <1>2. /\ sif # Nothing /\ sent >= 1 /\ sif.slot = (sent - 1) % Slots /\ sif.frame = sent
        /\ sif.slot \in Slot /\ sif.frame \in 0 .. MaxFrames
    BY <1>1 DEF IInv, Transit, TypeOK, Nothing
  <1>3. /\ sif' \in [stage : {"none", "data", "status"}, slot : Slot, frame : 0 .. MaxFrames,
                     notify : BOOLEAN]
        /\ sif'.stage = "status" /\ sif'.slot = sif.slot /\ sif'.frame = sif.frame
    BY <1>1 DEF IInv, TypeOK
  <1>4. TypeOK'
    BY <1>1, <1>2, <1>3 DEF IInv, TypeOK, eeVars, adaptorVars
  <1>5. sif' # Nothing /\ Nothing' = Nothing
    BY <1>3 DEF Nothing
  <1>6. Dequeued' = Dequeued /\ Landed' = Landed /\ Landed = sent - 1
    BY <1>1, <1>2, <1>5 DEF Dequeued, Landed, eeVars, adaptorVars
  <1>7. Pointers' /\ Transit'
    BY <1>1, <1>2, <1>3, <1>5, <1>6 DEF IInv, Pointers, Transit, eeVars, adaptorVars
  <1>8. ASSUME ~overrun' PROVE Content'
    <2> DEFINE D == Dequeued
               L == Landed
    <2>1. Content /\ length[sif.slot] = 0 /\ D \in Nat /\ L \in Nat /\ sif.slot = L % Slots
      BY <1>1, <1>2, <1>6, <1>8, Counts DEF IInv
    <2>2. ~Held(sif.slot)
      BY <1>2, <2>1 DEF Content
    <2>3. L < D + Slots
      <3>1. L <= D + Slots /\ D <= L
        BY <2>1 DEF Content
      <3>2. ASSUME L = D + Slots PROVE FALSE
        <4>1. D + 1 \in D + 1 .. L /\ (D + 1) - 1 = D
          BY <2>1, <3>2, SlotsAssumption
        <4>2. D % Slots = L % Slots
          <5>1. D = Slots * (D \div Slots) + (D % Slots) /\ D \div Slots \in Nat
                /\ D % Slots \in Slot
            BY <2>1, DivMod
          <5> DEFINE q == D \div Slots
                     r == D % Slots
          <5> HIDE DEF q, r
          <5>2. Slots * (q + 1) = Slots * q + Slots /\ Slots * q \in Nat
            BY <5>1, SlotsAssumption DEF q
          <5>3. D = Slots * q + r /\ q + 1 \in Nat /\ r \in Slot
            BY <5>1 DEF q, r
          <5>5. r \in Nat /\ Slots \in Nat
            BY <5>3, SlotsAssumption DEF Slot
          <5>6. L = Slots * (q + 1) + r
            BY <3>2, <5>2, <5>3, <5>5
          <5>4. L % Slots = r
            BY <2>1, <5>3, <5>6, Remainder
          <5> QED BY <5>4 DEF r
        <4> QED BY <2>1, <2>2, <4>1, <4>2 DEF Held
      <3> QED BY <2>1, <3>1, <3>2, SlotsAssumption
    <2>4. buffer'[sif.slot] = sent
      BY <1>1, <1>2 DEF IInv, TypeOK
    <2>5. ASSUME NEW f \in D + 1 .. L PROVE buffer'[(f - 1) % Slots] = buffer[(f - 1) % Slots]
      <3>1. f - 1 \in Nat /\ f - 1 < L /\ L < (f - 1) + Slots
        BY <2>1, <2>3, SlotsAssumption
      <3>2. (f - 1) % Slots # sif.slot /\ (f - 1) % Slots \in Slot
        BY <2>1, <3>1, SlotsApart, DivMod
      <3> QED BY <1>1, <3>2 DEF IInv, TypeOK
    <2>6. \A s : Held(s)' <=> Held(s)
      BY <1>6 DEF Held
    <2> QED BY <1>1, <1>3, <1>6, <2>1, <2>3, <2>4, <2>5, <2>6 DEF Content, eeVars, adaptorVars
  <1> QED BY <1>1, <1>4, <1>7, <1>8 DEF IInv, Zeros, Thread, eeVars

(***************************************************************************)
(* Frame `sent' has landed, in the slot after those that were held.        *)
(***************************************************************************)
LEMMA HandleRxEventKeepsIInv ==
  ASSUME IInv, HandleRxEvent
  PROVE  IInv'
  <1>1. /\ sif.stage = "status" /\ sif' = Nothing
        /\ length' = [length EXCEPT ![sif.slot] = sif.frame]
        /\ xmit' = (xmit \/ sif.notify)
        /\ UNCHANGED <<eeVars, eeLength, buffer, adaptorVars, overrun>>
    BY DEF HandleRxEvent
  <1>2. /\ sif # Nothing /\ sent >= 1 /\ sif.slot = (sent - 1) % Slots /\ sif.frame = sent
        /\ sif.slot \in Slot /\ sif.frame \in 0 .. MaxFrames /\ sif.notify \in BOOLEAN
    BY <1>1 DEF IInv, Transit, TypeOK, Nothing
  <1>3. 0 \in Slot /\ 0 \in 0 .. MaxFrames
    BY SlotsAssumption, MaxFramesAssumption DEF Slot
  <1>4. TypeOK'
    <2>1. sif' \in [stage : {"none", "data", "status"}, slot : Slot, frame : 0 .. MaxFrames,
                    notify : BOOLEAN]
      BY <1>1, <1>3 DEF Nothing
    <2>2. length' \in [Slot -> 0 .. MaxFrames] /\ xmit' \in BOOLEAN
      BY <1>1, <1>2 DEF IInv, TypeOK
    <2> QED BY <1>1, <2>1, <2>2 DEF IInv, TypeOK, eeVars, adaptorVars
  <1>5. Nothing' = Nothing /\ sif'.stage = "none"
    BY <1>1 DEF Nothing
  <1>6. /\ Dequeued' = Dequeued /\ Landed' = sent /\ Landed = sent - 1 /\ Dequeued \in Nat
        /\ sent \in Nat
    BY <1>1, <1>2, <1>5, Counts DEF Dequeued, Landed, eeVars, adaptorVars
  <1>7. Pointers' /\ Transit'
    BY <1>1, <1>5, <1>6 DEF IInv, Pointers, Transit, eeVars, adaptorVars
  <1>8. ASSUME ~overrun' PROVE Content'
    <2> DEFINE D == Dequeued
               L == Landed
    <2>1. /\ Content /\ D \in Nat /\ L \in Nat /\ sent = L + 1 /\ sif.slot = L % Slots
          /\ D <= L /\ L < D + Slots /\ buffer[sif.slot] = sent
      BY <1>1, <1>2, <1>6, <1>8, Counts DEF IInv, Content
    <2>2. length'[sif.slot] = sent /\ sent # 0
      BY <1>1, <1>2 DEF IInv, TypeOK
    <2>3. ASSUME NEW f \in D + 1 .. L
          PROVE  (f - 1) % Slots # sif.slot /\ (f - 1) % Slots \in Slot
      <3>1. f - 1 \in Nat /\ f - 1 < L /\ L < (f - 1) + Slots
        BY <2>1, SlotsAssumption
      <3> QED BY <2>1, <3>1, SlotsApart, DivMod
    <2>4. ASSUME NEW f \in D + 1 .. sent
          PROVE  length'[(f - 1) % Slots] = f /\ buffer'[(f - 1) % Slots] = f
      <3>1. CASE f = sent
        <4>1. f - 1 = L
          BY <2>1, <3>1
        <4> QED BY <1>1, <2>1, <2>2, <3>1, <4>1
      <3>2. CASE f # sent
        <4>1. f \in D + 1 .. L
          BY <2>1, <3>2
        <4> QED BY <1>1, <2>1, <2>3, <4>1 DEF Content, IInv, TypeOK
      <3> QED BY <3>1, <3>2
    <2>5. ASSUME NEW s \in Slot PROVE length'[s] # 0 <=> Held(s)'
      <3>1. Held(s)' <=> \E f \in D + 1 .. sent : (f - 1) % Slots = s
        BY <1>6 DEF Held
      <3>2. CASE s = sif.slot
        <4>1. sent \in D + 1 .. sent /\ sent - 1 = L
          BY <2>1
        <4> QED BY <2>1, <2>2, <3>1, <3>2, <4>1
      <3>3. CASE s # sif.slot
        <4>1. length'[s] = length[s]
          BY <1>1, <3>3 DEF IInv, TypeOK
        <4>2. (\E f \in D + 1 .. sent : (f - 1) % Slots = s) <=> Held(s)
          <5>1. ASSUME NEW f \in D + 1 .. sent, (f - 1) % Slots = s PROVE f \in D + 1 .. L
            <6>1. f # sent
              <7>1. sent - 1 = L
                BY <2>1
              <7> QED BY <2>1, <3>3, <5>1, <7>1
            <6> QED BY <2>1, <6>1
          <5>2. D + 1 .. L \subseteq D + 1 .. sent
            BY <2>1
          <5> QED BY <5>1, <5>2 DEF Held
        <4> QED BY <2>1, <3>1, <4>1, <4>2 DEF Content
      <3> QED BY <3>2, <3>3
    <2>6. D <= sent /\ sent <= D + Slots /\ (sending' => D < sent)
      BY <2>1, SlotsAssumption
    <2> QED BY <1>1, <1>5, <1>6, <2>1, <2>4, <2>5, <2>6 DEF Content, adaptorVars
  <1> QED BY <1>1, <1>4, <1>7, <1>8 DEF IInv, Zeros, Thread, eeVars

(***************************************************************************)
(* The frame in the slot to be read is the next one, if there is one.      *)
(***************************************************************************)
LEMMA NextTxPacketKeepsIInv ==
  ASSUME IInv, NextTxPacket
  PROVE  IInv'
  <1>1. CASE length[rdPtr] = 0
    <2>1. /\ xmit' = FALSE
          /\ UNCHANGED <<eeVars, eeLength, sif, buffer, length, rdPtr, clears, sending, wire,
                         overrun>>
      BY <1>1 DEF NextTxPacket
    <2>2. TypeOK'
      BY <2>1 DEF IInv, TypeOK, eeVars
    <2>3. (Pointers /\ Transit /\ (~overrun => Content))'
      BY <2>1, QuietStep DEF eeVars
    <2> QED BY <2>1, <2>2, <2>3 DEF IInv, Zeros, Thread, eeVars
  <1>2. CASE length[rdPtr] # 0
    <2>1. /\ ~sending /\ sending' = TRUE /\ wire' = Append(wire, buffer[rdPtr])
          /\ UNCHANGED <<eeVars, eeLength, sif, buffer, length, rdPtr, clears, xmit, overrun>>
      BY <1>2 DEF NextTxPacket
    <2>2. /\ buffer[rdPtr] \in 0 .. MaxFrames /\ wire \in Seq(0 .. MaxFrames)
          /\ rdPtr \in Slot
      BY DEF IInv, TypeOK
    <2>3. /\ wire' \in Seq(0 .. MaxFrames) /\ Len(wire') = Len(wire) + 1
          /\ Len(wire) \in Nat /\ DOMAIN wire' = 1 .. Len(wire) + 1
          /\ \A i \in DOMAIN wire : wire'[i] = wire[i]
          /\ wire'[Len(wire) + 1] = buffer[rdPtr]
      BY <2>1, <2>2
    <2>4. TypeOK'
      BY <2>1, <2>3 DEF IInv, TypeOK, eeVars
    <2>5. /\ Dequeued = Len(wire) /\ Dequeued' = Dequeued /\ Landed' = Landed
          /\ Dequeued \in Nat /\ Landed \in Nat
      BY <2>1, <2>3, Counts DEF Dequeued, Landed, Nothing, eeVars
    <2>6. Pointers' /\ Transit'
      BY <2>1, <2>3, <2>5 DEF IInv, Pointers, Transit, Nothing, eeVars
    <2>7. ASSUME ~overrun' PROVE Content'
      <3> DEFINE D == Dequeued
                 L == Landed
      <3>1. /\ Content /\ D \in Nat /\ L \in Nat /\ rdPtr = D % Slots /\ L <= D + Slots
        BY <2>1, <2>5, <2>7 DEF IInv, Pointers, Content
      <3>2. PICK f \in D + 1 .. L : (f - 1) % Slots = rdPtr
        BY <1>2, <2>2, <3>1 DEF Content, Held
      <3>3. f = D + 1
        <4>1. f - 1 \in Nat /\ f - 1 < D + Slots /\ f - 1 >= D
          BY <3>1, <3>2, SlotsAssumption
        <4>2. ~(D < f - 1)
          BY <3>1, <3>2, <4>1, SlotsApart
        <4> QED BY <3>1, <4>1, <4>2
      <3>4. buffer[rdPtr] = D + 1 /\ D < L
        BY <3>1, <3>2, <3>3 DEF Content
      <3>5. \A i \in DOMAIN wire' : wire'[i] = i
        <4>1. \A i \in DOMAIN wire : wire[i] = i
          BY <3>1 DEF Content
        <4>2. ASSUME NEW i \in DOMAIN wire' PROVE i \in DOMAIN wire \/ i = Len(wire) + 1
          BY <2>2, <2>3
        <4> QED BY <2>3, <2>5, <3>4, <4>1, <4>2
      <3>6. \A s : Held(s)' <=> Held(s)
        BY <2>5 DEF Held
      <3> QED BY <2>1, <2>5, <3>1, <3>4, <3>5, <3>6 DEF Content, eeVars
    <2> QED BY <2>1, <2>4, <2>6, <2>7 DEF IInv, Zeros, Thread, eeVars
  <1> QED BY <1>1, <1>2

(***************************************************************************)
(* Dequeueing empties the slot of the first frame held and no other.       *)
(***************************************************************************)
LEMMA DeQKeepsIInv ==
  ASSUME IInv, DeQTxPacket
  PROVE  IInv'
  <1>1. /\ sending /\ sending' = FALSE /\ length' = [length EXCEPT ![rdPtr] = 0]
        /\ clears' = clears \cup {rdPtr} /\ rdPtr' = After(rdPtr)
        /\ UNCHANGED <<eeVars, eeLength, sif, buffer, xmit, wire, overrun>>
    BY DEF DeQTxPacket
  <1>2. rdPtr \in Slot /\ rdPtr' \in Slot /\ 0 \in 0 .. MaxFrames
    BY <1>1, AfterSlot, MaxFramesAssumption DEF IInv, TypeOK
  <1>3. TypeOK'
    BY <1>1, <1>2 DEF IInv, TypeOK, eeVars
  <1>4. /\ Dequeued' = Dequeued + 1 /\ Landed' = Landed /\ Dequeued \in Nat
        /\ Landed \in Nat
    BY <1>1, Counts DEF Dequeued, Landed, Nothing, eeVars
  <1>5. Pointers'
    BY <1>1, <1>4, AfterMod DEF IInv, Pointers, eeVars
  <1>6. Transit'
    BY <1>1 DEF IInv, Transit, Nothing, eeVars
  <1>7. ASSUME ~overrun' PROVE Content'
    <2> DEFINE D == Dequeued
               L == Landed
    <2>1. /\ Content /\ D \in Nat /\ L \in Nat /\ rdPtr = D % Slots
          /\ D < L /\ L <= D + Slots
      BY <1>1, <1>4, <1>7 DEF IInv, Pointers, Content
    <2>2. length'[rdPtr] = 0 /\ \A s \in Slot : s # rdPtr => length'[s] = length[s]
      BY <1>1, <1>2 DEF IInv, TypeOK
    <2>3. ASSUME NEW f \in D + 2 .. L
          PROVE  (f - 1) % Slots # rdPtr /\ (f - 1) % Slots \in Slot
      <3>1. f - 1 \in Nat /\ D < f - 1 /\ f - 1 < D + Slots
        BY <2>1, SlotsAssumption
      <3> QED BY <2>1, <3>1, SlotsApart, DivMod
    <2>4. ASSUME NEW f \in D + 2 .. L
          PROVE  length'[(f - 1) % Slots] = f /\ buffer'[(f - 1) % Slots] = f
      <3>1. f \in D + 1 .. L
        BY <2>1
      <3> QED BY <1>1, <2>1, <2>2, <2>3, <3>1 DEF Content
    <2>5. ASSUME NEW s \in Slot PROVE length'[s] # 0 <=> Held(s)'
      <3>1. Held(s)' <=> \E f \in D + 2 .. L : (f - 1) % Slots = s
        <4>1. (D + 1) + 1 = D + 2
          BY <2>1
        <4> QED BY <1>4, <4>1 DEF Held
      <3>2. CASE s = rdPtr
        BY <2>2, <2>3, <3>1, <3>2
      <3>3. CASE s # rdPtr
        <4>1. (\E f \in D + 2 .. L : (f - 1) % Slots = s) <=> Held(s)
          <5>1. ASSUME NEW f \in D + 1 .. L, (f - 1) % Slots = s PROVE f \in D + 2 .. L
            <6>1. f # D + 1
              <7>1. (D + 1) - 1 = D
                BY <2>1
              <7> QED BY <2>1, <3>3, <5>1, <7>1
            <6> QED BY <2>1, <6>1
          <5>2. D + 2 .. L \subseteq D + 1 .. L
            BY <2>1
          <5> QED BY <5>1, <5>2 DEF Held
        <4> QED BY <2>1, <2>2, <3>1, <3>3, <4>1 DEF Content
      <3> QED BY <3>2, <3>3
    <2>6. /\ D + 1 <= L /\ L <= (D + 1) + Slots
          /\ (D + 1) + 1 = D + 2
          /\ L < D + Slots => L < (D + 1) + Slots
      BY <2>1, SlotsAssumption
    <2> QED BY <1>1, <1>4, <2>1, <2>4, <2>5, <2>6 DEF Content, eeVars
  <1> QED BY <1>1, <1>3, <1>5, <1>6, <1>7 DEF IInv, Zeros, Thread, eeVars

-----------------------------------------------------------------------------
LEMMA NextInvariant == IInv /\ [Next]_vars => IInv'
  <1> SUFFICES ASSUME IInv, [Next]_vars PROVE IInv'
    OBVIOUS
  <1>1. CASE TxThread
    BY <1>1, ThreadKeepsIInv, TransferKeepsIInv DEF TxThread
  <1>2. CASE Adaptor
    BY <1>2, NextTxPacketKeepsIInv, DeQKeepsIInv DEF Adaptor
  <1>3. CASE DataArrives
    BY <1>3, DataKeepsIInv
  <1>4. CASE HandleRxEvent
    BY <1>4, HandleRxEventKeepsIInv
  <1>5. CASE ClearArrives
    BY <1>5, ClearKeepsIInv
  <1>6. CASE UNCHANGED vars
    <2>1. /\ UNCHANGED <<sent, wrPtr, sif, buffer, length, rdPtr, sending, wire, overrun>>
          /\ UNCHANGED <<txpc, NumTx, eeLength, clears, xmit>>
      BY <1>6 DEF vars, eeVars, adaptorVars
    <2>2. TypeOK'
      BY <2>1 DEF IInv, TypeOK
    <2>3. (Pointers /\ Transit /\ (~overrun => Content))'
      BY <2>1, QuietStep
    <2> QED BY <2>1, <2>2, <2>3 DEF IInv, Zeros, Thread
  <1> QED BY <1>1, <1>2, <1>3, <1>4, <1>5, <1>6 DEF Next

(***************************************************************************)
(* The invariant holds in every state the transmit path reaches.           *)
(***************************************************************************)
THEOREM Invariance == Spec => []IInv
  BY InitIInv, NextInvariant, PTL DEF Spec

(***************************************************************************)
(* Pointers stay inside the ring, and so does every transfer.              *)
(***************************************************************************)
THEOREM TypeCorrect == Spec => []TypeOK
  <1>1. IInv => TypeOK
    BY DEF IInv
  <1> QED BY <1>1, Invariance, PTL

(***************************************************************************)
(* Why SpotIsFree is violated: whatever the size of the ring and of the    *)
(* groups, NETMAN_TxThread never records that a slot is taken, as it does  *)
(* so only after a slot that already is; its wait for a spot never waits.  *)
(***************************************************************************)
THEOREM SlotsAreNeverTaken == Spec => []Zeros
  <1>1. IInv => Zeros
    BY DEF IInv
  <1> QED BY <1>1, Invariance, PTL

(***************************************************************************)
(* Until the EE overruns it, the adaptor sends the frames handed over in   *)
(* the order in which they were, and each of them once.                    *)
(***************************************************************************)
THEOREM FramesInOrder == Spec => []InOrder
  <1>1. IInv => InOrder
    BY DEF IInv, Content, InOrder
  <1> QED BY <1>1, Invariance, PTL

(***************************************************************************)
(* Until then the two ends agree on what is in the ring, although neither  *)
(* ever sees the pointer of the other.                                     *)
(***************************************************************************)
THEOREM EndsAgree == Spec => []RingAligned
  <1>1. IInv => RingAligned
    <2> SUFFICES ASSUME IInv, ~overrun PROVE RingAligned
      BY DEF RingAligned
    <2>1. Pointers /\ Content
      BY DEF IInv
    <2> QED BY <2>1 DEF Pointers, Content, Held, RingAligned
  <1> QED BY <1>1, Invariance, PTL

(***************************************************************************)
(* The adaptor finds nothing to send only at an empty slot, sends only     *)
(* when it has been called, and is called for every frame.                 *)
(***************************************************************************)
Attended ==
  /\ ~xmit => length[rdPtr] = 0
  /\ sending => xmit
  /\ sif # Nothing => sif.notify

LEMMA AttendedInvariant == IInv /\ Attended /\ [Next]_vars => Attended'
  <1> SUFFICES ASSUME IInv, Attended, [Next]_vars PROVE Attended'
    OBVIOUS
  <1>1. Nothing' = Nothing
    BY DEF Nothing
  <1>2. CASE UNCHANGED <<length, rdPtr, xmit, sending, sif>>
    BY <1>1, <1>2 DEF Attended
  <1>3. CASE Wakeup \/ WaitForSpot \/ TransferDone \/ ClearArrives \/ UNCHANGED vars
    <2>1. UNCHANGED <<length, rdPtr, xmit, sending, sif>>
      BY <1>3 DEF Wakeup, WaitForSpot, TransferDone, ClearArrives, vars, adaptorVars
    <2> QED BY <1>2, <2>1
  <1>4. CASE Transfer
    <2>1. sif'.notify = Notifies /\ UNCHANGED <<length, rdPtr, xmit, sending>>
      BY <1>4 DEF Transfer, adaptorVars
    <2> QED BY <2>1, AlwaysNotifies DEF Attended
  <1>5. CASE DataArrives
    <2>1. sif # Nothing /\ sif'.notify = sif.notify /\ UNCHANGED <<length, rdPtr, xmit, sending>>
      BY <1>5 DEF DataArrives, adaptorVars, Nothing, IInv, TypeOK
    <2> QED BY <2>1 DEF Attended
  <1>6. CASE HandleRxEvent
    <2>1. sif # Nothing
      BY <1>6 DEF HandleRxEvent, Nothing
    <2>2. xmit' /\ sif' = Nothing
      BY <1>6, <2>1 DEF HandleRxEvent, Attended
    <2> QED BY <1>1, <2>2 DEF Attended
  <1>7. CASE NextTxPacket
    <2>1. UNCHANGED <<length, rdPtr, sif>>
      BY <1>7 DEF NextTxPacket
    <2>2. \/ length[rdPtr] = 0 /\ xmit' = FALSE /\ sending' = sending /\ ~sending
          \/ sending' = TRUE /\ xmit' = xmit /\ xmit
      BY <1>7 DEF NextTxPacket
    <2> QED BY <1>1, <2>1, <2>2 DEF Attended
  <1>8. CASE DeQTxPacket
    <2>1. xmit' = xmit /\ xmit /\ sending' = FALSE /\ sif' = sif
      BY <1>8 DEF DeQTxPacket, Attended
    <2> QED BY <1>1, <2>1 DEF Attended
  <1> QED BY <1>3, <1>4, <1>5, <1>6, <1>7, <1>8 DEF Next, TxThread, Adaptor

(***************************************************************************)
(* When the adaptor is at rest and nothing is under way, every frame       *)
(* handed over has been sent, whatever the sizes of ring and groups: the   *)
(* frame after the last one sent would be in the slot it has found empty.  *)
(***************************************************************************)
THEOREM RingIsEmptied == Spec => []NoneLeftInRing
  <1>1. Init => Attended
    <2> SUFFICES ASSUME Init PROVE Attended
      OBVIOUS
    <2>1. 0 \in Slot
      BY SlotsAssumption DEF Slot
    <2> QED BY <2>1 DEF Init, Attended
  <1>2. IInv /\ Attended => NoneLeftInRing
    <2> SUFFICES ASSUME IInv, Attended, ~overrun, sif = Nothing, ~xmit, Len(wire) # sent
                 PROVE  FALSE
      BY DEF NoneLeftInRing
    <2> DEFINE D == Dequeued
               L == Landed
    <2>1. Content /\ rdPtr = D % Slots /\ length[rdPtr] = 0 /\ ~sending
      BY DEF IInv, Pointers, Attended
    <2>2. D = Len(wire) /\ L = sent /\ D \in Nat /\ L \in Nat /\ D <= L
      BY <2>1, Counts DEF Dequeued, Content
    <2>3. \A f \in D + 1 .. L : length[(f - 1) % Slots] = f
      BY <2>1 DEF Content
    <2> HIDE DEF D, L
    <2>4. D + 1 \in D + 1 .. L /\ (D + 1) - 1 = D
      BY <2>2
    <2>5. length[D % Slots] = D + 1
      BY <2>3, <2>4
    <2> QED BY <2>1, <2>2, <2>5
  <1>3. Spec => []Attended
    BY <1>1, Invariance, AttendedInvariant, PTL DEF Spec
  <1> QED BY <1>2, <1>3, Invariance, PTL

-----------------------------------------------------------------------------
(***************************************************************************)
(* Frame f has slot SlotOf(f), on both sides and in every turn.            *)
(***************************************************************************)
SlotOf(f) == (f - 1) % Slots

LEMMA SlotOfNext ==
  ASSUME NEW f \in Nat, f >= 1 PROVE SlotOf(f) \in Slot /\ After(SlotOf(f)) = SlotOf(f + 1)
  <1>1. f - 1 \in Nat /\ (f - 1) + 1 = (f + 1) - 1
    OBVIOUS
  <1> QED BY <1>1, DivMod, AfterMod DEF SlotOf

LEMMA SlotOfApart ==
  ASSUME NEW f \in Nat, NEW g \in Nat, f >= 1, f < g, g < f + Slots
  PROVE  SlotOf(f) # SlotOf(g)
  <1>1. f - 1 \in Nat /\ g - 1 \in Nat /\ f - 1 < g - 1 /\ g - 1 < (f - 1) + Slots
    BY SlotsAssumption
  <1> QED BY <1>1, SlotsApart DEF SlotOf

LEMMA SlotOfTurn ==
  ASSUME NEW f \in Nat, f >= 1 PROVE SlotOf(f + Slots) = SlotOf(f)
  <1>1. f - 1 \in Nat /\ (f + Slots) - 1 = (f - 1) + Slots
    BY SlotsAssumption
  <1> QED BY <1>1, SlotsTurn DEF SlotOf

\* Of the frames between r and n, less than a turn apart, each has its own slot.
LEMMA OneFrameEach ==
  ASSUME NEW r \in Nat, NEW n \in Nat, n <= r + Slots,
         NEW f \in r + 1 .. n, NEW g \in r + 1 .. n, SlotOf(f) = SlotOf(g)
  PROVE  f = g
  <1>1. f \in Nat /\ g \in Nat /\ f >= 1 /\ g >= 1 /\ f < g + Slots /\ g < f + Slots
    BY SlotsAssumption
  <1> QED BY <1>1, SlotOfApart

-----------------------------------------------------------------------------
(***************************************************************************)
(* The entries of q are those of the frames after n: each is for the slot  *)
(* of its frame and for the buffer that b has there.                       *)
(***************************************************************************)
Along(q, n, b) ==
  \A i \in 1 .. Len(q) : q[i].slot = SlotOf(n + i) /\ q[i].buffer = b[q[i].slot]

LEMMA NotifyingAlong ==
  ASSUME NEW q \in Seq(Entries), q # <<>>, NEW n, NEW b, Along(q, n, b)
  PROVE  /\ Notifying(q) \in Seq(Entries) /\ Len(Notifying(q)) = Len(q)
         /\ Notifying(q) # <<>> /\ Along(Notifying(q), n, b)
  <1>1. Len(q) \in Nat /\ Len(q) >= 1 /\ DOMAIN q = 1 .. Len(q) /\ q[Len(q)] \in Entries
    OBVIOUS
  <1> DEFINE e == [q[Len(q)] EXCEPT !.notify = TRUE]
  <1>2. e \in Entries /\ e.slot = q[Len(q)].slot /\ e.buffer = q[Len(q)].buffer
    BY <1>1 DEF Entries
  <1>3. Notifying(q) = [q EXCEPT ![Len(q)] = e]
    BY <1>1 DEF Notifying
  <1> HIDE DEF e
  <1>4. Notifying(q) \in Seq(Entries) /\ Len(Notifying(q)) = Len(q)
    BY <1>1, <1>2, <1>3
  <1>5. \A i \in 1 .. Len(q) : Notifying(q)[i] = IF i = Len(q) THEN e ELSE q[i]
    BY <1>1, <1>3
  <1>6. \A i \in 1 .. Len(q) : /\ Notifying(q)[i].slot = q[i].slot
                               /\ Notifying(q)[i].buffer = q[i].buffer
    BY <1>2, <1>5
  <1>7. Along(Notifying(q), n, b)
    BY <1>4, <1>6 DEF Along
  <1> QED BY <1>1, <1>4, <1>7

LEMMA ConcatAlong ==
  ASSUME NEW q \in Seq(Entries), NEW r \in Seq(Entries), NEW n \in Int, NEW b,
         Along(q, n, b), Along(r, n + Len(q), b)
  PROVE  Along(q \o r, n, b)
  <1> SUFFICES ASSUME NEW i \in 1 .. Len(q \o r)
               PROVE  /\ (q \o r)[i].slot = SlotOf(n + i)
                      /\ (q \o r)[i].buffer = b[(q \o r)[i].slot]
    BY DEF Along
  <1>1. Len(q) \in Nat /\ Len(r) \in Nat /\ Len(q \o r) = Len(q) + Len(r)
    OBVIOUS
  <1>2. CASE i <= Len(q)
    <2>1. (q \o r)[i] = q[i] /\ i \in 1 .. Len(q)
      BY <1>1, <1>2
    <2> QED BY <2>1 DEF Along
  <1>3. CASE i > Len(q)
    <2>1. (q \o r)[i] = r[i - Len(q)] /\ i - Len(q) \in 1 .. Len(r)
      BY <1>1, <1>3
    <2>2. (n + Len(q)) + (i - Len(q)) = n + i
      BY <1>1
    <2> QED BY <2>1, <2>2 DEF Along
  <1> QED BY <1>1, <1>2, <1>3

LEMMA AppendAlong ==
  ASSUME NEW q \in Seq(Entries), NEW e \in Entries, NEW n \in Int, NEW b,
         Along(q, n, b), e.slot = SlotOf(n + Len(q) + 1), e.buffer = b[e.slot]
  PROVE  Along(Append(q, e), n, b)
  <1>1. Len(q) \in Nat /\ Len(Append(q, e)) = Len(q) + 1 /\ n + (Len(q) + 1) = n + Len(q) + 1
    OBVIOUS
  <1>2. Append(q, e)[Len(q) + 1] = e /\ \A i \in 1 .. Len(q) : Append(q, e)[i] = q[i]
    OBVIOUS
  <1>3. \A i \in 1 .. Len(q) + 1 : i \in 1 .. Len(q) \/ i = Len(q) + 1
    BY <1>1
  <1> QED BY <1>1, <1>2, <1>3 DEF Along

LEMMA TailAlong ==
  ASSUME NEW q \in Seq(Entries), q # <<>>, NEW n \in Int, NEW b, Along(q, n, b)
  PROVE  /\ Along(Tail(q), n + 1, b) /\ Head(q).slot = SlotOf(n + 1)
         /\ Head(q).buffer = b[Head(q).slot]
  <1>1. /\ Len(q) \in Nat /\ Len(q) >= 1 /\ Len(Tail(q)) = Len(q) - 1 /\ Head(q) = q[1]
        /\ \A i \in 1 .. Len(q) - 1 : Tail(q)[i] = q[i + 1]
    OBVIOUS
  <1>2. \A i \in 1 .. Len(q) - 1 : i + 1 \in 1 .. Len(q) /\ n + (i + 1) = (n + 1) + i
    BY <1>1
  <1>3. 1 \in 1 .. Len(q)
    BY <1>1
  <1> QED BY <1>1, <1>2, <1>3 DEF Along

\* What is in other slots does not matter.
LEMMA OtherAlong ==
  ASSUME NEW q, NEW n \in Int, NEW b, NEW c, Along(q, n, b),
         \A i \in 1 .. Len(q) : c[SlotOf(n + i)] = b[SlotOf(n + i)]
  PROVE  Along(q, n, c)
  BY DEF Along

-----------------------------------------------------------------------------
(***************************************************************************)
(* The frames counted: taken by the packet stack, those whose slot has     *)
(* been released, those that have arrived.                                 *)
(***************************************************************************)
Taken == Len(delivered)
Released == Taken + IF rxpc \in {"advance", "deliver"} THEN 1 ELSE 0
Arrived == received - Len(group) - Len(toEE)

\* The frames at whose slots rxRdPtr and rxNextRdPtr are.
Reading == Taken + IF rxpc = "deliver" THEN 2 ELSE 1
Looking == Taken + IF rxpc \in {"clear", "advance", "deliver"} THEN 2 ELSE 1

PtrsCount ==
  /\ Released <= Arrived /\ received <= Released + Slots
  /\ EEWrPtr = SlotOf(received + 1)
  /\ rxRdPtr = SlotOf(Reading)
  /\ rxNextRdPtr = SlotOf(Looking)
  /\ rxpc \in {"alloc", "next", "clear"} => Taken < Arrived

OnTheWay == Along(toEE, Arrived, inSlot) /\ Along(group, Arrived + Len(toEE), inSlot)

\* A slot with a frame, and one without; its release may be on its way to the IOP.
Releasing == {releases[i].slot : i \in DOMAIN releases}
InUse(s, f) ==
  /\ s < given /\ s \notin Releasing
  /\ iopStatus[s] = f /\ handed[s] = inSlot[s]
  /\ eeStatus[s] = IF f <= Arrived THEN f ELSE 0
  /\ f <= Arrived => contents[inSlot[s]] = f
Idle(s) ==
  /\ eeStatus[s] = 0
  /\ s >= given => iopStatus[s] # 0 /\ s \notin Releasing
  /\ s < given /\ s \notin Releasing => iopStatus[s] = 0 /\ handed[s] = inSlot[s]
  /\ s \in Releasing => iopStatus[s] # 0
Outstanding == Released + 1 .. received
SlotsAgree ==
  /\ \A f \in Outstanding : InUse(SlotOf(f), f)
  /\ \A s \in Slot : (\A f \in Outstanding : s # SlotOf(f)) => Idle(s)
  /\ \A i, j \in DOMAIN releases : releases[i].slot = releases[j].slot => i = j

\* Each packet buffer is in one slot, in the pool or with the receive thread.
Given == 0 .. given - 1
Owned(b) == /\ b \in Buffers
            /\ \A s \in Given : inSlot[s] # b
            /\ \A i \in DOMAIN free : free[i] # b
InHand == IF rxpc \in {"next", "clear", "advance", "deliver"} THEN 1 ELSE 0
BuffersApart ==
  /\ \A s \in Given : inSlot[s] \in Buffers
  /\ \A s, t \in Given : inSlot[s] = inSlot[t] => s = t
  /\ \A i, j \in DOMAIN free : free[i] = free[j] => i = j
  /\ \A s \in Given, i \in DOMAIN free : inSlot[s] # free[i]
  /\ Len(free) = Slots + 1 - given - InHand
ThreadOwns ==
  /\ rxpc \in {"next", "clear"} => Owned(packetNext)
  /\ rxpc \in {"advance", "deliver"} => Owned(packet) /\ contents[packet] = Taken + 1
  /\ rxpc \in {"alloc", "next", "clear"} => packet = inSlot[rxRdPtr]

Wakes == wakeups <= (IF rxpc = "sleep" THEN 1 ELSE 0) + (IF IsProcessingRx THEN 1 ELSE 0)

Ring == PtrsCount /\ OnTheWay /\ SlotsAgree
Pool == BuffersApart /\ ThreadOwns
Progress == Wakes /\ ChannelGoesOn
RxIInv == RxTypeOK /\ Ring /\ Pool /\ Progress /\ DeliveredInOrder

LEMMA RxCounts ==
  ASSUME RxTypeOK
  PROVE  /\ Taken \in Nat /\ Released \in Nat /\ received \in Nat /\ Arrived \in Int
         /\ Reading \in Nat /\ Looking \in Nat /\ Reading >= 1 /\ Looking >= 1
         /\ Len(group) \in Nat /\ Len(toEE) \in Nat /\ given \in Nat
         /\ Arrived <= received /\ Arrived + Len(toEE) + Len(group) = received
  BY DEF RxTypeOK, Taken, Released, Arrived, Reading, Looking

LEMMA InitRxIInv == RxInit => RxIInv
  <1> SUFFICES ASSUME RxInit PROVE RxIInv
    OBVIOUS
  <1>1. /\ Taken = 0 /\ Released = 0 /\ Arrived = 0 /\ Reading = 1 /\ Looking = 1
        /\ Releasing = {} /\ given = 0 /\ received = 0 /\ rxpc = "poll" /\ ~stalled
        /\ Outstanding = {} /\ Given = {} /\ InHand = 0 /\ wakeups = 0
    <2>1. /\ delivered = <<>> /\ releases = <<>> /\ group = <<>> /\ toEE = <<>> /\ given = 0
          /\ received = 0 /\ rxpc = "poll" /\ ~stalled /\ wakeups = 0
      BY DEF RxInit
    <2>2. Taken = 0 /\ Len(group) = 0 /\ Len(toEE) = 0
      BY <2>1 DEF Taken
    <2>5. Released = 0 /\ Arrived = 0 /\ Reading = 1 /\ Looking = 1 /\ InHand = 0
      <3>1. Released = 0
        BY <2>1, <2>2 DEF Released
      <3>2. Arrived = 0
        <4>1. received = 0
          BY <2>1
        <4> QED BY <2>2, <4>1 DEF Arrived
      <3>3. Reading = 1 /\ Looking = 1
        BY <2>1, <2>2 DEF Reading, Looking
      <3>4. InHand = 0
        BY <2>1, <2>2 DEF InHand
      <3> QED BY <3>1, <3>2, <3>3, <3>4
    <2>3. Outstanding = {} /\ Given = {}
      BY <2>1, <2>5 DEF Outstanding, Given
    <2>4. Releasing = {}
      BY <2>1 DEF Releasing
    <2> QED BY <2>1, <2>2, <2>3, <2>4, <2>5
  <1>2. Slots \in Nat /\ Slots >= 1 /\ MaxFrames \in Nat /\ GroupSize \in Nat /\ GroupSize >= 1
    BY SlotsAssumption, MaxFramesAssumption, GroupSizeAssumption
  <1>3. IN_USE \in Lengths /\ IN_USE # 0 /\ 0 \in Lengths /\ 0 \in Slot
    BY <1>2 DEF IN_USE, Lengths, Slot
  <1>4. free \in Seq(Buffers) /\ Len(free) = Slots + 1 /\ \A i \in DOMAIN free : free[i] = i
    BY <1>2 DEF RxInit, Buffers
  <1>5. RxTypeOK
    <2>1. /\ group = <<>> /\ toEE = <<>> /\ releases = <<>> /\ delivered = <<>>
          /\ EEWrPtr = 0 /\ rxRdPtr = 0 /\ rxNextRdPtr = 0
      BY DEF RxInit
    <2>2. /\ group \in Seq(Entries) /\ Len(group) < GroupSize /\ toEE \in Seq(Entries)
          /\ releases \in Seq([slot : Slot, buffer : Buffers])
          /\ delivered \in Seq(0 .. MaxFrames)
      BY <1>2, <2>1
    <2>3. /\ iopStatus \in [Slot -> Lengths] /\ eeStatus \in [Slot -> Lengths]
          /\ handed \in [Slot -> Buffers \cup {NULL}] /\ inSlot \in [Slot -> Buffers \cup {NULL}]
          /\ contents \in [Buffers -> 0 .. MaxFrames]
      BY <1>2, <1>3 DEF RxInit
    <2> QED BY <1>2, <1>3, <1>4, <2>1, <2>2, <2>3 DEF RxInit, RxTypeOK
  <1>6. SlotOf(1) = 0
    <2>1. 0 = Slots * 0 + 0 /\ 0 \in Nat
      BY <1>2
    <2> QED BY <1>3, <2>1, Remainder DEF SlotOf
  <1>7. Ring
    <2>1. PtrsCount
      BY <1>1, <1>2, <1>6 DEF PtrsCount, RxInit
    <2>2. OnTheWay
      BY DEF OnTheWay, Along, RxInit
    <2>3. \A s \in Slot : Idle(s)
      BY <1>1, <1>3 DEF Idle, RxInit, Slot
    <2> QED BY <1>1, <2>1, <2>2, <2>3 DEF Ring, SlotsAgree, RxInit
  <1>8. Pool
    BY <1>1, <1>2, <1>4 DEF Pool, BuffersApart, ThreadOwns
  <1>9. Progress /\ DeliveredInOrder
    BY <1>1 DEF Progress, Wakes, ChannelGoesOn, DeliveredInOrder, RxInit
  <1> QED BY <1>5, <1>7, <1>8, <1>9 DEF RxIInv

-----------------------------------------------------------------------------
\* Steps that leave the slots, what is on the way to them and the frames counted alone.
LEMMA RingStays ==
  ASSUME OnTheWay, SlotsAgree, Released' = Released,
         UNCHANGED <<received, group, toEE, releases, iopStatus, handed, eeStatus, inSlot,
                     contents, given>>
  PROVE  OnTheWay' /\ SlotsAgree'
  <1>1. Arrived' = Arrived /\ Releasing' = Releasing /\ Outstanding' = Outstanding
    BY DEF Arrived, Releasing, Outstanding
  <1>2. OnTheWay'
    BY <1>1 DEF OnTheWay
  <1>3. (\A s, f : InUse(s, f)' <=> InUse(s, f)) /\ (\A s : Idle(s)' <=> Idle(s))
    BY <1>1 DEF InUse, Idle
  <1> QED BY <1>1, <1>2, <1>3 DEF SlotsAgree

LEMMA PoolStays ==
  ASSUME Pool, UNCHANGED <<inSlot, contents, given, free, rxpc, rxRdPtr, packet, packetNext,
                           delivered>>
  PROVE  Pool'
  BY DEF Pool, BuffersApart, ThreadOwns, Owned, Given, InHand, Taken

-----------------------------------------------------------------------------
LEMMA PtrsStay ==
  ASSUME PtrsCount, UNCHANGED <<received, EEWrPtr, group, toEE, rxpc, rxRdPtr, rxNextRdPtr,
                                delivered>>
  PROVE  PtrsCount' /\ Released' = Released
  BY DEF PtrsCount, Released, Taken, Arrived, Reading, Looking

\* The slots of the frames in the ring.
LEMMA SlotsInRing ==
  ASSUME RxTypeOK, PtrsCount, SlotsAgree
  PROVE  /\ \A f \in Outstanding : f \in Nat /\ f >= 1 /\ SlotOf(f) \in Slot /\ SlotOf(f) \in Given
         /\ \A f \in Outstanding, g \in Outstanding : SlotOf(f) = SlotOf(g) => f = g
         /\ \A s \in Slot : eeStatus[s] # 0 => \E f \in Outstanding : s = SlotOf(f) /\ f <= Arrived
  <1>1. /\ Released \in Nat /\ received \in Nat /\ received <= Released + Slots /\ given \in Nat
        /\ Arrived \in Int
    BY RxCounts DEF PtrsCount
  <1>2. ASSUME NEW f \in Outstanding
        PROVE  f \in Nat /\ f >= 1 /\ SlotOf(f) \in Slot /\ SlotOf(f) \in Given
    <2>1. f \in Nat /\ f >= 1
      BY <1>1 DEF Outstanding
    <2>2. SlotOf(f) \in Slot /\ SlotOf(f) < given
      BY <2>1, SlotOfNext DEF SlotsAgree, InUse
    <2> QED BY <1>1, <2>1, <2>2 DEF Given, Slot
  <1>3. ASSUME NEW f \in Outstanding, NEW g \in Outstanding, SlotOf(f) = SlotOf(g) PROVE f = g
    BY <1>1, <1>3, OneFrameEach DEF Outstanding
  <1>4. ASSUME NEW s \in Slot, eeStatus[s] # 0
        PROVE  \E f \in Outstanding : s = SlotOf(f) /\ f <= Arrived
    <2>1. PICK f \in Outstanding : s = SlotOf(f)
      BY <1>4 DEF SlotsAgree, Idle
    <2>2. f <= Arrived
      BY <1>1, <1>4, <2>1 DEF SlotsAgree, InUse
    <2> QED BY <2>1, <2>2
  <1> QED BY <1>2, <1>3, <1>4

-----------------------------------------------------------------------------
LEMMA InterruptsKeepIInv ==
  ASSUME RxIInv, OtherSifEvent \/ EEHandleRxEvent
  PROVE  RxIInv'
  <1>1. /\ UNCHANGED <<received, EEWrPtr, group, alarm, iopStatus, handed, toEE, eeStatus,
                       inSlot, contents>>
        /\ UNCHANGED <<rxpc, rxRdPtr, rxNextRdPtr, packet, packetNext, given, releases, free,
                       delivered>>
    BY DEF OtherSifEvent, EEHandleRxEvent, iopVars, threadVars
  <1>2. /\ irq' \in BOOLEAN /\ stalled' \in BOOLEAN /\ IsProcessingRx' \in BOOLEAN
        /\ wakeups' \in 0 .. 2 /\ Progress'
    <2>1. /\ RxTypeOK /\ wakeups \in Nat /\ Wakes /\ ChannelGoesOn
      BY DEF RxIInv, RxTypeOK, Progress
    <2>2. FrameIsThere' <=> FrameIsThere
      BY <1>1 DEF FrameIsThere
    <2>3. CASE OtherSifEvent
      BY <1>1, <2>1, <2>2, <2>3
         DEF OtherSifEvent, wakeVars, RxTypeOK, Wakes, ChannelGoesOn, Progress
    <2>4. CASE EEHandleRxEvent
      <3>1. CASE FrameIsThere
        <4>1. /\ irq' = FALSE /\ stalled' = FALSE /\ IsProcessingRx' = TRUE /\ rxpc' = rxpc
              /\ wakeups' = IF IsProcessingRx THEN wakeups ELSE wakeups + 1
          BY <1>1, <2>4, <3>1 DEF EEHandleRxEvent
        <4> DEFINE n == IF rxpc = "sleep" THEN 1 ELSE 0
        <4>2. n \in 0 .. 1
          OBVIOUS
        <4> HIDE DEF n
        <4>3. wakeups' \in Nat /\ wakeups' <= n + 1
          <5>1. CASE IsProcessingRx
            BY <2>1, <4>1, <4>2, <5>1 DEF Wakes, n
          <5>2. CASE ~IsProcessingRx
            BY <2>1, <4>1, <4>2, <5>2 DEF Wakes, n
          <5> QED BY <5>1, <5>2
        <4>4. Wakes'
          BY <4>1, <4>3 DEF Wakes, n
        <4>5. wakeups' \in 0 .. 2
          BY <4>2, <4>3
        <4> QED BY <4>1, <4>4, <4>5 DEF Progress, ChannelGoesOn
      <3>2. CASE ~FrameIsThere
        BY <1>1, <2>1, <2>2, <2>4, <3>2
           DEF EEHandleRxEvent, wakeVars, RxTypeOK, Wakes, ChannelGoesOn, Progress
      <3> QED BY <3>1, <3>2
    <2> QED BY <2>3, <2>4
  <1>3. RxTypeOK'
    BY <1>1, <1>2 DEF RxIInv, RxTypeOK
  <1>4. Ring'
    BY <1>1, PtrsStay, RingStays DEF RxIInv, Ring
  <1>5. Pool' /\ DeliveredInOrder'
    BY <1>1, PoolStays DEF RxIInv, DeliveredInOrder
  <1> QED BY <1>2, <1>3, <1>4, <1>5 DEF RxIInv

(***************************************************************************)
(* The receive thread finds a frame in its slot only when the next one to  *)
(* be taken has arrived there.                                             *)
(***************************************************************************)
LEMMA PollKeepsIInv ==
  ASSUME RxIInv, Poll
  PROVE  RxIInv'
  <1>1. /\ rxpc = "poll" /\ ~irq
        /\ UNCHANGED <<received, EEWrPtr, group, alarm, iopStatus, handed, toEE, eeStatus,
                       inSlot, contents, stalled, irq, wakeups>>
        /\ UNCHANGED <<rxRdPtr, rxNextRdPtr, packetNext, given, releases, free, delivered>>
    BY DEF Poll, iopVars, sifVars
  <1>2. ~stalled
    BY <1>1 DEF RxIInv, Progress, ChannelGoesOn
  <1>3. /\ Taken' = Taken /\ Arrived' = Arrived
    BY <1>1 DEF Taken, Arrived
  <1>4. \/ /\ eeStatus[rxRdPtr] > 0 /\ packet' = inSlot[rxRdPtr] /\ rxpc' = "alloc"
           /\ IsProcessingRx' = IsProcessingRx
        \/ IsProcessingRx' = FALSE /\ rxpc' = "sleep" /\ packet' = packet
    BY DEF Poll
  <1>5. Released' = Released /\ Reading' = Reading /\ Looking' = Looking /\ InHand' = InHand
    BY <1>1, <1>3, <1>4 DEF Released, Reading, Looking, InHand
  <1>6. RxTypeOK'
    <2>1. packet' \in Buffers \cup {NULL} /\ IsProcessingRx' \in BOOLEAN
      BY <1>4 DEF RxIInv, RxTypeOK
    <2>2. rxpc' \in {"poll", "sleep", "alloc", "next", "clear", "advance", "deliver"}
      BY <1>4
    <2> QED BY <1>1, <2>1, <2>2 DEF RxIInv, RxTypeOK
  <1>7. rxpc' = "alloc" => Taken < Arrived
    <2> SUFFICES ASSUME rxpc' = "alloc" PROVE Taken < Arrived
      OBVIOUS
    <2>1. RxTypeOK /\ PtrsCount /\ SlotsAgree /\ rxRdPtr \in Slot
      BY DEF RxIInv, Ring, RxTypeOK
    <2>2. eeStatus[rxRdPtr] # 0
      BY <1>4, <2>1 DEF RxTypeOK, Lengths, IN_USE
    <2>3. PICK f \in Outstanding : rxRdPtr = SlotOf(f) /\ f <= Arrived
      BY <2>1, <2>2, SlotsInRing
    <2>4. /\ Taken \in Nat /\ Released = Taken /\ received \in Nat /\ Arrived \in Int
          /\ Reading = Taken + 1 /\ Arrived <= received
      BY <1>1, <2>1, RxCounts DEF Released, Reading
    <2>5. f \in Taken + 1 .. received
      BY <2>3, <2>4 DEF Outstanding
    <2> QED BY <2>3, <2>4, <2>5
  <1>8. Ring'
    <2>1. PtrsCount'
      <3>1. rxpc' \in {"alloc", "next", "clear"} => rxpc' = "alloc"
        BY <1>4
      <3> QED BY <1>1, <1>3, <1>5, <1>7, <3>1 DEF RxIInv, Ring, PtrsCount
    <2> QED BY <1>1, <1>5, <2>1, RingStays DEF RxIInv, Ring
  <1>9. Pool'
    <2>1. BuffersApart'
      BY <1>1, <1>5 DEF RxIInv, Pool, BuffersApart, Given
    <2>2. ThreadOwns'
      BY <1>1, <1>4 DEF ThreadOwns
    <2> QED BY <2>1, <2>2 DEF Pool
  <1>10. Progress'
    <2>1. Wakes'
      <3>1. wakeups \in Nat
        BY DEF RxIInv, RxTypeOK
      <3> QED BY <1>1, <1>4, <3>1 DEF RxIInv, Progress, Wakes
    <2> QED BY <1>1, <1>2, <2>1 DEF Progress, ChannelGoesOn
  <1> QED BY <1>1, <1>6, <1>8, <1>9, <1>10 DEF RxIInv, DeliveredInOrder

-----------------------------------------------------------------------------
LEMMA SleepKeepsIInv ==
  ASSUME RxIInv, Sleep
  PROVE  RxIInv'
  <1>1. /\ ~irq /\ rxpc = "sleep" /\ wakeups > 0 /\ wakeups' = wakeups - 1 /\ rxpc' = "poll"
        /\ UNCHANGED <<received, EEWrPtr, group, alarm, iopStatus, handed, toEE, eeStatus,
                       inSlot, contents, stalled, irq, IsProcessingRx>>
        /\ UNCHANGED <<rxRdPtr, rxNextRdPtr, packet, packetNext, given, releases, free,
                       delivered>>
    BY DEF Sleep, iopVars, sifVars
  <1>2. /\ Taken' = Taken /\ Arrived' = Arrived /\ Released' = Released /\ Reading' = Reading
        /\ Looking' = Looking /\ InHand' = InHand
    BY <1>1 DEF Taken, Arrived, Released, Reading, Looking, InHand
  <1>3. wakeups \in 0 .. 2 /\ wakeups' \in 0 .. 2
    BY <1>1 DEF RxIInv, RxTypeOK
  <1>4. RxTypeOK'
    BY <1>1, <1>3 DEF RxIInv, RxTypeOK
  <1>5. Ring'
    <2>1. PtrsCount'
      BY <1>1, <1>2 DEF RxIInv, Ring, PtrsCount
    <2> QED BY <1>1, <1>2, <2>1, RingStays DEF RxIInv, Ring
  <1>6. Pool'
    BY <1>1, <1>2 DEF RxIInv, Pool, BuffersApart, ThreadOwns, Given
  <1>7. Wakes'
    <2> DEFINE p == IF IsProcessingRx THEN 1 ELSE 0
    <2>1. p \in 0 .. 1
      OBVIOUS
    <2>2. wakeups <= 1 + p
      BY <1>1 DEF RxIInv, Progress, Wakes
    <2>3. Wakes' <=> wakeups' <= 0 + p
      BY <1>1 DEF Wakes
    <2> HIDE DEF p
    <2> QED BY <1>1, <1>3, <2>1, <2>2, <2>3
  <1> QED BY <1>1, <1>4, <1>5, <1>6, <1>7
          DEF RxIInv, DeliveredInOrder, Progress, ChannelGoesOn, FrameIsThere

-----------------------------------------------------------------------------
\* The buffer that Alloc finds is in no slot, and the others stay in the pool.
LEMMA AllocOwns ==
  ASSUME RxTypeOK, BuffersApart, NEW b, Alloc(b)
  PROVE  /\ b \in Buffers /\ free' \in Seq(Buffers) /\ Len(free') = Len(free) - 1
         /\ \A s \in Given : inSlot[s] # b
         /\ \A i \in DOMAIN free' : free'[i] # b
         /\ \A i \in DOMAIN free' : i + 1 \in DOMAIN free /\ free'[i] = free[i + 1]
  <1>1. free \in Seq(Buffers) /\ free # <<>> /\ b = Head(free) /\ free' = Tail(free)
    BY DEF Alloc, RxTypeOK
  <1>2. /\ Len(free) \in Nat /\ Len(free) >= 1 /\ DOMAIN free = 1 .. Len(free) /\ b = free[1]
        /\ free' \in Seq(Buffers) /\ Len(free') = Len(free) - 1
        /\ DOMAIN free' = 1 .. Len(free) - 1
        /\ \A i \in 1 .. Len(free) - 1 : free'[i] = free[i + 1]
    BY <1>1
  <1>3. 1 \in DOMAIN free /\ \A i \in DOMAIN free' : i + 1 \in DOMAIN free /\ i + 1 # 1
    BY <1>2
  <1>4. b \in Buffers /\ \A s \in Given : inSlot[s] # b
    BY <1>1, <1>2, <1>3 DEF BuffersApart
  <1>5. \A i \in DOMAIN free' : free'[i] # b /\ free'[i] = free[i + 1]
    BY <1>2, <1>3 DEF BuffersApart
  <1> QED BY <1>2, <1>3, <1>4, <1>5

LEMMA AllocNextKeepsIInv ==
  ASSUME RxIInv, AllocNext
  PROVE  RxIInv'
  <1>1. /\ ~irq /\ rxpc = "alloc" /\ rxpc' = "next"
        /\ UNCHANGED <<received, EEWrPtr, group, alarm, iopStatus, handed, toEE, eeStatus,
                       inSlot, contents, stalled, irq, wakeups, IsProcessingRx>>
        /\ UNCHANGED <<rxRdPtr, rxNextRdPtr, packet, given, releases, delivered>>
    BY DEF AllocNext, iopVars, sifVars, wakeVars
  <1>2. PICK b \in Buffers : Alloc(b) /\ packetNext' = b
    BY DEF AllocNext
  <1>3. RxTypeOK /\ BuffersApart /\ given \in Nat /\ Len(free) \in Nat
    BY DEF RxIInv, RxTypeOK, Pool
  <1>4. /\ free' \in Seq(Buffers) /\ Len(free') = Len(free) - 1
        /\ \A s \in Given : inSlot[s] # b
        /\ \A i \in DOMAIN free' : free'[i] # b
        /\ \A i \in DOMAIN free' : i + 1 \in DOMAIN free /\ free'[i] = free[i + 1]
    BY <1>2, <1>3, AllocOwns
  <1>5. /\ Taken' = Taken /\ Arrived' = Arrived /\ Released' = Released /\ Reading' = Reading
        /\ Looking' = Looking /\ InHand' = InHand + 1 /\ InHand = 0 /\ Given' = Given
    BY <1>1 DEF Taken, Arrived, Released, Reading, Looking, InHand, Given
  <1>6. RxTypeOK'
    BY <1>1, <1>2, <1>4 DEF RxIInv, RxTypeOK
  <1>7. Ring'
    <2>1. PtrsCount'
      BY <1>1, <1>5 DEF RxIInv, Ring, PtrsCount
    <2> QED BY <1>1, <1>5, <2>1, RingStays DEF RxIInv, Ring
  <1>8. Pool'
    <2>1. Len(free') = Slots + 1 - given' - InHand'
      <3>1. Len(free) = Slots + 1 - given - 0
        BY <1>5 DEF RxIInv, Pool, BuffersApart
      <3> QED BY <1>1, <1>3, <1>4, <1>5, <3>1, SlotsAssumption
    <2>2. \A i, j \in DOMAIN free' : free'[i] = free'[j] => i = j
      <3>1. \A i \in DOMAIN free' : i \in Nat
        BY <1>4
      <3>2. \A i, j \in DOMAIN free' : i + 1 = j + 1 => i = j
        BY <3>1
      <3> QED BY <1>3, <1>4, <3>2 DEF BuffersApart
    <2>3. BuffersApart'
      BY <1>1, <1>3, <1>4, <1>5, <2>1, <2>2 DEF BuffersApart
    <2>4. ThreadOwns'
      <3>1. Owned(packetNext)'
        BY <1>1, <1>2, <1>4, <1>5 DEF Owned
      <3>2. packet' = inSlot'[rxRdPtr']
        BY <1>1 DEF RxIInv, Pool, ThreadOwns
      <3> QED BY <1>1, <3>1, <3>2 DEF ThreadOwns
    <2> QED BY <2>3, <2>4 DEF Pool
  <1>9. Progress'
    BY <1>1 DEF RxIInv, Progress, Wakes, ChannelGoesOn, FrameIsThere
  <1> QED BY <1>1, <1>6, <1>7, <1>8, <1>9 DEF RxIInv, DeliveredInOrder

-----------------------------------------------------------------------------
LEMMA AdvanceKeepsIInv ==
  ASSUME RxIInv, AdvanceNext \/ Advance
  PROVE  RxIInv'
  <1>1. /\ ~irq /\ UNCHANGED <<received, EEWrPtr, group, alarm, iopStatus, handed, toEE,
                       eeStatus, inSlot, contents, stalled, irq, wakeups, IsProcessingRx>>
        /\ UNCHANGED <<packet, packetNext, given, releases, free, delivered>>
    BY DEF AdvanceNext, Advance, iopVars, sifVars, wakeVars
  <1>2. \/ /\ rxpc = "next" /\ rxpc' = "clear" /\ rxNextRdPtr' = After(rxNextRdPtr)
           /\ rxRdPtr' = rxRdPtr
        \/ /\ rxpc = "advance" /\ rxpc' = "deliver" /\ rxRdPtr' = rxNextRdPtr
           /\ rxNextRdPtr' = rxNextRdPtr
    BY DEF AdvanceNext, Advance
  <1>3. ~stalled
    BY <1>1 DEF RxIInv, Progress, ChannelGoesOn
  <1>4. /\ Taken \in Nat /\ rxRdPtr = SlotOf(Reading) /\ rxNextRdPtr = SlotOf(Looking)
        /\ PtrsCount /\ RxTypeOK
    BY RxCounts DEF RxIInv, Ring, PtrsCount
  <1>5. /\ Taken' = Taken /\ Arrived' = Arrived /\ Given' = Given
    BY <1>1 DEF Taken, Arrived, Given
  <1>6. Released' = Released /\ InHand' = InHand
    BY <1>2, <1>5 DEF Released, InHand
  <1>7. rxRdPtr' = SlotOf(Reading') /\ rxNextRdPtr' = SlotOf(Looking')
    <2>1. CASE rxpc = "next" /\ rxpc' = "clear"
      <3>1. Reading' = Reading /\ Looking = Taken + 1 /\ Looking' = (Taken + 1) + 1
        BY <1>4, <1>5, <2>1 DEF Reading, Looking
      <3>2. Taken + 1 \in Nat /\ Taken + 1 >= 1
        BY <1>4
      <3> QED BY <1>2, <1>4, <2>1, <3>1, <3>2, SlotOfNext
    <2>2. CASE rxpc = "advance" /\ rxpc' = "deliver"
      <3>1. Reading' = Taken + 2 /\ Looking = Taken + 2 /\ Looking' = Taken + 2
        BY <1>5, <2>2 DEF Reading, Looking
      <3> QED BY <1>2, <1>4, <2>2, <3>1
    <2> QED BY <1>2, <2>1, <2>2
  <1>8. RxTypeOK'
    <2>1. rxRdPtr' \in Slot /\ rxNextRdPtr' \in Slot
      <3>1. rxRdPtr \in Slot /\ rxNextRdPtr \in Slot
        BY <1>4 DEF RxTypeOK
      <3>2. Looking \in Nat /\ Looking >= 1 /\ Looking + 1 \in Nat /\ Looking + 1 >= 1
        BY <1>4, RxCounts
      <3>3. After(rxNextRdPtr) \in Slot
        BY <1>4, <3>2, SlotOfNext
      <3> QED BY <1>2, <3>1, <3>3
    <2>2. rxpc' \in {"poll", "sleep", "alloc", "next", "clear", "advance", "deliver"}
      BY <1>2
    <2> QED BY <1>1, <1>4, <2>1, <2>2 DEF RxTypeOK
  <1>9. Ring'
    <2>1. rxpc' \in {"alloc", "next", "clear"} => Taken < Arrived
      BY <1>2, <1>4 DEF PtrsCount
    <2>2. PtrsCount'
      BY <1>1, <1>4, <1>5, <1>6, <1>7, <2>1 DEF PtrsCount
    <2> QED BY <1>1, <1>6, <2>2, RingStays DEF RxIInv, Ring
  <1>10. Pool'
    <2>1. BuffersApart'
      BY <1>1, <1>5, <1>6 DEF RxIInv, Pool, BuffersApart
    <2>2. \A c : Owned(c)' <=> Owned(c)
      BY <1>1, <1>5 DEF Owned
    <2>3. ThreadOwns'
      BY <1>1, <1>2, <1>5, <2>2 DEF RxIInv, Pool, ThreadOwns
    <2> QED BY <2>1, <2>3 DEF Pool
  <1>11. Progress'
    <2>1. rxpc # "sleep" /\ rxpc' # "sleep"
      BY <1>2
    <2> QED BY <1>1, <1>3, <2>1 DEF RxIInv, Progress, Wakes, ChannelGoesOn
  <1> QED BY <1>1, <1>8, <1>9, <1>10, <1>11 DEF RxIInv, DeliveredInOrder

-----------------------------------------------------------------------------
(***************************************************************************)
(* The frame delivered is the next one, and its buffer goes back.          *)
(***************************************************************************)
LEMMA EnQRxPacketKeepsIInv ==
  ASSUME RxIInv, EnQRxPacket
  PROVE  RxIInv'
  <1>1. /\ ~irq /\ rxpc = "deliver" /\ rxpc' = "poll"
        /\ delivered' = Append(delivered, contents[packet])
        /\ free' = <<packet>> \o free
        /\ UNCHANGED <<received, EEWrPtr, group, alarm, iopStatus, handed, toEE, eeStatus,
                       inSlot, contents, stalled, irq, wakeups, IsProcessingRx>>
        /\ UNCHANGED <<rxRdPtr, rxNextRdPtr, packet, packetNext, given, releases>>
    BY DEF EnQRxPacket, Free, iopVars, sifVars, wakeVars
  <1>2. RxTypeOK /\ PtrsCount /\ OnTheWay /\ SlotsAgree /\ BuffersApart /\ DeliveredInOrder
    BY DEF RxIInv, Ring, Pool
  <1>3. Owned(packet) /\ packet \in Buffers /\ contents[packet] = Taken + 1
    BY <1>1 DEF RxIInv, Pool, ThreadOwns, Owned
  <1>4. Taken + 1 \in 0 .. MaxFrames
    BY <1>2, <1>3 DEF RxTypeOK
  <1>5. /\ delivered' \in Seq(0 .. MaxFrames) /\ Taken' = Taken + 1 /\ Taken \in Nat
        /\ DOMAIN delivered = 1 .. Taken /\ DOMAIN delivered' = 1 .. Taken + 1
        /\ delivered'[Taken + 1] = Taken + 1
        /\ \A i \in 1 .. Taken : delivered'[i] = delivered[i]
    BY <1>1, <1>2, <1>3, <1>4 DEF RxTypeOK, Taken
  <1>6. DeliveredInOrder'
    <2>1. \A i \in 1 .. Taken + 1 : i \in 1 .. Taken \/ i = Taken + 1
      BY <1>5
    <2> QED BY <1>2, <1>5, <2>1 DEF DeliveredInOrder
  <1>7. /\ Arrived' = Arrived /\ Released' = Released /\ Reading' = Reading
        /\ Looking' = Looking /\ InHand' = 0 /\ InHand = 1 /\ Given' = Given
    <2>1. Released = Taken + 1 /\ Reading = Taken + 2 /\ Looking = Taken + 2 /\ InHand = 1
      BY <1>1 DEF Released, Reading, Looking, InHand
    <2>2. Released' = Taken' + 0 /\ Reading' = Taken' + 1 /\ Looking' = Taken' + 1 /\ InHand' = 0
      BY <1>1 DEF Released, Reading, Looking, InHand
    <2>3. Taken' + 0 = Taken + 1 /\ Taken' + 1 = Taken + 2
      BY <1>5
    <2> QED BY <1>1, <2>1, <2>2, <2>3 DEF Arrived, Given
  <1>8. free \in Seq(Buffers) /\ Len(free) \in Nat /\ DOMAIN free = 1 .. Len(free) /\ given \in Nat
    BY <1>2 DEF RxTypeOK
  <1>9. /\ free' \in Seq(Buffers) /\ Len(free') = Len(free) + 1
        /\ DOMAIN free' = 1 .. Len(free) + 1
        /\ free'[1] = packet /\ \A i \in 2 .. Len(free) + 1 : free'[i] = free[i - 1]
    <2>1. <<packet>> \in Seq(Buffers) /\ Len(<<packet>>) = 1 /\ <<packet>>[1] = packet
      BY <1>3
    <2> QED BY <1>1, <1>8, <2>1
  <1>10. RxTypeOK'
    BY <1>1, <1>2, <1>5, <1>9 DEF RxTypeOK
  <1>11. Ring'
    <2>1. PtrsCount'
      BY <1>1, <1>2, <1>7 DEF PtrsCount
    <2> QED BY <1>1, <1>2, <1>7, <2>1, RingStays DEF Ring
  <1>12. Pool'
    <2>1. Len(free') = Slots + 1 - given' - InHand'
      <3>1. Len(free) = Slots + 1 - given - 1
        BY <1>2, <1>7 DEF BuffersApart
      <3>2. given' = given
        BY <1>1
      <3> QED BY <1>7, <1>8, <1>9, <3>1, <3>2, SlotsAssumption
    <2>2. \A i \in DOMAIN free' : i = 1 \/ (i \in 2 .. Len(free) + 1 /\ i - 1 \in DOMAIN free)
      BY <1>8, <1>9
    <2>3. \A i \in DOMAIN free : free[i] # packet
      BY <1>3 DEF Owned
    <2>4. ASSUME NEW i \in DOMAIN free', NEW j \in DOMAIN free', free'[i] = free'[j]
          PROVE  i = j
      <3>1. CASE i = 1 \/ j = 1
        BY <1>9, <2>2, <2>3, <2>4, <3>1
      <3>2. CASE i # 1 /\ j # 1
        <4>1. free[i - 1] = free[j - 1] /\ i - 1 \in DOMAIN free /\ j - 1 \in DOMAIN free
          BY <1>9, <2>2, <2>4, <3>2
        <4>2. i - 1 = j - 1 /\ i \in Nat /\ j \in Nat
          BY <1>2, <1>8, <1>9, <4>1 DEF BuffersApart
        <4> QED BY <4>2
      <3> QED BY <3>1, <3>2
    <2>5. \A s \in Given, i \in DOMAIN free' : inSlot[s] # free'[i]
      BY <1>2, <1>3, <1>9, <2>2 DEF BuffersApart, Owned
    <2>6. BuffersApart'
      BY <1>1, <1>2, <1>7, <2>1, <2>4, <2>5 DEF BuffersApart
    <2> QED BY <1>1, <2>6 DEF Pool, ThreadOwns
  <1>13. Progress'
    BY <1>1 DEF RxIInv, Progress, Wakes, ChannelGoesOn, FrameIsThere
  <1> QED BY <1>6, <1>10, <1>11, <1>12, <1>13 DEF RxIInv

-----------------------------------------------------------------------------
(***************************************************************************)
(* Releasing a slot without a frame, or with one that has arrived, with a  *)
(* buffer that is nowhere else: what the other slots hold is not touched.  *)
(***************************************************************************)
LEMMA ClearFacts ==
  ASSUME RxTypeOK, NEW s \in Slot, NEW b \in Buffers, Clear(s, b), s \notin Releasing,
         \A i, j \in DOMAIN releases : releases[i].slot = releases[j].slot => i = j
  PROVE  /\ eeStatus' \in [Slot -> Lengths] /\ inSlot' \in [Slot -> Buffers \cup {NULL}]
         /\ releases' \in Seq([slot : Slot, buffer : Buffers])
         /\ eeStatus'[s] = 0 /\ inSlot'[s] = b
         /\ \A t \in Slot \ {s} : eeStatus'[t] = eeStatus[t] /\ inSlot'[t] = inSlot[t]
         /\ Releasing' = Releasing \cup {s}
         /\ \A i, j \in DOMAIN releases' : releases'[i].slot = releases'[j].slot => i = j
  <1>1. /\ eeStatus' = [eeStatus EXCEPT ![s] = 0] /\ inSlot' = [inSlot EXCEPT ![s] = b]
        /\ releases' = Append(releases, [slot |-> s, buffer |-> b])
    BY DEF Clear
  <1>2. 0 \in Lengths
    BY MaxFramesAssumption DEF Lengths, IN_USE
  <1> DEFINE e == [slot |-> s, buffer |-> b]
             E == [slot : Slot, buffer : Buffers]
  <1>3. e \in E /\ e.slot = s
    OBVIOUS
  <1>4. releases \in Seq(E)
    BY DEF RxTypeOK
  <1> HIDE DEF e, E
  <1>5. /\ Append(releases, e) \in Seq(E) /\ Len(releases) \in Nat
        /\ DOMAIN releases = 1 .. Len(releases)
        /\ DOMAIN Append(releases, e) = 1 .. Len(releases) + 1
        /\ Append(releases, e)[Len(releases) + 1] = e
        /\ \A i \in 1 .. Len(releases) : Append(releases, e)[i] = releases[i]
    BY <1>3, <1>4
  <1>6. \A i \in 1 .. Len(releases) + 1 : i \in 1 .. Len(releases) \/ i = Len(releases) + 1
    BY <1>5
  <1>7. releases' = Append(releases, e)
    BY <1>1 DEF e
  <1>8. Releasing' = Releasing \cup {s}
    <2>1. Len(releases) + 1 \in 1 .. Len(releases) + 1
      BY <1>5
    <2>2. \A i \in 1 .. Len(releases) : i \in 1 .. Len(releases) + 1
      BY <1>5
    <2> QED BY <1>3, <1>5, <1>6, <1>7, <2>1, <2>2 DEF Releasing
  <1>9. \A i, j \in DOMAIN releases' : releases'[i].slot = releases'[j].slot => i = j
    BY <1>3, <1>5, <1>6, <1>7 DEF Releasing
  <1>10. /\ eeStatus' \in [Slot -> Lengths] /\ inSlot' \in [Slot -> Buffers \cup {NULL}]
         /\ eeStatus'[s] = 0 /\ inSlot'[s] = b
         /\ \A t \in Slot \ {s} : eeStatus'[t] = eeStatus[t] /\ inSlot'[t] = inSlot[t]
    BY <1>1, <1>2 DEF RxTypeOK
  <1> QED BY <1>5, <1>7, <1>8, <1>9, <1>10 DEF E

\* The frames on the way to the EE have slots of their own.
LEMMA WayAvoids ==
  ASSUME RxTypeOK, PtrsCount, SlotsAgree, OnTheWay, NEW s \in Slot,
         UNCHANGED <<received, group, toEE>>,
         \A f \in Outstanding : f > Arrived => SlotOf(f) # s,
         \A t \in Slot \ {s} : inSlot'[t] = inSlot[t]
  PROVE  OnTheWay'
  <1>1. /\ Arrived' = Arrived /\ Arrived \in Int /\ Len(toEE) \in Nat /\ Len(group) \in Nat
        /\ Arrived + Len(toEE) + Len(group) = received /\ Released \in Nat
        /\ Released <= Arrived /\ received \in Nat
    BY RxCounts DEF Arrived, PtrsCount
  <1>2. ASSUME NEW f \in Arrived + 1 .. received PROVE inSlot'[SlotOf(f)] = inSlot[SlotOf(f)]
    <2>1. f \in Outstanding /\ f > Arrived
      BY <1>1 DEF Outstanding
    <2> QED BY <2>1, SlotsInRing
  <1>3. \A i \in 1 .. Len(toEE) : Arrived + i \in Arrived + 1 .. received
    BY <1>1
  <1>4. \A i \in 1 .. Len(group) : (Arrived + Len(toEE)) + i \in Arrived + 1 .. received
    BY <1>1
  <1>5. Along(toEE, Arrived, inSlot')
    <2>1. \A i \in 1 .. Len(toEE) : inSlot'[SlotOf(Arrived + i)] = inSlot[SlotOf(Arrived + i)]
      BY <1>2, <1>3
    <2> QED BY <1>1, <2>1, OtherAlong DEF OnTheWay
  <1>6. Along(group, Arrived + Len(toEE), inSlot')
    <2> DEFINE n == Arrived + Len(toEE)
    <2>1. \A i \in 1 .. Len(group) : inSlot'[SlotOf(n + i)] = inSlot[SlotOf(n + i)]
      BY <1>2, <1>4
    <2>2. n \in Int /\ Along(group, n, inSlot)
      BY <1>1 DEF OnTheWay
    <2> HIDE DEF n
    <2>3. Along(group, n, inSlot')
      BY <2>1, <2>2, OtherAlong
    <2> QED BY <2>3 DEF n
  <1> QED BY <1>1, <1>5, <1>6 DEF OnTheWay

-----------------------------------------------------------------------------
(***************************************************************************)
(* A slot gets its first buffer; no frame was in it, and none is on its    *)
(* way.                                                                    *)
(***************************************************************************)
LEMMA GiveBufferKeepsIInv ==
  ASSUME RxIInv, GiveBuffer
  PROVE  RxIInv'
  <1>1. /\ ~irq /\ given < Slots /\ given' = given + 1
        /\ UNCHANGED <<received, EEWrPtr, group, alarm, iopStatus, handed, toEE, stalled, irq,
                       contents, wakeups, IsProcessingRx>>
        /\ UNCHANGED <<rxpc, rxRdPtr, rxNextRdPtr, packet, packetNext, delivered>>
    BY DEF GiveBuffer, iopVars, sifVars, wakeVars, threadVars
  <1>2. PICK b \in Buffers : Alloc(b) /\ Clear(given, b)
    BY DEF GiveBuffer
  <1>3. /\ RxTypeOK /\ PtrsCount /\ OnTheWay /\ SlotsAgree /\ BuffersApart /\ ThreadOwns
        /\ given \in Nat /\ given \in Slot /\ ~stalled
    BY <1>1, SlotsAssumption
       DEF RxIInv, Ring, Pool, RxTypeOK, Slot, Progress, ChannelGoesOn
  <1>4. /\ free' \in Seq(Buffers) /\ Len(free') = Len(free) - 1
        /\ \A s \in Given : inSlot[s] # b
        /\ \A i \in DOMAIN free' : free'[i] # b
        /\ \A i \in DOMAIN free' : i + 1 \in DOMAIN free /\ free'[i] = free[i + 1]
    BY <1>2, <1>3, AllocOwns
  <1>5. \A f \in Outstanding : SlotOf(f) # given
    BY <1>3, SlotsInRing DEF Given
  <1>6. Idle(given) /\ given \notin Releasing
    BY <1>3, <1>5 DEF SlotsAgree, Idle
  <1>7. /\ eeStatus' \in [Slot -> Lengths] /\ inSlot' \in [Slot -> Buffers \cup {NULL}]
        /\ releases' \in Seq([slot : Slot, buffer : Buffers])
        /\ eeStatus'[given] = 0 /\ inSlot'[given] = b
        /\ \A t \in Slot \ {given} : eeStatus'[t] = eeStatus[t] /\ inSlot'[t] = inSlot[t]
        /\ Releasing' = Releasing \cup {given}
        /\ \A i, j \in DOMAIN releases' : releases'[i].slot = releases'[j].slot => i = j
    BY <1>2, <1>3, <1>6, ClearFacts DEF SlotsAgree
  <1>8. /\ Taken' = Taken /\ Released' = Released /\ Arrived' = Arrived /\ Reading' = Reading
        /\ Looking' = Looking /\ InHand' = InHand /\ Outstanding' = Outstanding
    BY <1>1 DEF Taken, Released, Arrived, Reading, Looking, InHand, Outstanding
  <1>9. RxTypeOK'
    <2>1. given' \in 0 .. Slots
      BY <1>1, <1>3, SlotsAssumption
    <2> QED BY <1>1, <1>3, <1>4, <1>7, <2>1 DEF RxTypeOK
  <1>10. SlotsAgree'
    <2>1. ASSUME NEW f \in Outstanding PROVE InUse(SlotOf(f), f)'
      <3>1. InUse(SlotOf(f), f) /\ SlotOf(f) \in Slot \ {given} /\ SlotOf(f) < given
        BY <1>3, <1>5, SlotsInRing DEF SlotsAgree, InUse
      <3>2. SlotOf(f) < given'
        BY <1>1, <1>3, <3>1 DEF Slot
      <3> QED BY <1>1, <1>7, <1>8, <3>1, <3>2 DEF InUse
    <2>2. ASSUME NEW s \in Slot, \A f \in Outstanding : s # SlotOf(f) PROVE Idle(s)'
      <3>1. Idle(s) /\ (s = given \/ s \in Slot \ {given})
        BY <1>3, <2>2 DEF SlotsAgree
      <3>2. CASE s = given
        <4>1. ~(s >= given') /\ s \in Releasing' /\ eeStatus'[s] = 0 /\ iopStatus[s] # 0
          BY <1>1, <1>3, <1>6, <1>7, <3>2 DEF Idle
        <4> QED BY <1>1, <4>1 DEF Idle
      <3>3. CASE s \in Slot \ {given}
        <4>1. /\ (s >= given' => s >= given) /\ (s < given' => s < given)
          BY <1>1, <1>3, <3>3 DEF Slot
        <4>2. s \in Releasing' <=> s \in Releasing
          BY <1>7, <3>3
        <4>3. eeStatus'[s] = eeStatus[s] /\ inSlot'[s] = inSlot[s]
          BY <1>7, <3>3
        <4> QED BY <1>1, <3>1, <4>1, <4>2, <4>3 DEF Idle
      <3> QED BY <3>1, <3>2, <3>3
    <2> QED BY <1>7, <1>8, <2>1, <2>2 DEF SlotsAgree
  <1>11. Ring'
    <2>1. PtrsCount'
      BY <1>1, <1>3, <1>8 DEF PtrsCount
    <2>2. OnTheWay'
      BY <1>1, <1>3, <1>5, <1>7, WayAvoids
    <2> QED BY <1>10, <2>1, <2>2 DEF Ring
  <1>12. /\ \A s \in Given' : s \in Given \/ s = given
         /\ \A s \in Given : s \in Slot \ {given}
    BY <1>1, <1>3, SlotsAssumption DEF Given, Slot
  <1>13. Pool'
    <2>1. Len(free') = Slots + 1 - given' - InHand'
      <3>1. Len(free) = Slots + 1 - given - InHand /\ Len(free) \in Nat /\ InHand \in Nat
        BY <1>3 DEF BuffersApart, RxTypeOK, InHand
      <3> QED BY <1>1, <1>3, <1>4, <1>8, <3>1, SlotsAssumption
    <2>2. \A i, j \in DOMAIN free' : free'[i] = free'[j] => i = j
      <3>1. \A i \in DOMAIN free' : i \in Nat
        BY <1>4
      <3>2. \A i, j \in DOMAIN free' : i + 1 = j + 1 => i = j
        BY <3>1
      <3> QED BY <1>3, <1>4, <3>2 DEF BuffersApart
    <2>3. \A s \in Given' : inSlot'[s] \in Buffers
      BY <1>2, <1>3, <1>7, <1>12 DEF BuffersApart
    <2>9. \A s, t \in Given' : inSlot'[s] = inSlot'[t] => s = t
      BY <1>3, <1>4, <1>7, <1>12 DEF BuffersApart
    <2>10. ASSUME NEW s \in Given', NEW i \in DOMAIN free' PROVE inSlot'[s] # free'[i]
      <3>1. CASE s = given
        BY <1>4, <1>7, <3>1
      <3>2. CASE s \in Given
        <4>1. inSlot'[s] = inSlot[s]
          BY <1>7, <1>12, <3>2
        <4>2. i + 1 \in DOMAIN free /\ free'[i] = free[i + 1]
          BY <1>4
        <4> QED BY <1>3, <3>2, <4>1, <4>2 DEF BuffersApart
      <3> QED BY <1>12, <3>1, <3>2
    <2>4. BuffersApart'
      BY <2>1, <2>2, <2>3, <2>9, <2>10 DEF BuffersApart
    <2>5. ASSUME NEW c, Owned(c) PROVE Owned(c)' \/ c = b
      BY <1>4, <1>7, <1>12, <2>5 DEF Owned
    <2>6. ASSUME NEW c, Owned(c) PROVE c # b
      <3>1. 1 \in DOMAIN free /\ free[1] = b
        BY <1>2, <1>3 DEF Alloc, RxTypeOK
      <3> QED BY <2>6, <3>1 DEF Owned
    <2>7. rxpc \in {"alloc", "next", "clear"} => inSlot'[rxRdPtr] = inSlot[rxRdPtr]
      <3> SUFFICES ASSUME rxpc \in {"alloc", "next", "clear"}
                   PROVE  inSlot'[rxRdPtr] = inSlot[rxRdPtr]
        OBVIOUS
      <3>1. /\ Reading = Taken + 1 /\ Released = Taken /\ Taken < Arrived /\ Taken \in Nat
            /\ Arrived <= received /\ Arrived \in Int /\ received \in Nat
        BY <1>3, RxCounts DEF Reading, Released, PtrsCount
      <3>2. Taken + 1 \in Outstanding
        BY <3>1 DEF Outstanding
      <3>3. rxRdPtr \in Slot \ {given}
        BY <1>3, <1>5, <3>1, <3>2, SlotsInRing DEF PtrsCount
      <3> QED BY <1>7, <3>3
    <2>8. ThreadOwns'
      BY <1>1, <1>3, <1>8, <2>5, <2>6, <2>7 DEF ThreadOwns
    <2> QED BY <2>4, <2>8 DEF Pool
  <1>14. Progress'
    BY <1>1, <1>3 DEF RxIInv, Progress, Wakes, ChannelGoesOn
  <1> QED BY <1>1, <1>9, <1>11, <1>13, <1>14 DEF RxIInv, DeliveredInOrder

-----------------------------------------------------------------------------
(***************************************************************************)
(* The slot of the frame being taken is released with the other buffer.    *)
(***************************************************************************)
LEMMA ReleaseSlotKeepsIInv ==
  ASSUME RxIInv, ReleaseSlot
  PROVE  RxIInv'
  <1>1. /\ ~irq /\ rxpc = "clear" /\ rxpc' = "advance" /\ Clear(rxRdPtr, packetNext)
        /\ UNCHANGED <<received, EEWrPtr, group, alarm, iopStatus, handed, toEE, stalled, irq,
                       contents, wakeups, IsProcessingRx>>
        /\ UNCHANGED <<rxRdPtr, rxNextRdPtr, packet, packetNext, given, free, delivered>>
    BY DEF ReleaseSlot, iopVars, sifVars, wakeVars
  <1>2. /\ RxTypeOK /\ PtrsCount /\ OnTheWay /\ SlotsAgree /\ BuffersApart /\ ThreadOwns
        /\ given \in Nat /\ ~stalled
    BY <1>1 DEF RxIInv, Ring, Pool, RxTypeOK, Progress, ChannelGoesOn
  <1>3. /\ Owned(packetNext) /\ packetNext \in Buffers /\ packet = inSlot[rxRdPtr]
    BY <1>1, <1>2 DEF ThreadOwns, Owned
  <1> DEFINE f0 == Taken + 1
             s0 == rxRdPtr
  <1>4. /\ Taken \in Nat /\ received \in Nat /\ Arrived \in Int /\ Arrived <= received
        /\ Taken < Arrived /\ received <= Taken + Slots
        /\ Released = Taken /\ Reading = f0 /\ Looking = Taken + 2 /\ InHand = 1
    <2>1. Released = Taken + 0 /\ Reading = f0 /\ Looking = Taken + 2 /\ InHand = 1
      BY <1>1 DEF Released, Reading, Looking, InHand
    <2>2. Taken \in Nat
      BY <1>2, RxCounts
    <2> QED BY <1>1, <1>2, <2>1, <2>2, RxCounts DEF PtrsCount
  <1>5. /\ Taken' = Taken /\ Arrived' = Arrived /\ Released' = f0 /\ Reading' = Reading
        /\ Looking' = Looking /\ InHand' = InHand /\ Given' = Given
    BY <1>1 DEF Taken, Arrived, Released, Reading, Looking, InHand, Given
  <1>6. /\ f0 \in Outstanding /\ f0 <= Arrived /\ s0 = SlotOf(f0) /\ s0 \in Slot
        /\ s0 \in Given /\ f0 \in Nat /\ f0 # 0
    <2>1. f0 \in Outstanding /\ f0 <= Arrived /\ f0 \in Nat /\ f0 # 0
      BY <1>4 DEF Outstanding
    <2>2. s0 = SlotOf(f0)
      BY <1>2, <1>4 DEF PtrsCount
    <2> QED BY <1>2, <2>1, <2>2, SlotsInRing
  <1>7. /\ Outstanding' = Outstanding \ {f0}
        /\ \A f \in Outstanding' : SlotOf(f) \in Slot \ {s0}
    <2>1. Outstanding = Taken + 1 .. received /\ Outstanding' = f0 + 1 .. received
      BY <1>1, <1>4, <1>5 DEF Outstanding
    <2>2. Outstanding' = Outstanding \ {f0}
      BY <1>4, <2>1
    <2> QED BY <1>2, <1>6, <2>2, SlotsInRing
  <1>8. InUse(s0, f0)
    BY <1>2, <1>6 DEF SlotsAgree
  <1> HIDE DEF f0, s0
  <1>9. /\ eeStatus' \in [Slot -> Lengths] /\ inSlot' \in [Slot -> Buffers \cup {NULL}]
        /\ releases' \in Seq([slot : Slot, buffer : Buffers])
        /\ eeStatus'[s0] = 0 /\ inSlot'[s0] = packetNext
        /\ \A t \in Slot \ {s0} : eeStatus'[t] = eeStatus[t] /\ inSlot'[t] = inSlot[t]
        /\ Releasing' = Releasing \cup {s0}
        /\ \A i, j \in DOMAIN releases' : releases'[i].slot = releases'[j].slot => i = j
    <2>1. Clear(s0, packetNext) /\ s0 \notin Releasing
      BY <1>1, <1>8 DEF s0, InUse
    <2> QED BY <1>2, <1>3, <1>6, <2>1, ClearFacts DEF SlotsAgree
  <1>10. RxTypeOK'
    <2>1. rxpc' \in {"poll", "sleep", "alloc", "next", "clear", "advance", "deliver"}
      BY <1>1
    <2> QED BY <1>1, <1>2, <1>9, <2>1 DEF RxTypeOK
  <1>11. SlotsAgree'
    <2>1. ASSUME NEW f \in Outstanding' PROVE InUse(SlotOf(f), f)'
      <3>1. InUse(SlotOf(f), f) /\ SlotOf(f) \in Slot \ {s0}
        BY <1>2, <1>7 DEF SlotsAgree
      <3> QED BY <1>1, <1>5, <1>9, <3>1 DEF InUse
    <2>2. ASSUME NEW s \in Slot, \A f \in Outstanding' : s # SlotOf(f) PROVE Idle(s)'
      <3>1. CASE s = s0
        <4>1. s < given' /\ s \in Releasing' /\ eeStatus'[s] = 0 /\ iopStatus'[s] # 0
          BY <1>1, <1>6, <1>8, <1>9, <3>1 DEF InUse
        <4>2. ~(s >= given')
          BY <1>1, <1>2, <4>1 DEF Slot
        <4> QED BY <4>1, <4>2 DEF Idle
      <3>2. CASE s # s0
        <4>1. Idle(s)
          BY <1>2, <1>6, <1>7, <2>2, <3>2 DEF SlotsAgree
        <4> QED BY <1>1, <1>9, <3>2, <4>1 DEF Idle
      <3> QED BY <3>1, <3>2
    <2> QED BY <1>9, <2>1, <2>2 DEF SlotsAgree
  <1>12. Ring'
    <2>1. PtrsCount'
      <3>1. f0 <= Arrived /\ received <= f0 + Slots
        BY <1>4, <1>6, SlotsAssumption DEF f0
      <3> QED BY <1>1, <1>2, <1>5, <3>1 DEF PtrsCount
    <2>2. \A f \in Outstanding : f > Arrived => SlotOf(f) # s0
      BY <1>2, <1>4, <1>6, <1>7
    <2>3. OnTheWay'
      BY <1>1, <1>2, <1>6, <1>9, <2>2, WayAvoids
    <2> QED BY <1>11, <2>1, <2>3 DEF Ring
  <1>13. Pool'
    <2>1. \A s \in Given : s = s0 \/ s \in Slot \ {s0}
      BY <1>2, SlotsAssumption DEF Given, Slot, RxTypeOK
    <2>2. BuffersApart'
      <3>1. \A s \in Given : inSlot'[s] \in Buffers
        BY <1>2, <1>3, <1>9, <2>1 DEF BuffersApart
      <3>2. \A s, t \in Given : inSlot'[s] = inSlot'[t] => s = t
        BY <1>2, <1>3, <1>9, <2>1 DEF BuffersApart, Owned
      <3>3. \A s \in Given, i \in DOMAIN free : inSlot'[s] # free[i]
        BY <1>2, <1>3, <1>9, <2>1 DEF BuffersApart, Owned
      <3> QED BY <1>1, <1>2, <1>5, <3>1, <3>2, <3>3 DEF BuffersApart
    <2>3. Owned(packet)'
      <3>1. packet = inSlot[s0] /\ packet \in Buffers
        BY <1>2, <1>3, <1>6 DEF BuffersApart, s0
      <3>2. packet # packetNext
        BY <1>3, <1>6, <3>1 DEF Owned
      <3>3. \A s \in Given : inSlot'[s] # packet
        BY <1>2, <1>6, <1>9, <2>1, <3>1, <3>2 DEF BuffersApart
      <3>4. \A i \in DOMAIN free : free[i] # packet
        BY <1>2, <1>6, <3>1 DEF BuffersApart
      <3> QED BY <1>1, <1>5, <3>1, <3>3, <3>4 DEF Owned
    <2>4. contents'[packet'] = Taken' + 1
      BY <1>1, <1>3, <1>5, <1>6, <1>8 DEF InUse, f0, s0
    <2>5. ThreadOwns'
      BY <1>1, <2>3, <2>4 DEF ThreadOwns
    <2> QED BY <2>2, <2>5 DEF Pool
  <1>14. Progress'
    BY <1>1, <1>2 DEF RxIInv, Progress, Wakes, ChannelGoesOn
  <1> QED BY <1>1, <1>10, <1>12, <1>13, <1>14 DEF RxIInv, DeliveredInOrder

-----------------------------------------------------------------------------
(***************************************************************************)
(* The IOP's status of the slot becomes the EE's, which is still zero.     *)
(***************************************************************************)
LEMMA ReleaseArrivesKeepsIInv ==
  ASSUME RxIInv, ReleaseArrives
  PROVE  RxIInv'
  <1> DEFINE s0 == Head(releases).slot
  <1>1. /\ releases # <<>> /\ releases' = Tail(releases)
        /\ iopStatus' = [iopStatus EXCEPT ![s0] = eeStatus[s0]]
        /\ handed' = [handed EXCEPT ![s0] = inSlot[s0]]
        /\ UNCHANGED <<received, EEWrPtr, group, alarm, toEE, stalled, irq, eeStatus, inSlot,
                       contents, wakeups, IsProcessingRx>>
        /\ UNCHANGED <<rxpc, rxRdPtr, rxNextRdPtr, packet, packetNext, given, free, delivered>>
    BY DEF ReleaseArrives, iopVars, sifVars, wakeVars, threadVars
  <1>2. RxTypeOK /\ PtrsCount /\ OnTheWay /\ SlotsAgree /\ given \in Nat
    BY DEF RxIInv, Ring, RxTypeOK
  <1> DEFINE E == [slot : Slot, buffer : Buffers]
  <1>3. releases \in Seq(E) /\ \A e \in E : e.slot \in Slot
    BY <1>2 DEF RxTypeOK
  <1> HIDE DEF E
  <1>4. /\ Len(releases) \in Nat /\ Len(releases) >= 1 /\ DOMAIN releases = 1 .. Len(releases)
        /\ Head(releases) = releases[1] /\ releases' \in Seq(E)
        /\ DOMAIN releases' = 1 .. Len(releases) - 1
        /\ \A i \in 1 .. Len(releases) - 1 : releases'[i] = releases[i + 1]
    BY <1>1, <1>3
  <1>5. 1 \in DOMAIN releases /\ s0 \in Slot /\ s0 \in Releasing
    BY <1>3, <1>4 DEF Releasing
  <1>6. \A i \in DOMAIN releases' : i + 1 \in DOMAIN releases /\ i + 1 # 1 /\ i \in Nat
    BY <1>4
  <1>7. \A i \in DOMAIN releases : i = 1 \/ i - 1 \in DOMAIN releases'
    BY <1>4
  <1>8. /\ \A i \in DOMAIN releases' : releases'[i].slot # s0
        /\ \A i, j \in DOMAIN releases' : releases'[i].slot = releases'[j].slot => i = j
    <2>1. \A i, j \in DOMAIN releases : releases[i].slot = releases[j].slot => i = j
      BY <1>2 DEF SlotsAgree
    <2>2. \A i, j \in DOMAIN releases' : i + 1 = j + 1 => i = j
      BY <1>6
    <2> QED BY <1>4, <1>5, <1>6, <2>1, <2>2
  <1>9. Releasing' = Releasing \ {s0}
    <2>1. \A i \in DOMAIN releases' : releases'[i].slot \in Releasing
      BY <1>4, <1>6 DEF Releasing
    <2>2. \A i \in DOMAIN releases : releases[i].slot = s0 \/ releases[i].slot \in Releasing'
      <3> SUFFICES ASSUME NEW i \in DOMAIN releases, i # 1 PROVE releases[i].slot \in Releasing'
        BY <1>4
      <3>1. i - 1 \in DOMAIN releases' /\ (i - 1) + 1 = i
        BY <1>4, <1>7
      <3>2. releases'[i - 1] = releases[i]
        BY <1>4, <3>1
      <3> QED BY <3>1, <3>2 DEF Releasing
    <2> QED BY <1>8, <2>1, <2>2 DEF Releasing
  <1> HIDE DEF s0
  <1>10. Idle(s0) /\ s0 < given /\ eeStatus[s0] = 0 /\ \A f \in Outstanding : SlotOf(f) # s0
    <2>1. \A f \in Outstanding : SlotOf(f) # s0
      BY <1>2, <1>5 DEF SlotsAgree, InUse
    <2>2. Idle(s0)
      BY <1>2, <1>5, <2>1 DEF SlotsAgree
    <2>3. s0 < given
      BY <1>2, <1>5, <2>2 DEF Idle, Slot
    <2> QED BY <2>1, <2>2, <2>3 DEF Idle
  <1>11. /\ iopStatus' \in [Slot -> Lengths] /\ handed' \in [Slot -> Buffers \cup {NULL}]
         /\ iopStatus'[s0] = 0 /\ handed'[s0] = inSlot[s0]
         /\ \A t \in Slot \ {s0} : iopStatus'[t] = iopStatus[t] /\ handed'[t] = handed[t]
    BY <1>1, <1>2, <1>5, <1>10 DEF RxTypeOK
  <1>12. /\ Released' = Released /\ Arrived' = Arrived /\ Outstanding' = Outstanding
    BY <1>1 DEF Released, Arrived, Outstanding, Taken
  <1>13. RxTypeOK'
    BY <1>1, <1>2, <1>4, <1>11 DEF RxTypeOK, E
  <1>14. SlotsAgree'
    <2>1. ASSUME NEW f \in Outstanding PROVE InUse(SlotOf(f), f)'
      <3>1. InUse(SlotOf(f), f) /\ SlotOf(f) \in Slot \ {s0}
        BY <1>2, <1>10, SlotsInRing DEF SlotsAgree
      <3> QED BY <1>1, <1>9, <1>11, <1>12, <3>1 DEF InUse
    <2>2. ASSUME NEW s \in Slot, \A f \in Outstanding : s # SlotOf(f) PROVE Idle(s)'
      <3>1. Idle(s)
        BY <1>2, <2>2 DEF SlotsAgree
      <3>2. CASE s = s0
        <4>1. ~(s >= given) /\ s \notin Releasing'
          BY <1>2, <1>9, <1>10, <3>2 DEF Slot
        <4> QED BY <1>1, <1>10, <1>11, <3>2, <4>1 DEF Idle
      <3>3. CASE s # s0
        BY <1>1, <1>9, <1>11, <3>1, <3>3 DEF Idle
      <3> QED BY <3>2, <3>3
    <2> QED BY <1>8, <1>12, <2>1, <2>2 DEF SlotsAgree
  <1>15. Ring'
    <2>1. PtrsCount'
      BY <1>1, <1>2, PtrsStay
    <2>2. OnTheWay'
      BY <1>1, <1>2, <1>12 DEF OnTheWay
    <2> QED BY <1>14, <2>1, <2>2 DEF Ring
  <1>16. Pool'
    BY <1>1, PoolStays DEF RxIInv
  <1>17. Progress'
    BY <1>1 DEF RxIInv, Progress, Wakes, ChannelGoesOn, FrameIsThere
  <1> QED BY <1>1, <1>13, <1>15, <1>16, <1>17 DEF RxIInv, DeliveredInOrder

-----------------------------------------------------------------------------
LEMMA SlotsStay ==
  ASSUME SlotsAgree, Released' = Released, Arrived' = Arrived,
         UNCHANGED <<received, releases, iopStatus, handed, eeStatus, inSlot, contents, given>>
  PROVE  SlotsAgree'
  <1>1. Releasing' = Releasing /\ Outstanding' = Outstanding
    BY DEF Releasing, Outstanding
  <1>2. (\A s, f : InUse(s, f)' <=> InUse(s, f)) /\ (\A s : Idle(s)' <=> Idle(s))
    BY <1>1 DEF InUse, Idle
  <1> QED BY <1>1, <1>2 DEF SlotsAgree

(***************************************************************************)
(* A group goes behind what is already on the way.                         *)
(***************************************************************************)
LEMMA GroupGoes ==
  ASSUME NEW q \in Seq(Entries), NEW g \in Seq(Entries), g # <<>>, NEW n \in Int, NEW b,
         Along(q, n, b), Along(g, n + Len(q), b)
  PROVE  /\ q \o Notifying(g) \in Seq(Entries)
         /\ Len(q \o Notifying(g)) = Len(q) + Len(g)
         /\ Along(q \o Notifying(g), n, b)
  <1>1. /\ Notifying(g) \in Seq(Entries) /\ Len(Notifying(g)) = Len(g)
        /\ Along(Notifying(g), n + Len(q), b)
    BY NotifyingAlong
  <1> DEFINE h == Notifying(g)
  <1> HIDE DEF h
  <1>2. h \in Seq(Entries) /\ Len(h) = Len(g) /\ Along(h, n + Len(q), b)
    BY <1>1 DEF h
  <1>3. Along(q \o h, n, b)
    BY <1>2, ConcatAlong
  <1>4. q \o h \in Seq(Entries) /\ Len(q \o h) = Len(q) + Len(g)
    BY <1>2
  <1> QED BY <1>3, <1>4 DEF h

LEMMA FrameSendCBKeepsIInv ==
  ASSUME RxIInv, FrameSendCB
  PROVE  RxIInv'
  <1>1. /\ alarm
        /\ UNCHANGED <<received, EEWrPtr, iopStatus, handed, eeStatus, inSlot, contents,
                       stalled, irq, wakeups, IsProcessingRx>>
        /\ UNCHANGED <<rxpc, rxRdPtr, rxNextRdPtr, packet, packetNext, given, releases, free,
                       delivered>>
    BY DEF FrameSendCB, wakeVars, threadVars
  <1>2. RxTypeOK /\ PtrsCount /\ OnTheWay /\ SlotsAgree
    BY DEF RxIInv, Ring
  <1>3. /\ group \in Seq(Entries) /\ group # <<>> /\ Len(group) < GroupSize
        /\ toEE \in Seq(Entries) /\ Arrived \in Int
        /\ Len(group) \in Nat /\ Len(toEE) \in Nat /\ received \in Nat
        /\ Along(toEE, Arrived, inSlot) /\ Along(group, Arrived + Len(toEE), inSlot)
    BY <1>1, <1>2, RxCounts DEF RxTypeOK, OnTheWay
  <1>4. /\ Taken' = Taken /\ Released' = Released /\ Reading' = Reading /\ Looking' = Looking
    BY <1>1 DEF Taken, Released, Reading, Looking
  <1>5. /\ toEE' \in Seq(Entries) /\ group' \in Seq(Entries) /\ Len(group') < GroupSize
        /\ alarm' \in BOOLEAN /\ (alarm' <=> group' # <<>>)
        /\ Arrived' = Arrived /\ OnTheWay'
    <2>1. CASE toEE' = toEE \o Notifying(group) /\ group' = <<>> /\ alarm' = FALSE
      <3>1. /\ toEE' \in Seq(Entries) /\ Len(toEE') = Len(toEE) + Len(group)
            /\ Along(toEE', Arrived, inSlot)
        BY <1>3, <2>1, GroupGoes
      <3>2. group' \in Seq(Entries) /\ Len(group') = 0 /\ GroupSize > 0
        BY <2>1, GroupSizeAssumption
      <3>3. Arrived' = Arrived
        BY <1>1, <1>3, <3>1, <3>2 DEF Arrived
      <3>4. OnTheWay'
        BY <1>1, <3>1, <3>2, <3>3 DEF OnTheWay, Along
      <3> QED BY <2>1, <3>1, <3>2, <3>3, <3>4
    <2>2. CASE group' = Notifying(group) /\ toEE' = toEE /\ alarm' = alarm
      <3>1. /\ group' \in Seq(Entries) /\ Len(group') = Len(group) /\ group' # <<>>
            /\ Along(group', Arrived + Len(toEE), inSlot)
        BY <1>3, <2>2, NotifyingAlong
      <3>2. Arrived' = Arrived
        BY <1>1, <2>2, <3>1 DEF Arrived
      <3>3. OnTheWay'
        BY <1>1, <1>3, <2>2, <3>1, <3>2 DEF OnTheWay
      <3> QED BY <1>1, <1>3, <2>2, <3>1, <3>2, <3>3
    <2> QED BY <2>1, <2>2 DEF FrameSendCB
  <1>6. RxTypeOK'
    BY <1>1, <1>2, <1>5 DEF RxTypeOK
  <1>7. Ring'
    <2>1. PtrsCount'
      BY <1>1, <1>2, <1>4, <1>5 DEF PtrsCount
    <2>2. SlotsAgree'
      BY <1>1, <1>2, <1>4, <1>5, SlotsStay
    <2> QED BY <1>5, <2>1, <2>2 DEF Ring
  <1>8. Pool'
    BY <1>1, PoolStays DEF RxIInv
  <1>9. Progress'
    BY <1>1 DEF RxIInv, Progress, Wakes, ChannelGoesOn, FrameIsThere
  <1> QED BY <1>1, <1>6, <1>7, <1>8, <1>9 DEF RxIInv, DeliveredInOrder

-----------------------------------------------------------------------------
(***************************************************************************)
(* The slot the adaptor finds free has no frame of this turn nor of the    *)
(* last one: the ring is not full.                                         *)
(***************************************************************************)
LEMMA FreeSlotIsIdle ==
  ASSUME RxTypeOK, PtrsCount, SlotsAgree, SlotIsFree
  PROVE  /\ received < Released + Slots /\ EEWrPtr \in Slot
         /\ \A f \in Outstanding : SlotOf(f) # EEWrPtr
         /\ Idle(EEWrPtr) /\ EEWrPtr < given /\ EEWrPtr \notin Releasing
         /\ handed[EEWrPtr] = inSlot[EEWrPtr]
  <1>1. /\ Released \in Nat /\ received \in Nat /\ received <= Released + Slots
        /\ EEWrPtr = SlotOf(received + 1) /\ EEWrPtr \in Slot /\ iopStatus[EEWrPtr] = 0
        /\ given \in Nat
    BY RxCounts DEF PtrsCount, SlotIsFree, RxTypeOK
  <1>2. received # Released + Slots
    <2> SUFFICES ASSUME received = Released + Slots PROVE FALSE
      OBVIOUS
    <2> DEFINE f == Released + 1
    <2>1. f \in Nat /\ f >= 1 /\ f # 0 /\ f \in Outstanding /\ received + 1 = f + Slots
      BY <1>1, SlotsAssumption DEF Outstanding
    <2> HIDE DEF f
    <2>2. SlotOf(f + Slots) = SlotOf(f)
      BY <2>1, SlotOfTurn
    <2>3. iopStatus[SlotOf(f)] = f
      BY <2>1 DEF SlotsAgree, InUse
    <2> QED BY <1>1, <2>1, <2>2, <2>3
  <1>3. received < Released + Slots
    BY <1>1, <1>2, SlotsAssumption
  <1>4. ASSUME NEW f \in Outstanding PROVE SlotOf(f) # EEWrPtr
    <2> DEFINE n == received + 1
    <2>1. f \in Nat /\ f >= 1 /\ n \in Nat /\ f < n /\ n < f + Slots
      BY <1>1, <1>3, SlotsAssumption DEF Outstanding
    <2>2. EEWrPtr = SlotOf(n)
      BY <1>1
    <2> HIDE DEF n
    <2> QED BY <2>1, <2>2, SlotOfApart
  <1>5. Idle(EEWrPtr)
    BY <1>1, <1>4 DEF SlotsAgree
  <1>6. EEWrPtr < given
    BY <1>1, <1>5 DEF Idle, Slot
  <1>7. EEWrPtr \notin Releasing
    BY <1>1, <1>5 DEF Idle
  <1>8. handed[EEWrPtr] = inSlot[EEWrPtr]
    BY <1>5, <1>6, <1>7 DEF Idle
  <1> QED BY <1>1, <1>3, <1>4, <1>5, <1>6, <1>7, <1>8

LEMMA EnQFrameKeepsIInv ==
  ASSUME RxIInv, EnQFrame
  PROVE  RxIInv'
  <1>slot. PICK s0 : s0 = EEWrPtr
    OBVIOUS
  <1>frame. PICK n : n = received + 1
    OBVIOUS
  <1> DEFINE e == [slot |-> EEWrPtr, buffer |-> handed[EEWrPtr], notify |-> FALSE]
             g == Append(group, e)
  <1>1. /\ received < MaxFrames /\ SlotIsFree /\ received' = n
        /\ iopStatus' = [iopStatus EXCEPT ![s0] = n] /\ EEWrPtr' = After(s0)
        /\ UNCHANGED <<handed, eeStatus, inSlot, contents, stalled, irq, wakeups,
                       IsProcessingRx>>
        /\ UNCHANGED <<rxpc, rxRdPtr, rxNextRdPtr, packet, packetNext, given, releases, free,
                       delivered>>
    BY <1>slot, <1>frame DEF EnQFrame, wakeVars, threadVars
  <1>2. \/ /\ toEE' = toEE \o Notifying(g) /\ group' = <<>> /\ alarm' = FALSE
        \/ /\ ~(Len(g) >= GroupSize) /\ group' = g /\ alarm' = TRUE /\ toEE' = toEE
    BY DEF EnQFrame
  <1>3. RxTypeOK /\ PtrsCount /\ OnTheWay /\ SlotsAgree /\ BuffersApart
    BY DEF RxIInv, Ring, Pool
  <1>4. /\ received < Released + Slots /\ s0 \in Slot
        /\ \A f \in Outstanding : SlotOf(f) # s0
        /\ Idle(s0) /\ s0 < given /\ s0 \notin Releasing /\ handed[s0] = inSlot[s0]
    BY <1>1, <1>3, <1>slot, FreeSlotIsIdle
  <1>5. /\ Released \in Nat /\ received \in Nat /\ n \in Nat /\ n >= 1 /\ Arrived \in Int
        /\ Arrived < n /\ Len(group) \in Nat /\ Len(toEE) \in Nat /\ given \in Nat
        /\ Arrived + Len(toEE) + Len(group) + 1 = n /\ s0 = SlotOf(n) /\ Released <= Arrived
        /\ n \in Lengths /\ n <= MaxFrames
    BY <1>1, <1>3, <1>slot, <1>frame, RxCounts, MaxFramesAssumption DEF PtrsCount, Lengths, IN_USE
  <1>6. s0 \in Given /\ inSlot[s0] \in Buffers
    BY <1>3, <1>4, <1>5 DEF Given, Slot, BuffersApart
  <1>7. e \in Entries /\ e.slot = s0 /\ e.buffer = inSlot[s0]
    BY <1>4, <1>6, <1>slot DEF Entries
  <1>8. /\ iopStatus' \in [Slot -> Lengths] /\ iopStatus'[s0] = n
        /\ \A t \in Slot \ {s0} : iopStatus'[t] = iopStatus[t]
    BY <1>1, <1>3, <1>4, <1>5 DEF RxTypeOK
  <1>9. EEWrPtr' = SlotOf(n + 1) /\ EEWrPtr' \in Slot
    <2>1. n + 1 \in Nat /\ n + 1 >= 1
      BY <1>5
    <2> QED BY <1>1, <1>5, <2>1, SlotOfNext
  <1> HIDE DEF e
  <1>10. g \in Seq(Entries) /\ Len(g) = Len(group) + 1 /\ g # <<>>
         /\ Along(g, Arrived + Len(toEE), inSlot)
    <2>1. group \in Seq(Entries)
      BY <1>3 DEF RxTypeOK
    <2> DEFINE m == Arrived + Len(toEE)
    <2>2. m \in Int /\ m + Len(group) + 1 = n /\ Along(group, m, inSlot)
      BY <1>3, <1>5 DEF OnTheWay
    <2> HIDE DEF m
    <2>3. Along(g, m, inSlot)
      BY <1>5, <1>7, <2>1, <2>2, AppendAlong
    <2>4. g \in Seq(Entries) /\ Len(g) = Len(group) + 1 /\ g # <<>>
      BY <1>7, <2>1
    <2> QED BY <2>3, <2>4 DEF m
  <1> HIDE DEF g
  <1>11. /\ toEE' \in Seq(Entries) /\ group' \in Seq(Entries) /\ Len(group') < GroupSize
         /\ alarm' \in BOOLEAN /\ (alarm' <=> group' # <<>>)
         /\ Arrived' = Arrived /\ OnTheWay'
    <2>1. CASE toEE' = toEE \o Notifying(g) /\ group' = <<>> /\ alarm' = FALSE
      <3>1. toEE \in Seq(Entries) /\ Along(toEE, Arrived, inSlot)
        BY <1>3 DEF RxTypeOK, OnTheWay
      <3>2. /\ toEE' \in Seq(Entries) /\ Len(toEE') = Len(toEE) + Len(g)
            /\ Along(toEE', Arrived, inSlot)
        BY <1>5, <1>10, <2>1, <3>1, GroupGoes
      <3>3. group' \in Seq(Entries) /\ Len(group') = 0 /\ GroupSize > 0
        BY <2>1, GroupSizeAssumption
      <3>4. Arrived' = Arrived
        BY <1>1, <1>5, <1>10, <3>2, <3>3 DEF Arrived
      <3>5. OnTheWay'
        BY <1>1, <3>2, <3>3, <3>4 DEF OnTheWay, Along
      <3> QED BY <2>1, <3>2, <3>3, <3>4, <3>5
    <2>2. CASE ~(Len(g) >= GroupSize) /\ group' = g /\ alarm' = TRUE /\ toEE' = toEE
      <3>1. group' \in Seq(Entries) /\ Len(group') < GroupSize /\ toEE' \in Seq(Entries)
        BY <1>3, <1>5, <1>10, <2>2, GroupSizeAssumption DEF RxTypeOK
      <3>2. Arrived' = Arrived
        BY <1>1, <1>5, <1>10, <2>2 DEF Arrived
      <3>3. OnTheWay'
        BY <1>1, <1>3, <1>10, <2>2, <3>2 DEF OnTheWay
      <3> QED BY <1>10, <2>2, <3>1, <3>2, <3>3
    <2> QED BY <1>2, <2>1, <2>2
  <1>12. /\ Taken' = Taken /\ Released' = Released /\ Reading' = Reading
         /\ Looking' = Looking /\ Releasing' = Releasing
    BY <1>1 DEF Taken, Released, Reading, Looking, Releasing
  <1>13. Outstanding' = Outstanding \cup {n}
    <2>1. Outstanding' = Released + 1 .. n /\ Outstanding = Released + 1 .. received
      BY <1>1, <1>12 DEF Outstanding
    <2>2. n = received + 1 /\ Released <= received
      BY <1>5, <1>frame
    <2> QED BY <1>5, <2>1, <2>2
  <1>14. RxTypeOK'
    <2>1. received' \in 0 .. MaxFrames
      BY <1>1, <1>5
    <2> QED BY <1>1, <1>3, <1>8, <1>9, <1>11, <2>1 DEF RxTypeOK
  <1>15. SlotsAgree'
    <2>1. ASSUME NEW f \in Outstanding PROVE InUse(SlotOf(f), f)'
      <3>1. InUse(SlotOf(f), f) /\ SlotOf(f) \in Slot \ {s0}
        BY <1>3, <1>4, SlotsInRing DEF SlotsAgree
      <3> QED BY <1>1, <1>8, <1>11, <1>12, <3>1 DEF InUse
    <2>2. InUse(s0, n)'
      <3>1. ~(n <= Arrived')
        BY <1>5, <1>11
      <3> QED BY <1>1, <1>4, <1>8, <1>12, <3>1 DEF InUse, Idle
    <2>3. ASSUME NEW s \in Slot, \A f \in Outstanding' : s # SlotOf(f) PROVE Idle(s)'
      <3>1. s # s0
        BY <1>5, <1>13, <2>3
      <3>2. Idle(s)
        BY <1>3, <1>13, <2>3 DEF SlotsAgree
      <3> QED BY <1>1, <1>8, <1>12, <3>1, <3>2 DEF Idle
    <2>4. \A f \in Outstanding' : InUse(SlotOf(f), f)'
      BY <1>5, <1>13, <2>1, <2>2
    <2> QED BY <1>1, <1>3, <2>3, <2>4 DEF SlotsAgree
  <1>16. Ring'
    <2>1. received' <= Released' + Slots
      BY <1>1, <1>4, <1>5, <1>12, <1>frame, SlotsAssumption
    <2>2. PtrsCount'
      BY <1>1, <1>3, <1>9, <1>11, <1>12, <2>1 DEF PtrsCount
    <2> QED BY <1>11, <1>15, <2>2 DEF Ring
  <1>17. Pool'
    BY <1>1, PoolStays DEF RxIInv
  <1>18. Progress'
    BY <1>1 DEF RxIInv, Progress, Wakes, ChannelGoesOn, FrameIsThere
  <1> QED BY <1>1, <1>14, <1>16, <1>17, <1>18 DEF RxIInv, DeliveredInOrder

-----------------------------------------------------------------------------
(***************************************************************************)
(* The frame that arrives is the first that has not, in its own slot and   *)
(* in the buffer the EE put there; when it stops the channel it is a frame *)
(* that the interrupt will find.                                           *)
(***************************************************************************)
LEMMA FrameArrivesKeepsIInv ==
  ASSUME RxIInv, FrameArrives
  PROVE  RxIInv'
  <1> DEFINE e == Head(toEE)
             s0 == e.slot
             b0 == e.buffer
             f0 == Arrived + 1
  <1>1. /\ toEE # <<>> /\ ~stalled /\ toEE' = Tail(toEE)
        /\ contents' = [contents EXCEPT ![b0] = iopStatus[s0]]
        /\ eeStatus' = [eeStatus EXCEPT ![s0] = iopStatus[s0]]
        /\ inSlot' = [inSlot EXCEPT ![s0] = handed[s0]]
        /\ stalled' = e.notify /\ irq' = (irq \/ e.notify)
        /\ UNCHANGED <<received, EEWrPtr, group, alarm, iopStatus, handed, wakeups,
                       IsProcessingRx>>
        /\ UNCHANGED <<rxpc, rxRdPtr, rxNextRdPtr, packet, packetNext, given, releases, free,
                       delivered>>
    BY DEF FrameArrives, iopVars, wakeVars, threadVars
  <1>2. /\ RxTypeOK /\ PtrsCount /\ OnTheWay /\ SlotsAgree /\ BuffersApart /\ ThreadOwns
    BY DEF RxIInv, Ring, Pool
  <1>3. /\ toEE \in Seq(Entries) /\ Len(toEE) \in Nat /\ Len(toEE) >= 1
        /\ e \in Entries /\ toEE' \in Seq(Entries) /\ Len(toEE') = Len(toEE) - 1
    BY <1>1, <1>2 DEF RxTypeOK
  <1>4. e.notify \in BOOLEAN /\ s0 \in Slot /\ b0 \in Buffers
    BY <1>3 DEF Entries
  <1>5. /\ Arrived \in Int /\ Released \in Nat /\ Released <= Arrived /\ received \in Nat
        /\ Len(group) \in Nat /\ Arrived + Len(toEE) + Len(group) = received
        /\ Taken \in Nat
    BY <1>2, RxCounts DEF PtrsCount
  <1>6. f0 \in Outstanding /\ f0 \in Nat /\ f0 >= 1 /\ f0 <= received
    BY <1>3, <1>5 DEF Outstanding
  <1>7. Along(Tail(toEE), f0, inSlot) /\ s0 = SlotOf(f0) /\ b0 = inSlot[s0]
    <2>1. Along(toEE, Arrived, inSlot)
      BY <1>2 DEF OnTheWay
    <2> QED BY <1>1, <1>3, <1>5, <2>1, TailAlong
  <1>8. InUse(s0, f0)
    BY <1>2, <1>6, <1>7 DEF SlotsAgree
  <1>9. iopStatus[s0] = f0 /\ handed[s0] = inSlot[s0] /\ s0 \in Given
    BY <1>2, <1>6, <1>7, <1>8, SlotsInRing DEF InUse
  <1>10. /\ Arrived' = f0 /\ Taken' = Taken /\ Released' = Released /\ Reading' = Reading
         /\ Looking' = Looking /\ Releasing' = Releasing /\ Outstanding' = Outstanding
         /\ Given' = Given /\ InHand' = InHand
    <2>1. Arrived' = received - Len(group) - (Len(toEE) - 1)
      BY <1>1, <1>3 DEF Arrived
    <2>2. Arrived' = f0
      BY <1>3, <1>5, <2>1
    <2> QED BY <1>1, <2>2
            DEF Taken, Released, Reading, Looking, Releasing, Outstanding, Given, InHand
  <1> HIDE DEF f0
  <1>11. f0 \in 0 .. MaxFrames /\ f0 \in Lengths /\ f0 > 0
    <2>1. received \in 0 .. MaxFrames
      BY <1>2 DEF RxTypeOK
    <2>2. f0 \in 0 .. MaxFrames /\ f0 > 0
      BY <1>6, <2>1, MaxFramesAssumption
    <2> QED BY <2>2, MaxFramesAssumption DEF Lengths, IN_USE
  <1>12. inSlot' = inSlot
    BY <1>1, <1>2, <1>4, <1>9 DEF RxTypeOK
  <1>13. /\ eeStatus' \in [Slot -> Lengths] /\ eeStatus'[s0] = f0
         /\ \A t \in Slot \ {s0} : eeStatus'[t] = eeStatus[t]
    BY <1>1, <1>2, <1>4, <1>9, <1>11 DEF RxTypeOK
  <1>14. /\ contents' \in [Buffers -> 0 .. MaxFrames] /\ contents'[b0] = f0
         /\ \A c \in Buffers \ {b0} : contents'[c] = contents[c]
    BY <1>1, <1>2, <1>4, <1>9, <1>11 DEF RxTypeOK
  <1>15. stalled' \in BOOLEAN /\ irq' \in BOOLEAN
    BY <1>1, <1>2, <1>4 DEF RxTypeOK
  <1> HIDE DEF e, s0, b0
  <1>16. RxTypeOK'
    BY <1>1, <1>2, <1>3, <1>12, <1>13, <1>14, <1>15 DEF RxTypeOK
  <1>17. OnTheWay'
    <2>1. Along(toEE', f0, inSlot')
      BY <1>1, <1>7, <1>12
    <2>2. Along(group, Arrived + Len(toEE), inSlot)
      BY <1>2 DEF OnTheWay
    <2>3. f0 + Len(toEE') = Arrived + Len(toEE)
      BY <1>3, <1>5 DEF f0
    <2> QED BY <1>1, <1>10, <1>12, <2>1, <2>2, <2>3 DEF OnTheWay
  <1>18. SlotsAgree'
    <2>1. ASSUME NEW f \in Outstanding PROVE InUse(SlotOf(f), f)'
      <3>1. CASE f = f0
        <4>1. f <= Arrived'
          BY <1>6, <1>10, <3>1
        <4> QED BY <1>1, <1>7, <1>8, <1>10, <1>12, <1>13, <1>14, <3>1, <4>1 DEF InUse
      <3>2. CASE f # f0
        <4> DEFINE s == SlotOf(f)
        <4>1. InUse(s, f) /\ s \in Slot \ {s0} /\ s \in Given /\ f \in Nat
          BY <1>2, <1>6, <1>7, <3>2, SlotsInRing DEF SlotsAgree
        <4>2. f <= Arrived' <=> f <= Arrived
          BY <1>5, <1>10, <3>2, <4>1 DEF f0
        <4>3. inSlot[s] \in Buffers \ {b0}
          BY <1>2, <1>7, <1>9, <4>1 DEF BuffersApart
        <4> HIDE DEF s
        <4>4. InUse(s, f)'
          BY <1>1, <1>10, <1>12, <1>13, <1>14, <4>1, <4>2, <4>3 DEF InUse
        <4> QED BY <4>4 DEF s
      <3> QED BY <3>1, <3>2
    <2>2. ASSUME NEW s \in Slot, \A f \in Outstanding : s # SlotOf(f) PROVE Idle(s)'
      <3>1. Idle(s) /\ s \in Slot \ {s0}
        BY <1>2, <1>6, <1>7, <2>2 DEF SlotsAgree
      <3> QED BY <1>1, <1>10, <1>12, <1>13, <3>1 DEF Idle
    <2> QED BY <1>1, <1>2, <1>10, <2>1, <2>2 DEF SlotsAgree
  <1>19. Ring'
    <2>1. Released <= f0 /\ (Taken < Arrived => Taken < f0)
      BY <1>5 DEF f0
    <2>2. PtrsCount'
      BY <1>1, <1>2, <1>10, <2>1 DEF PtrsCount
    <2> QED BY <1>17, <1>18, <2>2 DEF Ring
  <1>20. Pool'
    <2>1. BuffersApart'
      BY <1>1, <1>2, <1>10, <1>12 DEF BuffersApart
    <2>2. \A c : Owned(c)' <=> Owned(c)
      BY <1>1, <1>10, <1>12 DEF Owned
    <2>3. Owned(packet) => contents'[packet] = contents[packet]
      BY <1>7, <1>9, <1>14 DEF Owned
    <2> QED BY <1>1, <1>2, <1>10, <1>12, <2>1, <2>2, <2>3 DEF Pool, ThreadOwns
  <1>21. Progress'
    <2>1. Wakes'
      BY <1>1 DEF RxIInv, Progress, Wakes
    <2>2. ASSUME stalled' PROVE irq' /\ FrameIsThere'
      <3>1. irq'
        BY <1>1, <2>2
      <3>2. Looking \in Released + 1 .. f0
        <4>1. CASE rxpc \in {"advance", "deliver"}
          <5>1. Looking = Taken + 2 /\ Released = Taken + 1
            BY <4>1 DEF Looking, Released
          <5> QED BY <1>5, <5>1 DEF f0
        <4>2. CASE rxpc = "clear"
          <5>1. Looking = Taken + 2 /\ Released = Taken + 0 /\ Taken < Arrived
            BY <1>2, <4>2 DEF Looking, Released, PtrsCount
          <5> QED BY <1>5, <5>1 DEF f0
        <4>3. CASE rxpc \notin {"clear", "advance", "deliver"}
          <5>1. Looking = Taken + 1 /\ Released = Taken + 0
            BY <4>3 DEF Looking, Released
          <5> QED BY <1>5, <5>1 DEF f0
        <4> QED BY <4>1, <4>2, <4>3
      <3>3. Looking \in Outstanding' /\ Looking <= Arrived' /\ Looking > 0
        <4>1. Looking \in Outstanding /\ Looking <= f0 /\ Looking > 0
          BY <1>5, <1>6, <3>2 DEF Outstanding
        <4> QED BY <1>10, <4>1
      <3>4. eeStatus'[rxNextRdPtr'] = Looking
        <4>1. InUse(SlotOf(Looking), Looking)'
          BY <1>10, <1>18, <3>3 DEF SlotsAgree
        <4>2. rxNextRdPtr' = SlotOf(Looking)
          BY <1>1, <1>2 DEF PtrsCount
        <4> QED BY <1>10, <3>3, <4>1, <4>2 DEF InUse
      <3> QED BY <3>1, <3>3, <3>4 DEF FrameIsThere
    <2> QED BY <2>1, <2>2 DEF Progress, ChannelGoesOn
  <1> QED BY <1>1, <1>16, <1>19, <1>20, <1>21 DEF RxIInv, DeliveredInOrder

-----------------------------------------------------------------------------
LEMMA RxNextInvariant == RxIInv /\ [RxNext]_rxVars => RxIInv'
  <1> SUFFICES ASSUME RxIInv, [RxNext]_rxVars PROVE RxIInv'
    OBVIOUS
  <1>1. CASE EnQFrame
    BY <1>1, EnQFrameKeepsIInv
  <1>2. CASE FrameSendCB
    BY <1>2, FrameSendCBKeepsIInv
  <1>3. CASE FrameArrives
    BY <1>3, FrameArrivesKeepsIInv
  <1>4. CASE ReleaseArrives
    BY <1>4, ReleaseArrivesKeepsIInv
  <1>5. CASE OtherSifEvent \/ EEHandleRxEvent
    BY <1>5, InterruptsKeepIInv
  <1>6. CASE GiveBuffer
    BY <1>6, GiveBufferKeepsIInv
  <1>7. CASE Poll
    BY <1>7, PollKeepsIInv
  <1>8. CASE Sleep
    BY <1>8, SleepKeepsIInv
  <1>9. CASE AllocNext
    BY <1>9, AllocNextKeepsIInv
  <1>10. CASE AdvanceNext \/ Advance
    BY <1>10, AdvanceKeepsIInv
  <1>11. CASE ReleaseSlot
    BY <1>11, ReleaseSlotKeepsIInv
  <1>12. CASE EnQRxPacket
    BY <1>12, EnQRxPacketKeepsIInv
  <1>13. CASE UNCHANGED rxVars
    <2>1. /\ UNCHANGED <<received, EEWrPtr, group, alarm, iopStatus, handed, toEE, stalled,
                         irq, eeStatus, inSlot, contents, wakeups, IsProcessingRx>>
          /\ UNCHANGED <<rxpc, rxRdPtr, rxNextRdPtr, packet, packetNext, given, releases,
                         free, delivered>>
      BY <1>13 DEF rxVars, iopVars, sifVars, wakeVars, threadVars
    <2>2. RxTypeOK'
      BY <2>1 DEF RxIInv, RxTypeOK
    <2>3. Ring'
      BY <2>1, PtrsStay, RingStays DEF RxIInv, Ring
    <2>4. Pool'
      BY <2>1, PoolStays DEF RxIInv
    <2>5. Progress' /\ DeliveredInOrder'
      BY <2>1 DEF RxIInv, Progress, Wakes, ChannelGoesOn, FrameIsThere, DeliveredInOrder
    <2> QED BY <2>2, <2>3, <2>4, <2>5 DEF RxIInv
  <1> QED BY <1>1, <1>2, <1>3, <1>4, <1>5, <1>6, <1>7, <1>8, <1>9, <1>10, <1>11, <1>12, <1>13
          DEF RxNext, RxThread

(***************************************************************************)
(* The invariant of the receive path: its pointers count frames, what is   *)
(* on the way is for the slots and buffers of the frames to come, the two  *)
(* copies of the status agree on the slots whose release is not under way, *)
(* and each packet buffer is in one place.                                 *)
(***************************************************************************)
THEOREM RxInvariance == RxSpec => []RxIInv
  BY InitRxIInv, RxNextInvariant, PTL DEF RxSpec

(***************************************************************************)
(* Pointers, wakeups and buffers of the receive path stay in their ranges. *)
(***************************************************************************)
THEOREM RxTypeCorrect == RxSpec => []RxTypeOK
  <1>1. RxIInv => RxTypeOK
    BY DEF RxIInv
  <1> QED BY <1>1, RxInvariance, PTL

(***************************************************************************)
(* The packet stack is given the frames the adaptor accepted, in order,    *)
(* each of them once and whole, whatever the sizes of ring and groups.     *)
(***************************************************************************)
THEOREM FramesAreDelivered == RxSpec => []DeliveredInOrder
  <1>1. RxIInv => DeliveredInOrder
    BY DEF RxIInv
  <1> QED BY <1>1, RxInvariance, PTL

(***************************************************************************)
(* One packet buffer more than there are slots is enough, for any number   *)
(* of slots: neither the receive thread nor the registration of the stack  *)
(* finds the pool empty.                                                   *)
(***************************************************************************)
THEOREM BuffersSuffice == RxSpec => []NoneMissing
  <1>1. RxIInv => NoneMissing
    <2> SUFFICES ASSUME RxIInv, rxpc = "alloc" \/ given < Slots PROVE free # <<>>
      BY DEF NoneMissing
    <2>1. /\ Len(free) = Slots + 1 - given - InHand /\ given \in 0 .. Slots
          /\ free \in Seq(Buffers) /\ InHand \in 0 .. 1
      BY DEF RxIInv, Pool, BuffersApart, RxTypeOK, InHand
    <2>2. Len(free) > 0
      <3>1. CASE rxpc = "alloc"
        <4>1. InHand = 0
          BY <3>1 DEF InHand
        <4> QED BY <2>1, <4>1, SlotsAssumption
      <3>2. CASE given < Slots
        BY <2>1, <3>2, SlotsAssumption
      <3> QED BY <3>1, <3>2
    <2> QED BY <2>1, <2>2
  <1> QED BY <1>1, RxInvariance, PTL

(***************************************************************************)
(* Whenever the channel to the EE is stopped, the interrupt is pending and *)
(* will let it go on.                                                      *)
(***************************************************************************)
THEOREM ChannelNeverStops == RxSpec => []ChannelGoesOn
  <1>1. RxIInv => ChannelGoesOn
    BY DEF RxIInv, Progress
  <1> QED BY <1>1, RxInvariance, PTL
-----------------------------------------------------------------------------
(***************************************************************************)
(* What is on the way ends with a frame that interrupts.  A receive thread *)
(* that sleeps on a frame will be woken: by a wakeup, an interrupt or what *)
(* is on the way; and IsProcessingRx keeps no interrupt from doing so.     *)
(***************************************************************************)
EndNotifies == toEE # <<>> => toEE[Len(toEE)].notify

Roused ==
  rxpc = "sleep" =>
    /\ IsProcessingRx => wakeups > 0
    /\ Released < Arrived => wakeups > 0 \/ irq \/ toEE # <<>>

\* A frame that has arrived and is not released is in its slot.
LEMMA FrameIsInSlot ==
  ASSUME RxIInv, Released < Arrived
  PROVE  eeStatus[SlotOf(Released + 1)] > 0
  <1>1. RxTypeOK /\ SlotsAgree
    BY DEF RxIInv, Ring
  <1>2. Released \in Nat /\ received \in Nat /\ Arrived \in Int /\ Arrived <= received
    BY <1>1, RxCounts
  <1>3. PICK f : f = Released + 1
    OBVIOUS
  <1>4. f \in Outstanding /\ f <= Arrived /\ f > 0
    BY <1>2, <1>3 DEF Outstanding
  <1>5. eeStatus[SlotOf(f)] = f
    BY <1>1, <1>4 DEF SlotsAgree, InUse
  <1> QED BY <1>3, <1>4, <1>5

LEMMA NonEmpty ==
  ASSUME NEW S, NEW q \in Seq(S), q # <<>> PROVE Len(q) \in Nat /\ Len(q) >= 1
  OBVIOUS

\* The length of two sequences, and the last element of the second.
LEMMA ConcatFacts ==
  ASSUME NEW S, NEW q \in Seq(S), NEW h \in Seq(S), h # <<>>
  PROVE  /\ Len(q \o h) = Len(q) + Len(h) /\ Len(q \o h) \in Nat /\ Len(q \o h) >= 1
         /\ (q \o h)[Len(q) + Len(h)] = h[Len(h)]
  <1>1. Len(q) \in Nat /\ Len(h) \in Nat /\ Len(h) >= 1
    OBVIOUS
  <1>2. Len(q \o h) = Len(q) + Len(h)
    OBVIOUS
  <1>3. \A i \in 1 .. Len(q) + Len(h) :
          (q \o h)[i] = IF i <= Len(q) THEN q[i] ELSE h[i - Len(q)]
    OBVIOUS
  <1> QED BY <1>1, <1>2, <1>3

LEMMA GroupNotifies ==
  ASSUME NEW q \in Seq(Entries), NEW g \in Seq(Entries), g # <<>>,
         NEW w, w = q \o Notifying(g)
  PROVE  w # <<>> /\ w[Len(w)].notify
  <1>1. Len(g) \in Nat /\ Len(g) >= 1 /\ Len(q) \in Nat /\ g[Len(g)] \in Entries
    OBVIOUS
  <1>2. PICK h : h = Notifying(g)
    OBVIOUS
  <1>3. PICK e : e = [g[Len(g)] EXCEPT !.notify = TRUE]
    OBVIOUS
  <1>4. e \in Entries /\ e.notify
    BY <1>1, <1>3 DEF Entries
  <1>5. h = [g EXCEPT ![Len(g)] = e]
    BY <1>2, <1>3 DEF Notifying
  <1>6. h \in Seq(Entries) /\ Len(h) = Len(g) /\ h[Len(g)] = e
    BY <1>1, <1>4, <1>5
  <1>7. w = q \o h /\ Len(w) = Len(q) + Len(h) /\ Len(w) >= 1
    <2>1. w = q \o h
      BY <1>2
    <2>2. h # <<>>
      BY <1>1, <1>6
    <2> QED BY <1>6, <2>1, <2>2, ConcatFacts
  <1>8. w[Len(w)] = h[Len(h)]
    <2>1. h # <<>>
      BY <1>1, <1>6
    <2> QED BY <1>6, <1>7, <2>1, ConcatFacts
  <1>9. w # <<>>
    BY <1>7
  <1> QED BY <1>4, <1>6, <1>8, <1>9

\* Steps that leave the way, the frames counted and the thread's sleep alone.
LEMMA SleepUndisturbed ==
  ASSUME EndNotifies, Roused, UNCHANGED <<received, group, toEE, irq, wakeups, IsProcessingRx>>,
         (rxpc' = rxpc /\ delivered' = delivered) \/ rxpc' # "sleep"
  PROVE  EndNotifies' /\ Roused'
  BY DEF EndNotifies, Roused, Released, Arrived, Taken

\* The adaptor adds to a group, and a group goes.
LEMMA IopRouses ==
  ASSUME RxIInv, EndNotifies, Roused, EnQFrame \/ FrameSendCB
  PROVE  EndNotifies' /\ Roused'
  <1>1. UNCHANGED <<irq, rxpc, wakeups, IsProcessingRx, delivered>>
    BY DEF EnQFrame, FrameSendCB, wakeVars, threadVars
  <1>2. /\ RxTypeOK /\ PtrsCount /\ SlotsAgree /\ BuffersApart
        /\ toEE \in Seq(Entries) /\ group \in Seq(Entries)
        /\ Len(toEE) \in Nat /\ Len(group) \in Nat /\ received \in Nat
    BY RxCounts DEF RxIInv, RxTypeOK, Ring, Pool
  <1>3. \/ \E g \in Seq(Entries) : g # <<>> /\ toEE' = toEE \o Notifying(g)
        \/ toEE' = toEE /\ received' - Len(group') = received - Len(group)
    <2>1. CASE EnQFrame
      <3>1. PICK e : e = [slot |-> EEWrPtr, buffer |-> handed[EEWrPtr], notify |-> FALSE]
        OBVIOUS
      <3>2. PICK g : g = Append(group, e)
        OBVIOUS
      <3>3. EEWrPtr \in Slot /\ EEWrPtr < given /\ handed[EEWrPtr] = inSlot[EEWrPtr]
        BY <1>2, <2>1, FreeSlotIsIdle DEF EnQFrame, RxTypeOK
      <3>4. EEWrPtr \in Given /\ given \in Nat
        BY <1>2, <3>3, RxCounts DEF Given, Slot
      <3>5. handed[EEWrPtr] \in Buffers
        BY <1>2, <3>3, <3>4 DEF BuffersApart
      <3>6. e \in Entries
        BY <3>1, <3>3, <3>5 DEF Entries
      <3>7. g \in Seq(Entries) /\ g # <<>> /\ Len(g) = Len(group) + 1
        BY <1>2, <3>2, <3>6
      <3>8. /\ received' = received + 1
            /\ \/ toEE' = toEE \o Notifying(g)
               \/ toEE' = toEE /\ group' = g
        BY <2>1, <3>1, <3>2 DEF EnQFrame
      <3> QED BY <1>2, <3>7, <3>8
    <2>2. CASE FrameSendCB
      <3>1. group # <<>> /\ received' = received
        BY <1>2, <2>2 DEF FrameSendCB, RxTypeOK
      <3>2. Len(Notifying(group)) = Len(group)
        BY <1>2, <3>1 DEF Notifying
      <3> QED BY <1>2, <2>2, <3>1, <3>2 DEF FrameSendCB
    <2> QED BY <2>1, <2>2
  <1>4. CASE \E g \in Seq(Entries) : g # <<>> /\ toEE' = toEE \o Notifying(g)
    <2>1. toEE' # <<>> /\ toEE'[Len(toEE')].notify
      BY <1>2, <1>4, GroupNotifies
    <2> QED BY <1>1, <2>1 DEF EndNotifies, Roused
  <1>5. CASE toEE' = toEE /\ received' - Len(group') = received - Len(group)
    <2>1. Arrived' = Arrived /\ Released' = Released
      BY <1>1, <1>5 DEF Arrived, Released, Taken
    <2> QED BY <1>1, <1>5, <2>1 DEF EndNotifies, Roused
  <1> QED BY <1>3, <1>4, <1>5

\* The last frame on the way interrupts, and before it there is another.
LEMMA FrameArrivesRouses ==
  ASSUME RxIInv, EndNotifies, Roused, FrameArrives
  PROVE  EndNotifies' /\ Roused'
  <1>1. /\ toEE # <<>> /\ toEE' = Tail(toEE) /\ irq' = (irq \/ Head(toEE).notify)
        /\ UNCHANGED <<rxpc, wakeups, IsProcessingRx>>
    BY DEF FrameArrives, wakeVars, threadVars
  <1>2. toEE \in Seq(Entries)
    BY DEF RxIInv, RxTypeOK
  <1>3. CASE Len(toEE) = 1
    <2>1. toEE' = <<>> /\ Head(toEE) = toEE[Len(toEE)]
      BY <1>1, <1>2, <1>3
    <2>2. irq'
      BY <1>1, <2>1 DEF EndNotifies
    <2> QED BY <1>1, <2>1, <2>2 DEF EndNotifies, Roused
  <1>4. CASE Len(toEE) # 1
    <2>1. PICK frames \in Nat : frames = Len(toEE) /\ frames >= 1
      BY <1>1, <1>2, NonEmpty
    <2>2. PICK last \in Nat : last = frames - 1 /\ last >= 1
      <3>1. frames # 1
        BY <1>4, <2>1
      <3>2. frames > 1
        BY <2>1, <3>1
      <3> QED BY <3>2
    <2>3. /\ Len(Tail(toEE)) = last
          /\ \A i \in 1 .. last : Tail(toEE)[i] = toEE[i + 1]
      BY <1>1, <1>2, <2>1, <2>2
    <2>4. Tail(toEE)[last] = toEE[Len(toEE)]
      BY <2>1, <2>2, <2>3
    <2>5. Tail(toEE) # <<>>
      BY <2>2, <2>3
    <2>6. toEE' # <<>> /\ toEE'[Len(toEE')].notify
      BY <1>1, <2>3, <2>4, <2>5 DEF EndNotifies
    <2> QED BY <1>1, <2>6 DEF EndNotifies, Roused
  <1> QED BY <1>3, <1>4

\* A thread that sleeps on a frame has it where the interrupt looks.
LEMMA InterruptsRouse ==
  ASSUME RxIInv, EndNotifies, Roused, OtherSifEvent \/ EEHandleRxEvent
  PROVE  EndNotifies' /\ Roused'
  <1>1. UNCHANGED <<received, group, toEE, rxpc, delivered>>
    BY DEF OtherSifEvent, EEHandleRxEvent, iopVars, threadVars
  <1>2. EndNotifies' /\ Released' = Released /\ Arrived' = Arrived
    BY <1>1 DEF EndNotifies, Released, Arrived, Taken
  <1>3. CASE OtherSifEvent
    BY <1>1, <1>2, <1>3 DEF OtherSifEvent, wakeVars, Roused
  <1>4. CASE EEHandleRxEvent
    <2>1. wakeups \in Nat
      BY DEF RxIInv, RxTypeOK
    <2>2. CASE FrameIsThere
      <3>1. wakeups' = IF IsProcessingRx THEN wakeups ELSE wakeups + 1
        BY <1>4, <2>2 DEF EEHandleRxEvent
      <3>2. rxpc = "sleep" => wakeups' > 0
        BY <2>1, <3>1 DEF Roused
      <3> QED BY <1>1, <1>2, <3>2 DEF Roused
    <2>3. CASE ~FrameIsThere
      <3>1. UNCHANGED <<wakeups, IsProcessingRx>>
        BY <1>4, <2>3 DEF EEHandleRxEvent, wakeVars
      <3>2. rxpc = "sleep" => ~(Released < Arrived)
        <4> SUFFICES ASSUME rxpc = "sleep", Released < Arrived PROVE FrameIsThere
          BY <2>3
        <4>1. rxNextRdPtr = SlotOf(Released + 1)
          <5>1. Looking = Taken + 1 /\ Released = Taken + 0 /\ Taken \in Nat
            BY RxCounts DEF RxIInv, Looking, Released
          <5>2. rxNextRdPtr = SlotOf(Looking)
            BY DEF RxIInv, Ring, PtrsCount
          <5> QED BY <5>1, <5>2
        <4> QED BY <4>1, FrameIsInSlot DEF FrameIsThere
      <3> QED BY <1>1, <1>2, <3>1, <3>2 DEF Roused
    <2> QED BY <2>2, <2>3
  <1> QED BY <1>3, <1>4

\* The receive thread goes to sleep only when no frame is there.
LEMMA PollRouses ==
  ASSUME RxIInv, EndNotifies, Roused, Poll
  PROVE  EndNotifies' /\ Roused'
  <1>1. /\ rxpc = "poll"
        /\ UNCHANGED <<received, group, toEE, irq, wakeups, delivered>>
    BY DEF Poll, iopVars, sifVars
  <1>2. CASE eeStatus[rxRdPtr] > 0
    BY <1>1, <1>2 DEF Poll, EndNotifies, Roused
  <1>3. CASE ~(eeStatus[rxRdPtr] > 0)
    <2>1. rxpc' = "sleep" /\ IsProcessingRx' = FALSE
      BY <1>3 DEF Poll
    <2>2. Released' = Released /\ Arrived' = Arrived
      BY <1>1, <2>1 DEF Released, Arrived, Taken
    <2>3. ~(Released < Arrived)
      <3> SUFFICES ASSUME Released < Arrived PROVE eeStatus[rxRdPtr] > 0
        BY <1>3
      <3>1. rxRdPtr = SlotOf(Released + 1)
        <4>1. Reading = Taken + 1 /\ Released = Taken + 0 /\ Taken \in Nat
          BY <1>1, RxCounts DEF RxIInv, Reading, Released
        <4>2. rxRdPtr = SlotOf(Reading)
          BY DEF RxIInv, Ring, PtrsCount
        <4> QED BY <4>1, <4>2
      <3> QED BY <3>1, FrameIsInSlot
    <2> QED BY <1>1, <2>1, <2>2, <2>3 DEF EndNotifies, Roused
  <1> QED BY <1>2, <1>3

LEMMA RousedInvariant == RxIInv /\ EndNotifies /\ Roused /\ [RxNext]_rxVars => EndNotifies' /\ Roused'
  <1> SUFFICES ASSUME RxIInv, EndNotifies, Roused, [RxNext]_rxVars PROVE EndNotifies' /\ Roused'
    OBVIOUS
  <1>1. CASE EnQFrame \/ FrameSendCB
    BY <1>1, IopRouses
  <1>2. CASE FrameArrives
    BY <1>2, FrameArrivesRouses
  <1>3. CASE OtherSifEvent \/ EEHandleRxEvent
    BY <1>3, InterruptsRouse
  <1>4. CASE Poll
    BY <1>4, PollRouses
  <1>5. CASE Sleep
    <2>1. toEE' = toEE /\ rxpc' # "sleep"
      BY <1>5 DEF Sleep, sifVars
    <2> QED BY <2>1 DEF EndNotifies, Roused
  <1>6. CASE ReleaseArrives \/ GiveBuffer \/ UNCHANGED rxVars
    <2>1. UNCHANGED <<received, group, toEE, irq, wakeups, IsProcessingRx, rxpc, delivered>>
      BY <1>6 DEF ReleaseArrives, GiveBuffer, rxVars, iopVars, sifVars, wakeVars, threadVars
    <2> QED BY <2>1, SleepUndisturbed
  <1>7. CASE AllocNext \/ AdvanceNext \/ ReleaseSlot \/ Advance \/ EnQRxPacket
    <2>1. UNCHANGED <<received, group, toEE, irq, wakeups, IsProcessingRx>> /\ rxpc' # "sleep"
      BY <1>7 DEF AllocNext, AdvanceNext, ReleaseSlot, Advance, EnQRxPacket, iopVars, sifVars,
                  wakeVars
    <2> QED BY <2>1, SleepUndisturbed
  <1> QED BY <1>1, <1>2, <1>3, <1>4, <1>5, <1>6, <1>7 DEF RxNext, RxThread

(***************************************************************************)
(* When nobody is to wake the receive thread, every frame the adaptor has  *)
(* accepted has been delivered, whatever the sizes of ring and groups.     *)
(***************************************************************************)
THEOREM NoFrameIsSleptOn == RxSpec => []NoneLeftBehind
  <1>1. RxInit => EndNotifies /\ Roused
    BY DEF RxInit, EndNotifies, Roused
  <1>2. RxIInv /\ Roused => NoneLeftBehind
    <2> SUFFICES ASSUME RxIInv, Roused, rxpc = "sleep", wakeups = 0, ~irq, toEE = <<>>, ~alarm
                 PROVE  Len(delivered) = received
      BY DEF NoneLeftBehind
    <2>1. RxTypeOK /\ Released <= Arrived /\ group = <<>>
      BY DEF RxIInv, RxTypeOK, Ring, PtrsCount
    <2>2. ~(Released < Arrived)
      BY DEF Roused
    <2>3. Len(group) = 0 /\ Len(toEE) = 0
      BY <2>1
    <2>4. /\ Released \in Nat /\ Arrived \in Int /\ received \in Nat /\ Taken \in Nat
          /\ Arrived + Len(toEE) + Len(group) = received
      BY <2>1, RxCounts
    <2>5. Arrived = received /\ Released = Taken
      BY <2>3, <2>4 DEF Released
    <2> QED BY <2>1, <2>2, <2>4, <2>5 DEF Taken
  <1>3. RxSpec => [](EndNotifies /\ Roused)
    BY <1>1, RxInvariance, RousedInvariant, PTL DEF RxSpec
  <1> QED BY <1>2, <1>3, RxInvariance, PTL
=============================================================================
