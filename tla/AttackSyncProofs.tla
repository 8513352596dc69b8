-------------------------- MODULE AttackSyncProofs --------------------------
(***************************************************************************)
(* Proofs about AttackSync for any kinds of hits, any width of the         *)
(* counters and any number of hits and states.                             *)
(***************************************************************************)
EXTENDS AttackSync, TLAPS

Ordered(s, t) == s.acc <= t.acc /\ \A k \in Kinds : s.made[k] <= t.made[k]

\* The states under way are in the order in which they were true.
NewsIsOrdered ==
  \A c \in Consoles : \A i, j \in 1 .. Len(news[c]) :
    i <= j => Ordered(news[c][i], news[c][j])

NewsIsPast ==
  \A c \in Consoles : \A i \in 1 .. Len(news[c]) : Ordered(news[c][i], Current(c))

\* A console is never ahead of what it has been told.
FollowsNews ==
  \A c \in Consoles :
    taken[c] <= remote(c).acc /\ \A k \in Kinds : shown[c][k] <= remote(c).made[k]

Balanced == \A c \in Consoles : health[c] = Start + gained[c] - taken[c]

IInv == TypeOK /\ NewsIsOrdered /\ NewsIsPast /\ FollowsNews /\ Balanced

LEMMA PeerIsConsole == ASSUME NEW c \in Consoles PROVE Peer(c) \in Consoles
  BY DEF Consoles, Peer

LEMMA CurrentIsState == ASSUME TypeOK, NEW c \in Consoles PROVE Current(c) \in States
  BY DEF TypeOK, Current, States

\* What the peer has of a console is a state.
LEMMA RemoteIsState ==
  ASSUME TypeOK, NEW c \in Consoles
  PROVE  /\ remote(c) \in States /\ Len(news[Peer(c)]) \in Nat \ {0}
         /\ 1 \in 1 .. Len(news[Peer(c)]) /\ remote(c) = news[Peer(c)][1]
  <1>1. news[Peer(c)] \in Seq(States) /\ news[Peer(c)] # <<>>
    BY PeerIsConsole DEF TypeOK
  <1>2. Len(news[Peer(c)]) \in Nat \ {0} /\ 1 \in 1 .. Len(news[Peer(c)])
    BY <1>1
  <1>3. Head(news[Peer(c)]) = news[Peer(c)][1] /\ news[Peer(c)][1] \in States
    BY <1>1, <1>2
  <1> QED BY <1>2, <1>3 DEF remote

LEMMA InitIInv == Init => IInv
  <1> SUFFICES ASSUME Init PROVE IInv
    OBVIOUS
  <1> DEFINE first == [made |-> None, acc |-> 0, health |-> Start]
  <1>1. None \in Counts
    BY DEF None, Counts
  <1>2. first \in States /\ first.acc = 0 /\ \A k \in Kinds : first.made[k] = 0
    BY <1>1, NumbersAssumption DEF States, None
  <1>3. \A c \in Consoles : /\ news[c] = <<first>> /\ made[c] = None /\ shown[c] = None
                            /\ dealt[c] = 0 /\ taken[c] = 0 /\ health[c] = Start
                            /\ gained[c] = 0
    BY DEF Init
  <1> HIDE DEF first
  <1>4. <<first>> \in Seq(States) /\ <<first>> # <<>> /\ Len(<<first>>) = 1 /\ <<first>>[1] = first
        /\ Head(<<first>>) = first
    BY <1>2
  <1>5. TypeOK
    <2>1. news \in [Consoles -> Seq(States) \ {<<>>}]
      BY <1>4 DEF Init, first
    <2> QED BY <2>1, <1>1, NumbersAssumption DEF Init, TypeOK
  <1>6. NewsIsOrdered
    BY <1>2, <1>3, <1>4 DEF NewsIsOrdered, Ordered
  <1>7. NewsIsPast
    BY <1>2, <1>3, <1>4 DEF NewsIsPast, Ordered, Current, None
  <1>8. FollowsNews
    <2>1. \A c \in Consoles : remote(c) = first
      BY <1>3, <1>4, PeerIsConsole DEF remote
    <2> QED BY <2>1, <1>2, <1>3 DEF FollowsNews, None
  <1>9. Balanced
    BY <1>3, NumbersAssumption DEF Balanced
  <1> QED BY <1>5, <1>6, <1>7, <1>8, <1>9 DEF IInv

LEMMA OwnKeepsIInv ==
  ASSUME IInv, NEW c \in Consoles,
         UpdateOwn(c) \/ \E e \in Effects : UpdateOwnHit(c, e)
  PROVE  IInv'
  <1>1. /\ remote(c) \in States /\ remote(c).acc \in Nat /\ taken[c] \in Nat
        /\ health[c] \in Int /\ gained[c] \in Int /\ Start \in Int
    BY RemoteIsState, NumbersAssumption DEF IInv, TypeOK, States
  <1>2. PICK gain \in Int, deal \in Nat :
          /\ TakeDamage(c, gain)
          /\ gained' = [gained EXCEPT ![c] = @ + gain]
          /\ dealt' = [dealt EXCEPT ![c] = @ + deal]
          /\ view' = [view EXCEPT ![c] = @ - deal]
    <2>1. CASE UpdateOwn(c)
      <3>1. /\ gained' = [gained EXCEPT ![c] = @ + 0] /\ dealt' = [dealt EXCEPT ![c] = @ + 0]
            /\ view' = [view EXCEPT ![c] = @ - 0]
        BY <2>1 DEF UpdateOwn, IInv, TypeOK
      <3>2. TakeDamage(c, 0)
        BY <2>1 DEF UpdateOwn
      <3> WITNESS 0 \in Int, 0 \in Nat
      <3> QED BY <3>1, <3>2
    <2>2. CASE \E e \in Effects : UpdateOwnHit(c, e)
      <3> PICK e \in Effects : UpdateOwnHit(c, e)
        BY <2>2
      <3>1. e.gained \in Int /\ e.dealt \in Nat
        BY DEF Effects
      <3> QED BY <3>1 DEF UpdateOwnHit
    <2> QED BY <2>1, <2>2
  <1>3. /\ made' \in [Consoles -> Counts] /\ hits' \in 0 .. MaxHits
        /\ \A d \in Consoles, k \in Kinds : made[d][k] <= made'[d][k]
        /\ UNCHANGED <<news, shown>>
    <2>1. CASE UpdateOwn(c)
      BY <2>1 DEF UpdateOwn, IInv, TypeOK, Counts
    <2>2. CASE \E e \in Effects : UpdateOwnHit(c, e)
      <3> PICK e \in Effects : UpdateOwnHit(c, e)
        BY <2>2
      <3>1. e.kind \in Kinds
        BY DEF Effects
      <3>2. /\ made' = [made EXCEPT ![c] = [made[c] EXCEPT ![e.kind] = made[c][e.kind] + 1]]
            /\ hits' = hits + 1 /\ hits < MaxHits /\ UNCHANGED <<news, shown>>
        BY DEF UpdateOwnHit
      <3>3. hits' \in 0 .. MaxHits
        BY <3>2, NumbersAssumption DEF IInv, TypeOK
      <3>4. made[c] \in Counts /\ made[c][e.kind] + 1 \in Nat
        BY <3>1 DEF IInv, TypeOK, Counts
      <3>5. [made[c] EXCEPT ![e.kind] = made[c][e.kind] + 1] \in Counts
        BY <3>1, <3>4 DEF Counts
      <3>6. made' \in [Consoles -> Counts]
        BY <3>2, <3>5 DEF IInv, TypeOK
      <3>7. \A d \in Consoles, k \in Kinds : made[d][k] <= made'[d][k]
        <4> SUFFICES ASSUME NEW d \in Consoles, NEW k \in Kinds
                     PROVE  made[d][k] <= made'[d][k]
          OBVIOUS
        <4>1. made \in [Consoles -> Counts] /\ made[d] \in Counts /\ made[d][k] \in Nat
          BY DEF IInv, TypeOK, Counts
        <4>2. CASE d # c
          <5>1. made'[d] = made[d]
            BY <3>2, <4>1, <4>2
          <5> QED BY <4>1, <5>1
        <4>3. CASE d = c /\ k # e.kind
          <5>1. made'[c] = [made[c] EXCEPT ![e.kind] = made[c][e.kind] + 1]
            BY <3>2, <4>1, <4>3
          <5>2. made'[c][k] = made[c][k]
            BY <3>4, <4>3, <5>1 DEF Counts
          <5> QED BY <4>1, <4>3, <5>2
        <4>4. CASE d = c /\ k = e.kind
          <5>1. made'[c] = [made[c] EXCEPT ![e.kind] = made[c][e.kind] + 1]
            BY <3>2, <4>1, <4>4
          <5>2. made'[c][k] = made[c][k] + 1
            BY <3>4, <4>4, <5>1 DEF Counts
          <5> QED BY <4>1, <4>4, <5>2
        <4> QED BY <4>2, <4>3, <4>4
      <3> QED BY <3>2, <3>3, <3>6, <3>7
    <2> QED BY <2>1, <2>2
  <1>4. /\ health' = [health EXCEPT ![c] = @ - (remote(c).acc - taken[c]) + gain]
        /\ taken' = [taken EXCEPT ![c] = remote(c).acc]
    BY <1>2 DEF TakeDamage
  <1>5. TypeOK'
    <2>1. health[c] - (remote(c).acc - taken[c]) + gain \in Int /\ gained[c] + gain \in Int
      BY <1>1
    <2>2. dealt[c] + deal \in Nat /\ view[c] - deal \in Int
      BY DEF IInv, TypeOK
    <2>3. /\ health' \in [Consoles -> Int] /\ gained' \in [Consoles -> Int]
          /\ taken' \in [Consoles -> Nat]
      BY <2>1, <1>1, <1>2, <1>4 DEF IInv, TypeOK
    <2>4. dealt' \in [Consoles -> Nat] /\ view' \in [Consoles -> Int]
      BY <2>2, <1>2 DEF IInv, TypeOK
    <2> QED BY <2>3, <2>4, <1>3 DEF IInv, TypeOK
  <1>6. \A d \in Consoles : dealt[d] <= dealt'[d] /\ dealt[d] \in Nat /\ dealt'[d] \in Nat
    <2> SUFFICES ASSUME NEW d \in Consoles
                 PROVE  dealt[d] <= dealt'[d] /\ dealt[d] \in Nat /\ dealt'[d] \in Nat
      OBVIOUS
    <2>1. dealt \in [Consoles -> Nat] /\ dealt[d] \in Nat
      BY DEF IInv, TypeOK
    <2>2. dealt'[d] = IF d = c THEN dealt[d] + deal ELSE dealt[d]
      BY <1>2, <2>1
    <2> QED BY <2>1, <2>2
  <1>7. NewsIsOrdered'
    BY <1>3 DEF IInv, NewsIsOrdered, Ordered
  <1>8. NewsIsPast'
    <2> SUFFICES ASSUME NEW d \in Consoles, NEW i \in 1 .. Len(news[d])
                 PROVE  Ordered(news[d][i], Current(d))'
      BY <1>3 DEF NewsIsPast
    <2>1. Ordered(news[d][i], Current(d)) /\ news[d][i] \in States
      BY DEF IInv, NewsIsPast, TypeOK
    <2> DEFINE s == news[d][i]
    <2>2. s.acc \in Nat /\ s.acc <= dealt[d] /\ \A k \in Kinds : s.made[k] <= made[d][k]
      BY <2>1 DEF Ordered, Current, States
    <2>3. s.acc <= dealt'[d]
      BY <2>2, <1>6
    <2>4. ASSUME NEW k \in Kinds PROVE s.made[k] <= made'[d][k]
      <3>1. made[d] \in Counts /\ made'[d] \in Counts /\ s.made \in Counts
        BY <2>1, <1>3 DEF IInv, TypeOK, States
      <3>2. made[d][k] \in Nat /\ made'[d][k] \in Nat /\ s.made[k] \in Nat
        BY <3>1 DEF Counts
      <3> QED BY <3>2, <2>2, <1>3
    <2> QED BY <2>3, <2>4, <1>3 DEF Ordered, Current
  <1>9. \A d \in Consoles : remote(d)' = remote(d)
    BY <1>3 DEF remote
  <1>10. FollowsNews'
    <2> SUFFICES ASSUME NEW d \in Consoles
                 PROVE  /\ taken'[d] <= remote(d).acc
                        /\ \A k \in Kinds : shown[d][k] <= remote(d).made[k]
      BY <1>3, <1>9 DEF FollowsNews
    <2>1. taken[d] <= remote(d).acc /\ \A k \in Kinds : shown[d][k] <= remote(d).made[k]
      BY DEF IInv, FollowsNews
    <2>2. taken'[d] = IF d = c THEN remote(c).acc ELSE taken[d]
      BY <1>4 DEF IInv, TypeOK
    <2> QED BY <1>1, <2>1, <2>2
  <1>11. Balanced'
    <2> SUFFICES ASSUME NEW d \in Consoles
                 PROVE  health'[d] = Start + gained'[d] - taken'[d]
      BY DEF Balanced
    <2>1. health[d] = Start + gained[d] - taken[d]
      BY DEF IInv, Balanced
    <2>2. CASE d = c
      <3>1. health'[c] = health[c] - (remote(c).acc - taken[c]) + gain
        BY <1>4 DEF IInv, TypeOK
      <3>2. taken'[c] = remote(c).acc /\ gained'[c] = gained[c] + gain
        BY <1>2, <1>4 DEF IInv, TypeOK
      <3> QED BY <1>1, <2>1, <2>2, <3>1, <3>2, NumbersAssumption
    <2>3. CASE d # c
      <3>1. health'[d] = health[d] /\ taken'[d] = taken[d] /\ gained'[d] = gained[d]
        BY <1>2, <1>4, <2>3 DEF IInv, TypeOK
      <3> QED BY <2>1, <3>1
    <2> QED BY <2>2, <2>3
  <1> QED BY <1>5, <1>7, <1>8, <1>10, <1>11 DEF IInv

LEMMA RemoteKeepsIInv ==
  ASSUME IInv, NEW c \in Consoles, UpdateRemote(c)
  PROVE  IInv'
  <1>1. /\ UNCHANGED <<made, dealt, health, news, taken, gained, hits>>
        /\ view' = [view EXCEPT ![c] = remote(c).health]
        /\ ShowHit(c)
    BY DEF UpdateRemote
  <1>2. remote(c) \in States /\ remote(c).health \in Int /\ remote(c).made \in Counts
    BY RemoteIsState DEF IInv, States
  <1>3. /\ shown' \in [Consoles -> Counts]
        /\ \A d \in Consoles, k \in Kinds : shown'[d][k] <= remote(d).made[k]
    <2>1. CASE UNCHANGED shown
      BY <2>1 DEF IInv, TypeOK, FollowsNews
    <2>2. CASE \E k \in Due(c) : shown' = [shown EXCEPT ![c][k] = @ + 1]
      <3> PICK k \in Due(c) : shown' = [shown EXCEPT ![c][k] = @ + 1]
        BY <2>2
      <3>1. k \in Kinds /\ remote(c).made[k] # shown[c][k]
        BY DEF Due
      <3>2. /\ shown[c] \in Counts /\ shown[c][k] \in Nat /\ remote(c).made[k] \in Nat
            /\ shown[c][k] <= remote(c).made[k]
        BY <3>1, <1>2 DEF IInv, TypeOK, Counts, FollowsNews
      <3>3. shown[c][k] + 1 <= remote(c).made[k] /\ shown[c][k] + 1 \in Nat
        BY <3>1, <3>2
      <3>4. shown' = [shown EXCEPT ![c] = [shown[c] EXCEPT ![k] = shown[c][k] + 1]]
        OBVIOUS
      <3>5. [shown[c] EXCEPT ![k] = shown[c][k] + 1] \in Counts
        BY <3>1, <3>2, <3>3 DEF Counts
      <3>6. shown' \in [Consoles -> Counts]
        BY <3>4, <3>5 DEF IInv, TypeOK
      <3>7. \A d \in Consoles, j \in Kinds : shown'[d][j] <= remote(d).made[j]
        BY <3>1, <3>2, <3>3, <3>4 DEF IInv, TypeOK, Counts, FollowsNews
      <3> QED BY <3>6, <3>7
    <2> QED BY <1>1, <2>1, <2>2 DEF ShowHit
  <1>4. TypeOK'
    BY <1>1, <1>2, <1>3 DEF IInv, TypeOK
  <1>5. FollowsNews'
    BY <1>1, <1>3 DEF IInv, FollowsNews, remote
  <1> QED BY <1>1, <1>4, <1>5 DEF IInv, NewsIsOrdered, NewsIsPast, Ordered, Current, Balanced

LEMMA SendKeepsIInv ==
  ASSUME IInv, NEW c \in Consoles, Send(c)
  PROVE  IInv'
  <1> DEFINE old == news[c]
             new == Append(old, Current(c))
  <1>1. /\ news' = [news EXCEPT ![c] = new]
        /\ UNCHANGED <<made, dealt, health, shown, taken, view, gained, hits>>
    BY DEF Send
  <1>2. old \in Seq(States) /\ old # <<>> /\ Current(c) \in States
    BY CurrentIsState DEF IInv, TypeOK
  <1>3. /\ new \in Seq(States) /\ new # <<>> /\ Len(new) = Len(old) + 1
        /\ Len(old) \in Nat /\ Head(new) = Head(old)
        /\ \A i \in 1 .. Len(old) : new[i] = old[i]
        /\ new[Len(old) + 1] = Current(c)
    BY <1>2
  <1>4. Ordered(Current(c), Current(c))
    BY <1>2 DEF Ordered, States, Counts
  <1>5. \A i \in 1 .. Len(new) : Ordered(new[i], Current(c))
    <2> TAKE i \in 1 .. Len(new)
    <2>1. i \in 1 .. Len(old) \/ i = Len(old) + 1
      BY <1>3
    <2>2. \A j \in 1 .. Len(old) : Ordered(old[j], Current(c))
      BY DEF IInv, NewsIsPast
    <2> QED BY <1>3, <1>4, <2>1, <2>2
  <1>6. \A i, j \in 1 .. Len(new) : i <= j => Ordered(new[i], new[j])
    <2> SUFFICES ASSUME NEW i \in 1 .. Len(new), NEW j \in 1 .. Len(new), i <= j
                 PROVE  Ordered(new[i], new[j])
      OBVIOUS
    <2>1. CASE j = Len(old) + 1
      BY <2>1, <1>3, <1>5
    <2>2. CASE j # Len(old) + 1
      <3>1. i \in 1 .. Len(old) /\ j \in 1 .. Len(old)
        BY <2>2, <1>3
      <3>2. Ordered(old[i], old[j])
        BY <3>1 DEF IInv, NewsIsOrdered
      <3> QED BY <3>1, <3>2, <1>3
    <2> QED BY <2>1, <2>2
  <1> HIDE DEF new
  <1>7. news'[c] = new /\ \A d \in Consoles : d # c => news'[d] = news[d]
    BY <1>1 DEF IInv, TypeOK
  <1>8. \A d \in Consoles : Current(d)' = Current(d)
    BY <1>1 DEF Current
  <1>9. TypeOK'
    BY <1>1, <1>3 DEF IInv, TypeOK
  <1>10. NewsIsOrdered'
    <2> SUFFICES ASSUME NEW d \in Consoles
                 PROVE  \A i, j \in 1 .. Len(news'[d]) : i <= j => Ordered(news'[d][i], news'[d][j])
      BY DEF NewsIsOrdered, Ordered
    <2> QED BY <1>6, <1>7 DEF IInv, NewsIsOrdered
  <1>11. NewsIsPast'
    <2> SUFFICES ASSUME NEW d \in Consoles
                 PROVE  \A i \in 1 .. Len(news'[d]) : Ordered(news'[d][i], Current(d))
      BY <1>8 DEF NewsIsPast, Ordered
    <2> QED BY <1>5, <1>7 DEF IInv, NewsIsPast
  <1>12. \A d \in Consoles : remote(d)' = remote(d)
    BY <1>3, <1>7, PeerIsConsole DEF remote
  <1>13. FollowsNews'
    BY <1>1, <1>12 DEF IInv, FollowsNews
  <1>14. Balanced'
    BY <1>1 DEF IInv, Balanced
  <1> QED BY <1>9, <1>10, <1>11, <1>13, <1>14 DEF IInv

LEMMA ReceiveKeepsIInv ==
  ASSUME IInv, NEW c \in Consoles, NEW n \in 2 .. Len(news[Peer(c)]), Receive(c, n)
  PROVE  IInv'
  <1> DEFINE p   == Peer(c)
             old == news[p]
             new == SubSeq(old, n, Len(old))
  <1>1. /\ news' = [news EXCEPT ![p] = new]
        /\ UNCHANGED <<made, dealt, health, shown, taken, view, gained, hits>>
    BY DEF Receive
  <1>2. p \in Consoles /\ old \in Seq(States) /\ Len(old) \in Nat /\ n \in 1 .. Len(old)
    BY PeerIsConsole DEF IInv, TypeOK
  <1>3. /\ new \in Seq(States) /\ Len(new) = Len(old) - n + 1
        /\ \A i \in 1 .. Len(new) : new[i] = old[i + n - 1] /\ i + n - 1 \in 1 .. Len(old)
    BY <1>2
  <1>4. new # <<>> /\ Head(new) = old[n]
    <2>1. Len(new) \in Nat /\ Len(new) # 0 /\ 1 \in 1 .. Len(new) /\ 1 + n - 1 = n
      BY <1>2, <1>3
    <2>2. new[1] = old[n]
      BY <2>1, <1>3
    <2> HIDE DEF new
    <2>3. new # <<>> /\ Head(new) = new[1]
      BY <2>1, <1>3
    <2> QED BY <2>2, <2>3
  <1> HIDE DEF new
  <1>5. news'[p] = new /\ \A d \in Consoles : d # p => news'[d] = news[d]
    BY <1>1, <1>2 DEF IInv, TypeOK
  <1>6. \A d \in Consoles : Current(d)' = Current(d)
    BY <1>1 DEF Current
  <1>7. TypeOK'
    BY <1>1, <1>2, <1>3, <1>4 DEF IInv, TypeOK
  <1>8. NewsIsOrdered'
    <2> SUFFICES ASSUME NEW d \in Consoles, NEW i \in 1 .. Len(news'[d]),
                        NEW j \in 1 .. Len(news'[d]), i <= j
                 PROVE  Ordered(news'[d][i], news'[d][j])
      BY DEF NewsIsOrdered, Ordered
    <2>1. CASE d = p
      <3>1. i + n - 1 \in 1 .. Len(old) /\ j + n - 1 \in 1 .. Len(old) /\ i + n - 1 <= j + n - 1
        BY <2>1, <1>2, <1>3, <1>5
      <3>2. Ordered(old[i + n - 1], old[j + n - 1])
        BY <1>2, <3>1 DEF IInv, NewsIsOrdered
      <3> QED BY <2>1, <3>2, <1>3, <1>5
    <2>2. CASE d # p
      BY <2>2, <1>5 DEF IInv, NewsIsOrdered
    <2> QED BY <2>1, <2>2
  <1>9. NewsIsPast'
    <2> SUFFICES ASSUME NEW d \in Consoles, NEW i \in 1 .. Len(news'[d])
                 PROVE  Ordered(news'[d][i], Current(d))
      BY <1>6 DEF NewsIsPast, Ordered
    <2>1. CASE d = p
      BY <2>1, <1>2, <1>3, <1>5 DEF IInv, NewsIsPast
    <2>2. CASE d # p
      BY <2>2, <1>5 DEF IInv, NewsIsPast
    <2> QED BY <2>1, <2>2
  <1>10. FollowsNews'
    <2> SUFFICES ASSUME NEW d \in Consoles
                 PROVE  /\ taken[d] <= remote(d)'.acc
                        /\ \A k \in Kinds : shown[d][k] <= remote(d)'.made[k]
      BY <1>1 DEF FollowsNews
    <2>1. CASE Peer(d) = p
      <3>1. remote(d)' = old[n] /\ remote(d) = old[1] /\ 1 \in 1 .. Len(old)
        BY <2>1, <1>4, <1>5, RemoteIsState DEF IInv, remote
      <3>2. Ordered(old[1], old[n]) /\ old[1] \in States /\ old[n] \in States
        BY <1>2, <3>1 DEF IInv, NewsIsOrdered
      <3>3. taken[d] <= old[1].acc /\ \A k \in Kinds : shown[d][k] <= old[1].made[k]
        BY <3>1 DEF IInv, FollowsNews
      <3>4. taken[d] \in Nat /\ \A k \in Kinds : shown[d][k] \in Nat
        BY DEF IInv, TypeOK, Counts
      <3>5. /\ old[1].acc \in Nat /\ old[n].acc \in Nat
            /\ \A k \in Kinds : old[1].made[k] \in Nat /\ old[n].made[k] \in Nat
        BY <3>2 DEF States, Counts
      <3>6. old[1].acc <= old[n].acc /\ \A k \in Kinds : old[1].made[k] <= old[n].made[k]
        BY <3>2 DEF Ordered
      <3> HIDE DEF old
      <3>7. taken[d] <= old[n].acc
        BY <3>3, <3>4, <3>5, <3>6
      <3>8. \A k \in Kinds : shown[d][k] <= old[n].made[k]
        BY <3>3, <3>4, <3>5, <3>6
      <3> QED BY <3>1, <3>7, <3>8
    <2>2. CASE Peer(d) # p
      <3>1. remote(d)' = remote(d)
        BY <2>2, <1>5, PeerIsConsole DEF remote
      <3> QED BY <3>1 DEF IInv, FollowsNews
    <2> QED BY <2>1, <2>2
  <1>11. Balanced'
    BY <1>1 DEF IInv, Balanced
  <1> QED BY <1>7, <1>8, <1>9, <1>10, <1>11 DEF IInv

\* The strengthened invariant: states under way are true, and in order.
THEOREM Invariance == Spec => []IInv
  <1>1. IInv /\ [Next]_vars => IInv'
    <2> SUFFICES ASSUME IInv, [Next]_vars PROVE IInv'
      OBVIOUS
    <2>1. ASSUME NEW c \in Consoles, UpdateOwn(c) \/ \E e \in Effects : UpdateOwnHit(c, e)
          PROVE  IInv'
      BY <2>1, OwnKeepsIInv
    <2>2. ASSUME NEW c \in Consoles, UpdateRemote(c)
          PROVE  IInv'
      BY <2>2, RemoteKeepsIInv
    <2>3. ASSUME NEW c \in Consoles, Send(c)
          PROVE  IInv'
      BY <2>3, SendKeepsIInv
    <2>4. ASSUME NEW c \in Consoles, NEW n \in 2 .. Len(news[Peer(c)]), Receive(c, n)
          PROVE  IInv'
      BY <2>4, ReceiveKeepsIInv
    <2>5. CASE UNCHANGED vars
      BY <2>5 DEF vars, IInv, TypeOK, NewsIsOrdered, NewsIsPast, FollowsNews, Balanced, Ordered,
                  Current, remote
    <2> QED BY <2>1, <2>2, <2>3, <2>4, <2>5 DEF Next
  <1> QED BY InitIInv, <1>1, PTL DEF Spec

\* Type correctness of the synchronisation during a stage.
THEOREM TypeCorrect == Spec => []TypeOK
  BY Invariance, PTL DEF IInv

\* Each attack costs its damage once, and no damage is taken that was not dealt.
THEOREM DamageIsTakenOnce == Spec => []DamageOnce
  <1>1. IInv => DamageOnce
    <2> SUFFICES ASSUME IInv, NEW c \in Consoles
                 PROVE  health[c] = Start + gained[c] - taken[c] /\ taken[c] <= dealt[Peer(c)]
      BY DEF DamageOnce
    <2>1. /\ remote(c) \in States /\ taken[c] <= remote(c).acc
          /\ Ordered(remote(c), Current(Peer(c)))
      BY RemoteIsState, PeerIsConsole DEF IInv, FollowsNews, NewsIsPast
    <2> QED BY <2>1, PeerIsConsole DEF IInv, TypeOK, Balanced, Ordered, Current, States
  <1> QED BY <1>1, Invariance, PTL

\* No console shows a hit that was not made.
THEOREM HitsAreReal == Spec => []NoPhantomHits
  <1>1. IInv => NoPhantomHits
    <2> SUFFICES ASSUME IInv, NEW c \in Consoles, NEW k \in Kinds
                 PROVE  shown[c][k] <= made[Peer(c)][k]
      BY DEF NoPhantomHits
    <2>1. /\ remote(c) \in States /\ shown[c][k] <= remote(c).made[k]
          /\ Ordered(remote(c), Current(Peer(c)))
      BY RemoteIsState, PeerIsConsole DEF IInv, FollowsNews, NewsIsPast
    <2>2. remote(c).made[k] <= made[Peer(c)][k]
      BY <2>1 DEF Ordered, Current
    <2>3. shown[c] \in Counts /\ made[Peer(c)] \in Counts /\ remote(c).made \in Counts
      BY <2>1, PeerIsConsole DEF IInv, TypeOK, States
    <2>4. shown[c][k] \in Nat /\ made[Peer(c)][k] \in Nat /\ remote(c).made[k] \in Nat
      BY <2>3 DEF Counts
    <2> QED BY <2>1, <2>2, <2>4
  <1> QED BY <1>1, Invariance, PTL
=============================================================================
