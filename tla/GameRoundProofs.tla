-------------------------- MODULE GameRoundProofs --------------------------
(***************************************************************************)
(* Proofs about the stages of a session, for any number of stages, of      *)
(* times they are played again and of states under way; and, at the end,   *)
(* about the frame wait, on which the threads of both consoles rest.       *)
(***************************************************************************)
EXTENDS GameRound, FrameWait, TLAPS

\* in_game follows what runs on the console.
Phases == \A p \in Players :
  /\ where[p] \in {"menu", "leave"} => our[p].in_game = MENU
  /\ where[p] = "load"     => our[p].in_game = LOADING /\ try[p] = 0
  /\ where[p] = "barrier"  => our[p].in_game = LOADED /\ try[p] = 0
  /\ where[p] = "play"     => our[p].in_game \in {IN_GAME, ACKED}
  /\ where[p] = "tryagain" => our[p].in_game \in {ACKED, BACK, RETRY}
  /\ where[p] # "menu" => round[p] # 0

\* p has loaded the first stage of the session: it never has to again.
Loaded(p) == round[p] > 1 \/ (round[p] = 1 /\ where[p] # "load")

\* Every state of p, wherever it is, that says so is true.
Tells(p, s) == s.in_game >= LOADED => Loaded(p)
Truthful == \A p \in Players :
  /\ Tells(p, our[p])
  /\ Tells(p, remote[Peer(p)])
  /\ \A i \in DOMAIN underway[p] : Tells(p, underway[p][i])

Waited == \A p \in Players :
  round[p] = 1 /\ where[p] \in {"play", "tryagain"} => Loaded(Peer(p))

(***************************************************************************)
(* A mark says when player 0 was in a state: the stage, the try, and how   *)
(* far into it.  In the menus after a stage it is past every try.          *)
(***************************************************************************)
TOP == MaxTries + 1
Marks == [round : Nat, try : 0 .. TOP, rank : 0 .. 5]

NotAfter(m, n) ==
  \/ m.round < n.round
  \/ m.round = n.round /\ m.try < n.try
  \/ m.round = n.round /\ m.try = n.try /\ m.rank <= n.rank

Rank(s) == CASE s.in_game = MENU            -> 0
             [] s.in_game \in {BACK, RETRY} -> 5
             [] s.in_game = ACKED           -> 4
             [] OTHER                       -> s.in_game

\* The state s may have been made at m.
Fits(m, s) ==
  /\ m.rank = Rank(s)
  /\ m.try = TOP <=> s.in_game = MENU
  /\ s.in_game \in {LOADING, LOADED} => m.try = 0

\* Where player 0 is, and what player 1 has at least seen of it.
Now == [round |-> round[0], try |-> IF our[0].in_game = MENU THEN TOP ELSE try[0],
        rank |-> Rank(our[0])]
Known ==
  [round |-> round[1],
   try   |-> IF where[1] \in {"menu", "leave"} THEN TOP ELSE try[1],
   rank  |-> CASE where[1] = "play" /\ our[1].in_game = ACKED -> 3
               [] where[1] = "play" /\ our[1].in_game # ACKED -> 2
               [] where[1] = "tryagain"                       -> 4
               [] OTHER                                       -> 0]

\* The state player 1 holds, and those on their way to it.
Told(i) == IF i = 0 THEN remote[1] ELSE underway[0][i]
Tellings == 0 .. Len(underway[0])

Past(m) == NotAfter(m, Now) /\ (m.round = round[0] /\ m.try # TOP => m.try <= try[0])

\* They can be dated: in order, none in the future, none older than Known.
Dates(mark) ==
  /\ mark \in [Tellings -> Marks]
  /\ \A i \in Tellings : Fits(mark[i], Told(i)) /\ Past(mark[i])
  /\ \A i, j \in Tellings : i < j => NotAfter(mark[i], mark[j])
  /\ NotAfter(Known, mark[0])
Dated == \E mark : Dates(mark)

IInv == TypeOK /\ Phases /\ Truthful /\ Waited /\ Dated /\ FollowsPlayerOne

-----------------------------------------------------------------------------
LEMMA NotAfterTransitive ==
  ASSUME NEW l \in Marks, NEW m \in Marks, NEW n \in Marks, NotAfter(l, m), NotAfter(m, n)
  PROVE  NotAfter(l, n)
  BY DEF NotAfter, Marks

LEMMA NotAfterReflexive == \A m \in Marks : NotAfter(m, m)
  BY DEF NotAfter, Marks

LEMMA RankType == \A s \in States : Rank(s) \in 0 .. 5
  BY DEF Rank, States, MENU, BACK, RETRY, ACKED

LEMMA Bounds == MaxRounds \in Nat /\ MaxTries \in Nat /\ TOP \in Nat /\ TOP > MaxTries
  BY BoundsAssumption DEF TOP

LEMMA MarksType == TypeOK => Now \in Marks /\ Known \in Marks
  <1> SUFFICES ASSUME TypeOK PROVE Now \in Marks /\ Known \in Marks
    OBVIOUS
  <1>1. \A p \in Players : round[p] \in Nat /\ try[p] \in 0 .. TOP /\ our[p] \in States
    BY Bounds DEF TypeOK
  <1>2. 0 \in Players /\ 1 \in Players
    BY DEF Players
  <1>3. Rank(our[0]) \in 0 .. 5
    BY <1>1, <1>2, RankType
  <1>4. Now \in Marks
    BY <1>1, <1>2, <1>3, Bounds DEF Now, Marks
  <1>5. Known.rank \in 0 .. 5
    BY DEF Known
  <1>6. Known \in Marks
    BY <1>1, <1>2, <1>5, Bounds DEF Known, Marks
  <1>7. QED
    BY <1>4, <1>6

LEMMA MarksTypeNext == TypeOK' => Now' \in Marks /\ Known' \in Marks
  <1> DEFINE M == Now \in Marks /\ Known \in Marks
  <1>1. TypeOK => M
    BY MarksType
  <1> HIDE DEF M
  <1>2. TypeOK' => M'
    BY <1>1, PTL
  <1>3. QED
    BY <1>2 DEF M

\* What Send may do.
LEMMA SendFacts ==
  ASSUME TypeOK, NEW p \in Players, NEW t \in States, Send(p, t)
  PROVE  /\ our' = [our EXCEPT ![p] = t]
         /\ our' \in [Players -> States] /\ our'[p] = t
         /\ underway' \in [Players -> Seq(States)]
         /\ \A q \in Players : q # p => our'[q] = our[q] /\ underway'[q] = underway[q]
         /\ underway'[p] = underway[p] \/ underway'[p] = Append(underway[p], t)
  <1>1. underway[p] \in Seq(States) /\ our' = [our EXCEPT ![p] = t]
    BY DEF Send, TypeOK
  <1>2. underway' = underway \/ underway' = [underway EXCEPT ![p] = Append(@, t)]
    BY DEF Send
  <1>3. Append(underway[p], t) \in Seq(States)
    BY <1>1
  <1>4. QED
    BY <1>1, <1>2, <1>3 DEF TypeOK

LEMMA AcknowledgedFacts ==
  ASSUME NEW p \in Players, NEW s \in States
  PROVE  /\ Acknowledged(p, s) \in States
         /\ Acknowledged(p, s) = s
              \/ /\ s.in_game = IN_GAME /\ remote[p].in_game \in {IN_GAME, ACKED}
                 /\ Acknowledged(p, s).in_game = ACKED
  BY DEF Acknowledged, States, ACKED

LEMMA ShownFacts ==
  ASSUME NEW s \in States, NEW c \in {"BACK", "RETRY"}
  PROVE  Shown(s, c) \in States /\ Shown(s, c).in_game \in {BACK, RETRY}
  BY DEF Shown, States, BACK, RETRY

-----------------------------------------------------------------------------
\* What is told to player 1 can still be dated after each kind of step: of
\* player 0, who may send the state he is in ...
LEMMA DatedOfPlayerZero ==
  ASSUME TypeOK, TypeOK', Dated, UNCHANGED <<remote, Known>>,
         NotAfter(Now, Now'), Fits(Now', our'[0]),
         round'[0] = round[0] => try'[0] \in {try[0], try[0] + 1},
         underway'[0] = underway[0] \/ underway'[0] = Append(underway[0], our'[0])
  PROVE  Dated'
  <1>1. PICK mark : Dates(mark)
    BY DEF Dated
  <1>2. Now \in Marks /\ Now' \in Marks /\ Known \in Marks
    BY MarksType, MarksTypeNext
  <1>3. /\ underway[0] \in Seq(States) /\ underway'[0] \in Seq(States)
        /\ Len(underway[0]) \in Nat
    BY DEF TypeOK, Players
  <1>a. ASSUME NEW m \in Marks, Past(m) PROVE Past(m)'
    <2>1. NotAfter(m, Now')
      BY <1>2, <1>a, NotAfterTransitive DEF Past
    <2>2. CASE m.round = round'[0] /\ m.try # TOP
      <3>1. Now.round = round[0] /\ Now'.round = round'[0] /\ 0 \in Players
        BY DEF Now, Players
      <3>2. m.round <= round[0] /\ round[0] <= round'[0]
        BY <1>2, <1>a, <3>1 DEF Past, NotAfter, Marks
      <3>3. round'[0] = round[0] /\ m.try <= try[0] /\ try[0] \in Nat /\ m.try \in Nat
        BY <1>2, <1>a, <2>2, <3>1, <3>2, Bounds DEF Past, Marks, TypeOK
      <3>4. QED
        BY <2>1, <3>3 DEF Past
    <2>3. QED
      BY <2>1, <2>2 DEF Past
  <1>c. PICK now : now = Now'
    OBVIOUS
  <1>b. now \in Marks /\ Past(now)'
    <2>1. now.round = round'[0] /\ now.try \in {TOP, try'[0]} /\ try'[0] \in Nat
      BY <1>c, Bounds DEF Now, TypeOK, Players
    <2>2. NotAfter(now, now) /\ now \in Marks
      BY <1>2, <1>c, NotAfterReflexive
    <2>3. now.try # TOP => now.try <= try'[0]
      BY <2>1
    <2>4. QED
      BY <1>c, <2>2, <2>3 DEF Past
  <1>4. \A i \in Tellings : mark[i] \in Marks /\ Past(mark[i])'
    BY <1>1, <1>a DEF Dates
  <1>5. CASE underway'[0] = underway[0]
    <2>1. Tellings' = Tellings /\ \A i \in Tellings : Told(i)' = Told(i)
      BY <1>5 DEF Tellings, Told
    <2>2. Dates(mark)'
      BY <1>1, <1>4, <2>1 DEF Dates
    <2>3. QED
      BY <2>2 DEF Dated
  <1>6. CASE underway'[0] = Append(underway[0], our'[0])
    <2>a. PICK last \in Nat : last = Len(underway[0]) + 1
      BY <1>3
    <2>b. PICK next : next = [i \in Tellings' |-> IF i = last THEN now ELSE mark[i]]
      OBVIOUS
    <2>1. /\ Tellings' = Tellings \cup {last} /\ last \notin Tellings
          /\ \A i \in Tellings : i < last
      BY <1>3, <1>6, <2>a DEF Tellings
    <2>2. \A i \in Tellings : Told(i)' = Told(i)
      BY <1>3, <1>6 DEF Tellings, Told
    <2>3. Told(last)' = our'[0]
      BY <1>3, <1>6, <2>a DEF Told
    <2>4. next \in [Tellings' -> Marks] /\ next[last] = now
          /\ \A i \in Tellings : next[i] = mark[i]
      BY <1>b, <1>4, <2>1, <2>b
    <2>5. 0 \in Tellings
      BY <1>3 DEF Tellings
    <2>6. ASSUME NEW i \in Tellings' PROVE Fits(next[i], Told(i)') /\ Past(next[i])'
      BY <1>1, <1>4, <1>b, <1>c, <2>1, <2>2, <2>3, <2>4 DEF Dates
    <2>7. ASSUME NEW i \in Tellings', NEW j \in Tellings', i < j
          PROVE  NotAfter(next[i], next[j])
      <3>1. i \in Tellings
        <4>1. \A k \in Tellings' : ~(last < k)
          BY <1>3, <2>1, <2>a DEF Tellings
        <4>2. QED
          BY <2>1, <2>7, <4>1
      <3>2. QED
        BY <1>1, <1>4, <1>c, <2>1, <2>4, <2>7, <3>1 DEF Dates, Past
    <2>8. NotAfter(Known', next[0])
      BY <1>1, <2>4, <2>5 DEF Dates
    <2>9. Dates(next)'
      BY <2>4, <2>6, <2>7, <2>8 DEF Dates
    <2>10. QED
      BY <2>9 DEF Dated
  <1>7. QED
    BY <1>5, <1>6

\* ... of player 1, who may only move on as far as he has seen player 0 ...
LEMMA DatedOfPlayerOne ==
  ASSUME TypeOK, Dated, UNCHANGED <<remote[1], Now, round[0], try[0]>>, underway'[0] = underway[0],
         \A m \in Marks : Fits(m, remote[1]) /\ NotAfter(Known, m) => NotAfter(Known', m)
  PROVE  Dated'
  <1>1. PICK mark : Dates(mark)
    BY DEF Dated
  <1>2. Tellings' = Tellings /\ \A i \in Tellings : Told(i)' = Told(i)
    BY DEF Tellings, Told
  <1>3. 0 \in Tellings
    BY DEF TypeOK, Players, Tellings
  <1>4. mark[0] \in Marks /\ Fits(mark[0], remote[1]) /\ NotAfter(Known, mark[0])
    BY <1>1, <1>3 DEF Dates, Told
  <1>5. NotAfter(Known', mark[0])
    BY <1>4
  <1>6. Dates(mark)'
    BY <1>1, <1>2, <1>5 DEF Dates, Past
  <1>7. QED
    BY <1>6 DEF Dated

\* ... and when he receives one of the states, and the older ones are lost.
LEMMA DatedOfReceive ==
  ASSUME TypeOK, Dated, UNCHANGED <<Now, Known, round, try>>, NEW i \in DOMAIN underway[0],
         remote'[1] = underway[0][i],
         underway'[0] = SubSeq(underway[0], i + 1, Len(underway[0]))
  PROVE  Dated'
  <1>1. PICK mark : Dates(mark)
    BY DEF Dated
  <1>2. /\ underway[0] \in Seq(States) /\ Len(underway[0]) \in Nat
        /\ i \in 1 .. Len(underway[0]) /\ 0 \in Tellings
    BY DEF TypeOK, Players, Tellings
  <1>3. PICK next : next = [j \in Tellings' |-> mark[i + j]]
    OBVIOUS
  <1>4. Len(underway'[0]) = Len(underway[0]) - i
    BY <1>2
  <1>5. Tellings' = 0 .. Len(underway[0]) - i /\ 0 \in Tellings'
    BY <1>2, <1>4 DEF Tellings
  <1>6. ASSUME NEW j \in Tellings' PROVE i + j \in Tellings /\ Told(j)' = Told(i + j)
    <2>1. i + j \in Tellings /\ i + j # 0
      BY <1>2, <1>5 DEF Tellings
    <2>2. CASE j = 0
      BY <1>2, <2>1, <2>2 DEF Told
    <2>3. CASE j # 0
      <3>1. j \in 1 .. Len(underway[0]) - i
        BY <1>2, <1>5, <2>3
      <3>2. underway'[0][j] = underway[0][i + j]
        BY <1>2, <3>1
      <3>3. QED
        BY <2>1, <2>3, <3>2 DEF Told
    <2>4. QED
      BY <2>1, <2>2, <2>3
  <1>7. next \in [Tellings' -> Marks] /\ \A j \in Tellings' : next[j] = mark[i + j]
    BY <1>1, <1>3, <1>6 DEF Dates
  <1>8. \A j \in Tellings' : Fits(next[j], Told(j)') /\ Past(next[j])'
    BY <1>1, <1>6, <1>7 DEF Dates, Past
  <1>9. ASSUME NEW j \in Tellings', NEW k \in Tellings', j < k
        PROVE  NotAfter(next[j], next[k])
    <2>1. i + j < i + k
      BY <1>2, <1>5, <1>9
    <2>2. QED
      BY <1>1, <1>6, <1>7, <2>1 DEF Dates
  <1>10. NotAfter(Known', next[0])
    <2>1. i \in Tellings /\ 0 < i /\ next[0] = mark[i]
      BY <1>2, <1>5, <1>6, <1>7
    <2>2. NotAfter(Known, mark[0]) /\ NotAfter(mark[0], mark[i])
      BY <1>1, <1>2, <2>1 DEF Dates
    <2>3. mark[0] \in Marks /\ mark[i] \in Marks /\ Known \in Marks
      BY <1>1, <1>2, <2>1, MarksType DEF Dates
    <2>4. QED
      BY <2>1, <2>2, <2>3, NotAfterTransitive
  <1>11. Dates(next)'
    BY <1>7, <1>8, <1>9, <1>10 DEF Dates
  <1>12. QED
    BY <1>11 DEF Dated

-----------------------------------------------------------------------------
LEMMA Two == Players = {0, 1} /\ Peer(0) = 1 /\ Peer(1) = 0
             /\ \A p \in Players : Peer(p) \in Players /\ Peer(p) # p
  BY DEF Players, Peer

LEMMA FitsNow == TypeOK /\ Phases => Fits(Now, our[0])
  <1> SUFFICES ASSUME TypeOK, Phases PROVE Fits(Now, our[0])
    OBVIOUS
  <1>1. try[0] \in Nat /\ try[0] # TOP
    BY Bounds, Two DEF TypeOK
  <1>2. our[0].in_game \in {LOADING, LOADED} => try[0] = 0
    BY Two DEF Phases, TypeOK, MENU, LOADING, LOADED, IN_GAME, ACKED, BACK, RETRY
  <1>3. QED
    BY <1>1, <1>2 DEF Fits, Now, MENU, LOADING, LOADED

LEMMA FitsNowNext == TypeOK' /\ Phases' => Fits(Now', our'[0])
  <1> DEFINE F == Fits(Now, our[0])
  <1>1. TypeOK /\ Phases => F
    BY FitsNow
  <1> HIDE DEF F
  <1>2. TypeOK' /\ Phases' => F'
    BY <1>1, PTL
  <1>3. QED
    BY <1>2 DEF F

\* States stay true, and a true one may be sent.
LEMMA TruthOfSend ==
  ASSUME TypeOK, Truthful, NEW p \in Players, NEW t \in States, Send(p, t), UNCHANGED remote,
         t.in_game >= LOADED => Loaded(p)',
         \A q \in Players : Loaded(q) => Loaded(q)'
  PROVE  Truthful'
  <1> SUFFICES ASSUME NEW q \in Players
               PROVE  /\ Tells(q, our[q])'
                      /\ Tells(q, remote[Peer(q)])'
                      /\ \A i \in DOMAIN underway'[q] : Tells(q, underway[q][i])'
    BY DEF Truthful
  <1>1. Tells(q, remote[Peer(q)])'
    BY DEF Truthful, Tells
  <1>2. Tells(q, our[q])'
    BY SendFacts DEF Truthful, Tells
  <1>3. underway[q] \in Seq(States)
    BY DEF TypeOK
  <1>4. CASE underway'[q] = underway[q]
    BY <1>1, <1>2, <1>4 DEF Truthful, Tells
  <1>5. CASE q = p /\ underway'[q] = Append(underway[q], t)
    <2>1. \A i \in DOMAIN underway'[q] :
            underway'[q][i] = t \/ (i \in DOMAIN underway[q] /\ underway'[q][i] = underway[q][i])
      BY <1>3, <1>5
    <2>2. QED
      BY <1>1, <1>2, <1>5, <2>1 DEF Truthful, Tells
  <1>6. QED
    BY <1>4, <1>5, SendFacts

LEMMA TruthOfChange ==
  ASSUME Truthful, NEW p \in Players, UNCHANGED <<remote, underway>>,
         our'[p].in_game >= LOADED => Loaded(p)',
         \A q \in Players : q # p => our'[q] = our[q],
         \A q \in Players : Loaded(q) => Loaded(q)'
  PROVE  Truthful'
  BY DEF Truthful, Tells

\* When the state player 1 holds was made.
LEMMA SeenMark ==
  ASSUME TypeOK, Dated
  PROVE  \E m \in Marks : Fits(m, remote[1]) /\ NotAfter(Known, m) /\ Past(m)
  <1>1. PICK mark : Dates(mark)
    BY DEF Dated
  <1>2. 0 \in Tellings
    BY Two DEF TypeOK, Tellings
  <1>3. QED
    BY <1>1, <1>2 DEF Dates, Told

LEMMA InitInvariant == Init => IInv
  <1> SUFFICES ASSUME Init PROVE IInv
    OBVIOUS
  <1>1. PICK ready \in BOOLEAN : remote = [our EXCEPT ![0].mm_ready = ready]
    BY DEF Init
  <1>2. \A p \in Players : our[p] \in States /\ our[p].in_game = MENU
    BY DEF Init, States, MENU
  <1>3. remote \in [Players -> States] /\ \A p \in Players : remote[p].in_game = MENU
    BY <1>1, <1>2 DEF Init, States, Players
  <1>4. TypeOK
    BY <1>2, <1>3, Bounds, Two DEF Init, TypeOK, MENU, BACK, RETRY
  <1>5. Phases /\ Waited /\ FollowsPlayerOne
    BY <1>2, Two DEF Init, Phases, Waited, FollowsPlayerOne
  <1>6. Truthful
    BY <1>2, <1>3, Two DEF Init, Truthful, Tells, MENU, LOADED
  <1>7. Dated
    <2>1. Tellings = {0} /\ Told(0) = remote[1]
      BY Two DEF Init, Tellings, Told
    <2>2. PICK mark : mark = [i \in Tellings |-> Now]
      OBVIOUS
    <2>3. Known = Now /\ Now \in Marks
      <3>1. 0 \in Players /\ 1 \in Players
        BY Two
      <3>2. our[0].in_game = MENU /\ Rank(our[0]) = 0
        BY <1>2, <3>1 DEF Rank, MENU, BACK, RETRY, ACKED
      <3>3. round[0] = 0 /\ round[1] = 0 /\ where[1] = "menu"
        BY <3>1 DEF Init
      <3>4. Now = [round |-> 0, try |-> TOP, rank |-> 0]
        BY <3>2, <3>3 DEF Now
      <3>5. Known = [round |-> 0, try |-> TOP, rank |-> 0]
        BY <3>3 DEF Known
      <3>6. QED
        BY <1>4, <3>4, <3>5, MarksType
    <2>4. Fits(Now, Told(0)) /\ Past(Now) /\ NotAfter(Now, Now)
      <3>1. Now.rank = Rank(our[0]) /\ Now.try = TOP /\ our[0].in_game = MENU
        BY <1>2, Two DEF Now
      <3>2. Rank(our[0]) = 0 /\ remote[1].in_game = MENU /\ Rank(remote[1]) = 0
        BY <1>3, <3>1, Two DEF Rank, MENU, BACK, RETRY, ACKED
      <3>3. QED
        BY <2>1, <2>3, <3>1, <3>2, NotAfterReflexive DEF Fits, Past, MENU, LOADING, LOADED
    <2>5. Dates(mark)
      BY <2>1, <2>2, <2>3, <2>4 DEF Dates
    <2>6. QED
      BY <2>5 DEF Dated
  <1>8. QED
    BY <1>4, <1>5, <1>6, <1>7 DEF IInv

\* A step in which console p sends a state, and what is left to show of it.
LEMMA SendingStep ==
  ASSUME IInv, TypeOK', Phases', UNCHANGED remote,
         NEW p \in Players, NEW t \in States, Send(p, t),
         t.in_game >= LOADED => Loaded(p)',
         \A q \in Players : Loaded(q) => Loaded(q)',
         \A q \in Players :
           round'[q] = round[q] => try'[q] = try[q] \/ (q = p /\ try'[q] = try[q] + 1),
         \A q \in Players : q # p => round'[q] = round[q],
         Waited', FollowsPlayerOne',
         p = 0 => UNCHANGED Known /\ NotAfter(Now, Now'),
         p = 1 => /\ UNCHANGED Now
                  /\ \A m \in Marks :
                       Fits(m, remote[1]) /\ NotAfter(Known, m) => NotAfter(Known', m)
  PROVE  IInv'
  <1>1. Truthful'
    BY TruthOfSend DEF IInv
  <1>2. underway'[0] = underway[0] \/ underway'[0] = Append(underway[0], our'[0])
    BY SendFacts, Two DEF IInv
  <1>3. Fits(Now', our'[0])
    BY FitsNowNext
  <1>4. Dated'
    <2>1. CASE p = 0
      <3>1. /\ UNCHANGED <<remote, Known>> /\ NotAfter(Now, Now')
            /\ round'[0] = round[0] => try'[0] \in {try[0], try[0] + 1}
        BY <2>1, Two
      <3>2. QED
        BY <1>2, <1>3, <3>1, DatedOfPlayerZero DEF IInv
    <2>2. CASE p = 1
      <3>1. UNCHANGED <<remote, Now, round[0], try[0]>> /\ underway'[0] = underway[0]
        BY <2>2, SendFacts, Two DEF IInv
      <3>2. QED
        BY <2>2, <3>1, DatedOfPlayerOne DEF IInv
    <2>3. QED
      BY <2>1, <2>2, Two
  <1>5. QED
    BY <1>1, <1>4 DEF IInv

\* A step of console p that sends nothing.
LEMMA QuietStep ==
  ASSUME IInv, TypeOK', Phases', UNCHANGED <<remote, underway>>,
         NEW p \in Players, \A q \in Players : q # p => our'[q] = our[q],
         our'[p].in_game >= LOADED => Loaded(p)',
         \A q \in Players : Loaded(q) => Loaded(q)',
         \A q \in Players :
           round'[q] = round[q] => try'[q] = try[q] \/ (q = p /\ try'[q] = try[q] + 1),
         \A q \in Players : q # p => round'[q] = round[q],
         Waited', FollowsPlayerOne',
         p = 0 => UNCHANGED Known /\ NotAfter(Now, Now'),
         p = 1 => /\ UNCHANGED Now
                  /\ \A m \in Marks :
                       Fits(m, remote[1]) /\ NotAfter(Known, m) => NotAfter(Known', m)
  PROVE  IInv'
  <1>1. Truthful'
    BY TruthOfChange DEF IInv
  <1>2. Fits(Now', our'[0])
    BY FitsNowNext
  <1>3. Dated'
    <2>1. CASE p = 0
      <3>1. /\ UNCHANGED <<remote, Known>> /\ NotAfter(Now, Now')
            /\ round'[0] = round[0] => try'[0] \in {try[0], try[0] + 1}
        BY <2>1, Two
      <3>2. QED
        BY <1>2, <3>1, DatedOfPlayerZero DEF IInv
    <2>2. CASE p = 1
      <3>1. UNCHANGED <<remote, Now, round[0], try[0]>>
        BY <2>2, Two
      <3>2. QED
        BY <2>2, <3>1, DatedOfPlayerOne DEF IInv
    <2>3. QED
      BY <2>1, <2>2, Two
  <1>4. QED
    BY <1>1, <1>3 DEF IInv

-----------------------------------------------------------------------------
\* The actions.  A frame of a stage may turn IN_GAME into ACKED.
LEMMA FrameInvariant == ASSUME IInv, NEW p \in Players, Frame(p) PROVE IInv'
  <1> USE DEF IInv
  <1>1. PICK t : t = Acknowledged(p, our[p])
    OBVIOUS
  <1>2. our[p] \in States
    BY DEF TypeOK
  <1>3. /\ t \in States /\ Send(p, t)
        /\ t = our[p] \/ (/\ our[p].in_game = IN_GAME /\ t.in_game = ACKED
                          /\ remote[p].in_game \in {IN_GAME, ACKED})
    BY <1>1, <1>2, AcknowledgedFacts DEF Frame
  <1>4. /\ our' = [our EXCEPT ![p] = t] /\ our'[p] = t
        /\ our' \in [Players -> States] /\ underway' \in [Players -> Seq(States)]
        /\ \A q \in Players : q # p => our'[q] = our[q]
    BY <1>3, SendFacts
  <1>5. where[p] \in {"load", "play", "tryagain", "leave"}
        /\ UNCHANGED <<where, remote, cursor, round, try>>
    BY DEF Frame
  <1>6. our[p].in_game = IN_GAME => where[p] = "play"
    BY <1>5, Two
    DEF Phases, MENU, LOADING, LOADED, IN_GAME, ACKED, BACK, RETRY
  <1>7. \A q \in Players : Loaded(q)' = Loaded(q)
    BY <1>5 DEF Loaded
  <1>8. TypeOK'
    BY <1>3, <1>4, <1>5, <1>6 DEF TypeOK, ACKED, BACK, RETRY
  <1>9. Phases' /\ Waited' /\ FollowsPlayerOne'
    <2>1. Phases'
      BY <1>3, <1>4, <1>5, <1>6 DEF Phases
    <2>2. Waited' /\ FollowsPlayerOne'
      BY <1>5, <1>7, Two DEF Waited, FollowsPlayerOne
    <2>3. QED
      BY <2>1, <2>2
  <1>10. t.in_game >= LOADED => Loaded(p)'
    <2>1. our[p].in_game = IN_GAME => our[p].in_game >= LOADED
      BY DEF IN_GAME, LOADED
    <2>2. QED
      BY <1>3, <1>7, <2>1 DEF Truthful, Tells
  <1>11. p = 0 => UNCHANGED Known /\ NotAfter(Now, Now')
    <2>1. SUFFICES ASSUME p = 0 PROVE UNCHANGED Known /\ NotAfter(Now, Now')
      OBVIOUS
    <2>2. UNCHANGED Known
      BY <1>4, <1>5, <2>1, Two DEF Known
    <2>3. CASE t = our[p]
      BY <1>4, <1>5, <2>1, <2>3, MarksType, NotAfterReflexive DEF Now
    <2>4. CASE our[p].in_game = IN_GAME /\ t.in_game = ACKED
      <3>1. our'[0] = t /\ round'[0] = round[0] /\ try'[0] = try[0]
        BY <1>4, <1>5, <2>1
      <3>2. Rank(our[0]) = 3 /\ Rank(our'[0]) = 4
        BY <2>1, <2>4, <3>1 DEF Rank, MENU, IN_GAME, ACKED, BACK, RETRY
      <3>3. QED
        BY <2>1, <2>2, <2>4, <3>1, <3>2 DEF Now, NotAfter, MENU, IN_GAME, ACKED
    <2>5. QED
      BY <1>3, <2>2, <2>3, <2>4
  <1>12. p = 1 => /\ UNCHANGED Now
                  /\ \A m \in Marks :
                       Fits(m, remote[1]) /\ NotAfter(Known, m) => NotAfter(Known', m)
    <2>1. SUFFICES ASSUME p = 1, NEW m \in Marks, Fits(m, remote[1]), NotAfter(Known, m)
                   PROVE UNCHANGED Now /\ NotAfter(Known', m)
      BY <1>4, <1>5, Two DEF Now
    <2>2. UNCHANGED Now
      BY <1>4, <1>5, <2>1, Two DEF Now
    <2>3. CASE t = our[p]
      <3>1. our'[1] = our[1]
        BY <1>4, <2>1, <2>3
      <3>2. UNCHANGED Known
        BY <1>5, <3>1 DEF Known
      <3>3. QED
        BY <2>1, <2>2, <3>2
    <2>4. CASE our[p].in_game = IN_GAME /\ t.in_game = ACKED
               /\ remote[p].in_game \in {IN_GAME, ACKED}
      <3>1. m.rank \in {3, 4}
        BY <2>1, <2>4 DEF Fits, Rank, MENU, IN_GAME, ACKED, BACK, RETRY
      <3>2. Known'.round = Known.round /\ Known'.try = Known.try
            /\ Known.rank = 2 /\ Known'.rank = 3
        BY <1>4, <1>5, <1>6, <2>1, <2>4 DEF Known, IN_GAME, ACKED
      <3>3. QED
        BY <2>1, <2>2, <3>1, <3>2, MarksType DEF NotAfter, Marks
    <2>5. QED
      BY <1>3, <2>2, <2>3, <2>4
  <1>13. QED
    BY <1>3, <1>5, <1>7, <1>8, <1>9, <1>10, <1>11, <1>12, SendingStep

\* A step that leaves Known, or Now, as it is.
LEMMA NothingNew ==
  ASSUME TypeOK, UNCHANGED <<where, round, try>>, NEW p \in Players,
         our'[p].in_game = our[p].in_game, \A q \in Players : q # p => our'[q] = our[q]
  PROVE  UNCHANGED <<Now, Known>> /\ NotAfter(Now, Now')
  <1>1. our'[0].in_game = our[0].in_game /\ our'[1].in_game = our[1].in_game
    BY Two
  <1>2. Rank(our'[0]) = Rank(our[0])
    BY <1>1 DEF Rank
  <1>3. UNCHANGED <<Now, Known>>
    BY <1>1, <1>2 DEF Now, Known
  <1>4. QED
    BY <1>3, MarksType, NotAfterReflexive

\* The frames of the menus.
LEMMA MenuFrameInvariant == ASSUME IInv, NEW p \in Players, MenuFrame(p) PROVE IInv'
  <1> USE DEF IInv
  <1>1. PICK t \in States : Send(p, t) /\ t.in_game = MENU
    BY DEF MenuFrame, States, MENU
  <1>2. where[p] = "menu" /\ UNCHANGED <<where, remote, cursor, round, try>>
    BY DEF MenuFrame
  <1>3. /\ our' = [our EXCEPT ![p] = t] /\ our'[p] = t
        /\ our' \in [Players -> States] /\ underway' \in [Players -> Seq(States)]
        /\ \A q \in Players : q # p => our'[q] = our[q]
    BY <1>1, SendFacts
  <1>4. our[p].in_game = MENU /\ \A q \in Players : Loaded(q)' = Loaded(q)
    BY <1>2 DEF Loaded, Phases
  <1>5. TypeOK'
    BY <1>1, <1>2, <1>3 DEF TypeOK, MENU, BACK, RETRY
  <1>6. Phases'
    BY <1>1, <1>2, <1>3 DEF Phases
  <1>7. Waited' /\ FollowsPlayerOne'
    BY <1>2, <1>4, Two DEF Waited, FollowsPlayerOne
  <1>8. UNCHANGED <<Now, Known>> /\ NotAfter(Now, Now')
    BY <1>1, <1>2, <1>3, <1>4, NothingNew
  <1>9. ~(t.in_game >= LOADED)
    BY <1>1 DEF MENU, LOADED
  <1>10. QED
    BY <1>1, <1>2, <1>4, <1>5, <1>6, <1>7, <1>8, <1>9, SendingStep

\* The frames at the barrier.
LEMMA WaitInvariant == ASSUME IInv, NEW p \in Players, Wait(p) PROVE IInv'
  <1> USE DEF IInv
  <1>1. /\ Send(p, our[p]) /\ our[p] \in States /\ where[p] = "barrier"
        /\ UNCHANGED <<where, remote, cursor, round, try>>
    BY DEF Wait, TypeOK
  <1>2. our' = our /\ underway' \in [Players -> Seq(States)]
    BY <1>1, SendFacts DEF TypeOK
  <1>3. TypeOK'
    BY <1>1, <1>2 DEF TypeOK
  <1>4. \A q \in Players : Loaded(q)' = Loaded(q)
    BY <1>1 DEF Loaded
  <1>5. Phases' /\ Waited' /\ FollowsPlayerOne'
    BY <1>1, <1>2, <1>4, Two DEF Phases, Waited, FollowsPlayerOne
  <1>6. UNCHANGED <<Now, Known>> /\ NotAfter(Now, Now')
    BY <1>1, <1>2, NothingNew
  <1>7. our[p].in_game >= LOADED => Loaded(p)'
    BY <1>4 DEF Truthful, Tells
  <1>8. QED
    BY <1>1, <1>3, <1>4, <1>5, <1>6, <1>7, SendingStep

\* Player 1 enters a stage that player 0 has entered.
LEMMA StartStageInvariant == ASSUME IInv, NEW p \in Players, StartStage(p) PROVE IInv'
  <1> USE DEF IInv
  <1>1. PICK t : t = [our[p] EXCEPT !.in_game = LOADING]
    OBVIOUS
  <1>2. t \in States /\ t.in_game = LOADING /\ Send(p, t)
    <2>1. our[p] \in States /\ Send(p, t)
      BY <1>1 DEF StartStage, TypeOK
    <2>2. QED
      BY <1>1, <2>1 DEF States, LOADING
  <1>3. /\ our' = [our EXCEPT ![p] = t] /\ our'[p] = t
        /\ our' \in [Players -> States] /\ underway' \in [Players -> Seq(States)]
        /\ \A q \in Players : q # p => our'[q] = our[q]
    BY <1>2, SendFacts
  <1>4. /\ where[p] = "menu" /\ our[p].in_game = MENU /\ MayStart(p)
        /\ where' = [where EXCEPT ![p] = "load"]
        /\ round' = [round EXCEPT ![p] = @ + 1] /\ try' = [try EXCEPT ![p] = 0]
        /\ UNCHANGED <<remote, cursor>>
        /\ round[p] \in Nat /\ round[p] < MaxRounds
    BY Bounds DEF StartStage, TypeOK, Phases
  <1>a. /\ where'[p] = "load" /\ round'[p] = round[p] + 1 /\ try'[p] = 0
        /\ \A q \in Players : q # p => /\ where'[q] = where[q] /\ round'[q] = round[q]
                                       /\ try'[q] = try[q]
    BY <1>4 DEF TypeOK
  <1>b. \A q \in Players :
          /\ round'[q] = round[q] => try'[q] = try[q] \/ (q = p /\ try'[q] = try[q] + 1)
          /\ q # p => round'[q] = round[q]
    BY <1>4, <1>a
  <1>5. \A q \in Players : Loaded(q) => Loaded(q)'
    BY <1>4, Bounds DEF Loaded, TypeOK
  <1>6. TypeOK'
    <2>1. round[p] + 1 \in 0 .. MaxRounds /\ 0 \in 0 .. MaxTries
      BY <1>4, Bounds
    <2>2. where' \in [Players -> {"menu", "load", "barrier", "play", "tryagain", "leave"}]
      BY <1>4 DEF TypeOK
    <2>3. round' \in [Players -> 0 .. MaxRounds] /\ try' \in [Players -> 0 .. MaxTries]
      BY <1>4, <2>1 DEF TypeOK
    <2>4. \A q \in Players :
            our'[q].in_game \in {BACK, RETRY} \/ cursor'[q] # "NONE" => where'[q] = "tryagain"
      BY <1>2, <1>3, <1>4 DEF TypeOK, LOADING, BACK, RETRY
    <2>5. QED
      BY <1>3, <1>4, <2>2, <2>3, <2>4 DEF TypeOK
  <1>7. Phases'
    BY <1>2, <1>3, <1>4, <1>a DEF Phases
  <1>8. Waited'
    BY <1>a, <1>5, Two DEF Waited
  <1>9. ~(t.in_game >= LOADED)
    BY <1>2 DEF LOADING, LOADED
  <1>10. CASE p = 0
    <2>1. UNCHANGED Known /\ FollowsPlayerOne'
      BY <1>3, <1>4, <1>10, Two, Bounds DEF Known, FollowsPlayerOne, TypeOK
    <2>2. NotAfter(Now, Now')
      <3>1. round'[0] = round[0] + 1 /\ round[0] \in Nat
        BY <1>4, <1>a, <1>10
      <3>2. QED
        BY <3>1 DEF NotAfter, Now
    <2>3. QED
      BY <1>2, <1>4, <1>5, <1>b, <1>6, <1>7, <1>8, <1>9, <1>10, <2>1, <2>2, SendingStep
  <1>11. CASE p = 1
    <2>1. UNCHANGED Now /\ remote[1].in_game # MENU
      <3>1. remote[1].in_game > MENU
        BY <1>4, <1>11 DEF MayStart
      <3>2. our'[0] = our[0] /\ round'[0] = round[0] /\ try'[0] = try[0]
        BY <1>3, <1>4, <1>11, Two
      <3>3. QED
        BY <3>1, <3>2 DEF Now, MENU
    <2>2. ASSUME NEW m \in Marks, Fits(m, remote[1]), NotAfter(Known, m)
          PROVE  m.round >= round[1] + 1 /\ NotAfter(Known', m)
      <3>1. m.try # TOP /\ Known.round = round[1] /\ Known.try = TOP
        BY <1>4, <1>11, <2>1, <2>2 DEF Fits, Known
      <3>2. m.round >= round[1] + 1
        BY <1>4, <1>11, <2>2, <3>1, Bounds DEF NotAfter, Marks
      <3>3. Known' = [round |-> round[1] + 1, try |-> 0, rank |-> 0]
        BY <1>a, <1>11 DEF Known
      <3>4. QED
        BY <1>4, <1>11, <3>2, <3>3 DEF NotAfter, Marks
    <2>3. FollowsPlayerOne'
      <3>1. PICK m \in Marks : Fits(m, remote[1]) /\ NotAfter(Known, m) /\ Past(m)
        BY SeenMark
      <3>2. m.round >= round[1] + 1 /\ m.round <= round[0]
        <4>1. Now.round = round[0] /\ round[0] \in Nat
          BY Two, Bounds DEF Now, TypeOK
        <4>2. QED
          BY <2>2, <3>1, <4>1 DEF Past, NotAfter, Marks
      <3>3. QED
        BY <1>4, <1>a, <1>11, <3>2, Two, Bounds DEF FollowsPlayerOne, TypeOK, Marks
    <2>4. QED
      BY <1>2, <1>4, <1>5, <1>b, <1>6, <1>7, <1>8, <1>9, <1>11, <2>1, <2>2, <2>3, SendingStep
  <1>12. QED
    BY <1>10, <1>11, Two

\* Loading ends.
LEMMA FinishLoadingInvariant == ASSUME IInv, NEW p \in Players, FinishLoading(p) PROVE IInv'
  <1> USE DEF IInv
  <1>1. PICK t : t = [our[p] EXCEPT !.in_game = LOADED]
    OBVIOUS
  <1>2. t \in States /\ t.in_game = LOADED /\ Send(p, t)
    <2>1. our[p] \in States /\ Send(p, t)
      BY <1>1 DEF FinishLoading, TypeOK
    <2>2. QED
      BY <1>1, <2>1 DEF States, LOADED
  <1>3. /\ our' = [our EXCEPT ![p] = t] /\ our'[p] = t
        /\ our' \in [Players -> States] /\ underway' \in [Players -> Seq(States)]
        /\ \A q \in Players : q # p => our'[q] = our[q]
    BY <1>2, SendFacts
  <1>4. /\ where[p] = "load" /\ our[p].in_game = LOADING /\ try[p] = 0
        /\ where' = [where EXCEPT ![p] = "barrier"] /\ where'[p] = "barrier"
        /\ \A q \in Players : q # p => where'[q] = where[q]
        /\ UNCHANGED <<remote, cursor, round, try>>
    BY DEF FinishLoading, TypeOK, Phases
  <1>5. \A q \in Players : Loaded(q) => Loaded(q)'
    BY <1>4 DEF Loaded
  <1>6. TypeOK'
    BY <1>2, <1>3, <1>4 DEF TypeOK, LOADED, BACK, RETRY
  <1>7. Phases'
    BY <1>2, <1>3, <1>4 DEF Phases
  <1>8. Waited' /\ FollowsPlayerOne'
    BY <1>4, <1>5, Two DEF Waited, FollowsPlayerOne
  <1>9. Loaded(p)'
    <2>1. round[p] \in Nat /\ round[p] # 0
      BY <1>4, Bounds DEF TypeOK, Phases
    <2>2. QED
      BY <1>4, <2>1 DEF Loaded
  <1>10. p = 0 => UNCHANGED Known /\ NotAfter(Now, Now')
    <2>1. SUFFICES ASSUME p = 0 PROVE UNCHANGED Known /\ NotAfter(Now, Now')
      OBVIOUS
    <2>2. Rank(our[0]) = 1 /\ Rank(our'[0]) = 2
      BY <1>2, <1>3, <1>4, <2>1 DEF Rank, MENU, LOADING, LOADED, ACKED, BACK, RETRY
    <2>3. UNCHANGED Known
      BY <1>3, <1>4, <2>1, Two DEF Known
    <2>4. QED
      BY <1>2, <1>3, <1>4, <2>1, <2>2, <2>3 DEF Now, NotAfter, MENU, LOADING, LOADED
  <1>11. p = 1 => UNCHANGED <<Now, Known>>
    BY <1>3, <1>4, Two DEF Now, Known
  <1>12. QED
    BY <1>2, <1>4, <1>5, <1>6, <1>7, <1>8, <1>9, <1>10, <1>11, SendingStep

\* The peer has loaded.
LEMMA PassBarrierInvariant == ASSUME IInv, NEW p \in Players, PassBarrier(p) PROVE IInv'
  <1> USE DEF IInv
  <1>1. PICK s : s = [our[p] EXCEPT !.in_game = IN_GAME]
    OBVIOUS
  <1>2. PICK t : t = Acknowledged(p, s)
    OBVIOUS
  <1>3. /\ t \in States /\ Send(p, t) /\ t.in_game \in {IN_GAME, ACKED}
        /\ t.in_game = ACKED => remote[p].in_game \in {IN_GAME, ACKED}
    <2>1. our[p] \in States /\ Send(p, t)
      BY <1>1, <1>2 DEF PassBarrier, TypeOK
    <2>2. s \in States /\ s.in_game = IN_GAME
      BY <1>1, <2>1 DEF States, IN_GAME
    <2>3. QED
      BY <1>2, <2>1, <2>2, AcknowledgedFacts DEF IN_GAME, ACKED
  <1>4. /\ our' = [our EXCEPT ![p] = t] /\ our'[p] = t
        /\ our' \in [Players -> States] /\ underway' \in [Players -> Seq(States)]
        /\ \A q \in Players : q # p => our'[q] = our[q]
    BY <1>3, SendFacts
  <1>5. /\ where[p] = "barrier" /\ our[p].in_game = LOADED /\ try[p] = 0
        /\ remote[p].in_game >= LOADED
        /\ where' = [where EXCEPT ![p] = "play"] /\ where'[p] = "play"
        /\ \A q \in Players : q # p => where'[q] = where[q]
        /\ UNCHANGED <<remote, cursor, round, try>>
    BY DEF PassBarrier, TypeOK, Phases
  <1>6. \A q \in Players : Loaded(q)' = Loaded(q)
    BY <1>5 DEF Loaded
  <1>7. TypeOK'
    BY <1>3, <1>4, <1>5 DEF TypeOK, IN_GAME, ACKED, BACK, RETRY
  <1>8. Phases'
    BY <1>3, <1>4, <1>5 DEF Phases
  <1>9. Waited' /\ FollowsPlayerOne'
    <2>1. Loaded(Peer(p))
      <3>1. Peer(Peer(p)) = p
        BY Two
      <3>2. QED
        BY <1>5, <3>1, Two DEF Truthful, Tells
    <2>2. Waited'
      BY <1>5, <1>6, <2>1, Two DEF Waited
    <2>3. QED
      BY <1>5, <2>2 DEF FollowsPlayerOne
  <1>10. Loaded(p)'
    BY <1>5, <1>6 DEF Truthful, Tells, LOADED
  <1>11. p = 0 => UNCHANGED Known /\ NotAfter(Now, Now')
    <2>1. SUFFICES ASSUME p = 0 PROVE UNCHANGED Known /\ NotAfter(Now, Now')
      OBVIOUS
    <2>2. Rank(our[0]) = 2 /\ Rank(our'[0]) \in {3, 4}
      BY <1>3, <1>4, <1>5, <2>1 DEF Rank, MENU, LOADED, IN_GAME, ACKED, BACK, RETRY
    <2>3. UNCHANGED Known
      BY <1>4, <1>5, <2>1, Two DEF Known
    <2>4. QED
      BY <1>3, <1>4, <1>5, <2>1, <2>2, <2>3 DEF Now, NotAfter, MENU, LOADED, IN_GAME, ACKED
  <1>12. p = 1 => /\ UNCHANGED Now
                  /\ \A m \in Marks :
                       Fits(m, remote[1]) /\ NotAfter(Known, m) => NotAfter(Known', m)
    <2>1. SUFFICES ASSUME p = 1, NEW m \in Marks, Fits(m, remote[1]), NotAfter(Known, m)
                   PROVE  UNCHANGED Now /\ NotAfter(Known', m)
      BY <1>4, <1>5, Two DEF Now
    <2>2. UNCHANGED Now
      BY <1>4, <1>5, <2>1, Two DEF Now
    <2>3. m.rank >= 2 /\ (t.in_game = ACKED => m.rank \in {3, 4})
      <3>1. remote[1] \in States /\ remote[1].in_game >= LOADED
        BY <1>5, <2>1, Two DEF TypeOK
      <3>2. m.rank = Rank(remote[1])
        BY <2>1 DEF Fits
      <3>3. QED
        BY <1>3, <2>1, <3>1, <3>2 DEF Rank, States, MENU, LOADED, IN_GAME, ACKED, BACK, RETRY
    <2>4. Known = [round |-> round[1], try |-> 0, rank |-> 0]
      BY <1>5, <2>1 DEF Known
    <2>5. Known' = [round |-> round[1], try |-> 0,
                    rank |-> IF t.in_game = ACKED THEN 3 ELSE 2]
      BY <1>4, <1>5, <2>1 DEF Known
    <2>6. NotAfter(Known', m)
      BY <2>1, <2>3, <2>4, <2>5 DEF NotAfter, Marks
    <2>7. QED
      BY <2>2, <2>6
  <1>13. QED
    BY <1>3, <1>5, <1>6, <1>7, <1>8, <1>9, <1>10, <1>11, <1>12, SendingStep

\* The song ends, for a console that has seen its peer in the game.
LEMMA StageEndsInvariant == ASSUME IInv, NEW p \in Players, StageEnds(p) PROVE IInv'
  <1> USE DEF IInv
  <1>1. /\ where[p] = "play" /\ our[p].in_game = ACKED /\ remote[p].in_game # IN_GAME
        /\ where' = [where EXCEPT ![p] = "tryagain"] /\ where'[p] = "tryagain"
        /\ \A q \in Players : q # p => where'[q] = where[q]
        /\ UNCHANGED <<our, remote, underway, cursor, round, try>>
    BY DEF StageEnds, TypeOK
  <1>2. \A q \in Players : Loaded(q)' = Loaded(q)
    BY <1>1 DEF Loaded
  <1>3. TypeOK'
    BY <1>1 DEF TypeOK
  <1>4. Phases'
    BY <1>1 DEF Phases
  <1>5. Waited' /\ FollowsPlayerOne'
    BY <1>1, <1>2, Two DEF Waited, FollowsPlayerOne
  <1>6. our'[p].in_game >= LOADED => Loaded(p)'
    BY <1>1, <1>2 DEF Truthful, Tells
  <1>7. UNCHANGED Now
    BY <1>1 DEF Now
  <1>8. p = 0 => UNCHANGED Known
    BY <1>1, Two DEF Known
  <1>9. NotAfter(Now, Now')
    BY <1>7, MarksType, NotAfterReflexive
  <1>10. p = 1 => \A m \in Marks :
                    Fits(m, remote[1]) /\ NotAfter(Known, m) => NotAfter(Known', m)
    <2>1. SUFFICES ASSUME p = 1, NEW m \in Marks, Fits(m, remote[1]), NotAfter(Known, m)
                   PROVE  NotAfter(Known', m)
      OBVIOUS
    <2>2. m.rank # 3
      <3>1. remote[1] \in States /\ remote[1].in_game # IN_GAME
        BY <1>1, <2>1 DEF TypeOK
      <3>2. QED
        BY <2>1, <3>1 DEF Fits, Rank, States, MENU, IN_GAME, ACKED, BACK, RETRY
    <2>3. Known = [round |-> round[1], try |-> try[1], rank |-> 3]
      BY <1>1, <2>1 DEF Known
    <2>4. Known' = [round |-> round[1], try |-> try[1], rank |-> 4]
      BY <1>1, <2>1 DEF Known
    <2>5. QED
      BY <2>1, <2>2, <2>3, <2>4 DEF NotAfter, Marks
  <1>11. QED
    BY <1>1, <1>2, <1>3, <1>4, <1>5, <1>6, <1>7, <1>8, <1>9, <1>10, QuietStep

\* The try-again screen.
LEMMA TryAgainInvariant == ASSUME IInv, NEW p \in Players, TryAgainFrame(p) PROVE IInv'
  <1> USE DEF IInv
  <1>1. PICK c \in {"BACK", "RETRY"} : cursor' = [cursor EXCEPT ![p] = c]
                                       /\ Send(p, Shown(our[p], c))
    <2>1. Cursor(p) \subseteq {"BACK", "RETRY"}
      <3>1. cursor[p] \in {"NONE", "BACK", "RETRY"}
        BY DEF TypeOK
      <3>2. Pointed(p) \in {"NONE", "BACK", "RETRY"}
        BY <3>1 DEF Pointed
      <3>3. QED
        BY <3>2 DEF Cursor
    <2>2. QED
      BY <2>1 DEF TryAgainFrame
  <1>2. PICK t : t = Shown(our[p], c)
    OBVIOUS
  <1>3. t \in States /\ t.in_game \in {BACK, RETRY} /\ Send(p, t)
    BY <1>1, <1>2, ShownFacts DEF TypeOK
  <1>4. /\ our' = [our EXCEPT ![p] = t] /\ our'[p] = t
        /\ our' \in [Players -> States] /\ underway' \in [Players -> Seq(States)]
        /\ \A q \in Players : q # p => our'[q] = our[q]
    BY <1>3, SendFacts
  <1>5. where[p] = "tryagain" /\ our[p].in_game \in {ACKED, BACK, RETRY}
        /\ UNCHANGED <<where, remote, round, try>>
    BY DEF TryAgainFrame, Phases
  <1>6. \A q \in Players : Loaded(q)' = Loaded(q)
    BY <1>5 DEF Loaded
  <1>7. TypeOK'
    BY <1>1, <1>3, <1>4, <1>5 DEF TypeOK
  <1>8. Phases'
    BY <1>3, <1>4, <1>5 DEF Phases
  <1>9. Waited' /\ FollowsPlayerOne'
    BY <1>5, <1>6, Two DEF Waited, FollowsPlayerOne
  <1>10. Loaded(p)'
    BY <1>5, <1>6 DEF Truthful, Tells, ACKED, BACK, RETRY, LOADED
  <1>11. p = 0 => UNCHANGED Known /\ NotAfter(Now, Now')
    <2>1. SUFFICES ASSUME p = 0 PROVE UNCHANGED Known /\ NotAfter(Now, Now')
      OBVIOUS
    <2>2. Rank(our[0]) \in {4, 5} /\ Rank(our'[0]) = 5
      BY <1>3, <1>4, <1>5, <2>1 DEF Rank, MENU, ACKED, BACK, RETRY
    <2>3. UNCHANGED Known
      BY <1>4, <1>5, <2>1, Two DEF Known
    <2>4. QED
      BY <1>3, <1>4, <1>5, <2>1, <2>2, <2>3 DEF Now, NotAfter, MENU, ACKED, BACK, RETRY
  <1>12. p = 1 => UNCHANGED <<Now, Known>>
    BY <1>4, <1>5, Two DEF Now, Known
  <1>13. QED
    BY <1>3, <1>5, <1>6, <1>7, <1>8, <1>9, <1>10, <1>11, <1>12, SendingStep

\* When player 1 confirms, player 0 has left the stage or plays it again.
LEMMA ConfirmedMark ==
  ASSUME TypeOK, where[1] = "tryagain", Confirms(1), NEW m \in Marks,
         Fits(m, remote[1]), NotAfter(Known, m)
  PROVE  \/ m.round > round[1]
         \/ m.round = round[1] /\ remote[1].in_game = MENU
         \/ m.round = round[1] /\ m.try > try[1] /\ remote[1].in_game = IN_GAME
  <1>1. remote[1] \in States /\ remote[1].in_game < BACK
    BY Two DEF TypeOK, Confirms
  <1>2. Known = [round |-> round[1], try |-> try[1], rank |-> 4]
    BY DEF Known
  <1>3. try[1] \in Nat
    BY Two, Bounds DEF TypeOK
  <1>4. CASE remote[1].in_game \in {LOADING, LOADED}
    <2>1. m.try = 0 /\ m.rank \in {1, 2}
      BY <1>4 DEF Fits, Rank, MENU, LOADING, LOADED, ACKED, BACK, RETRY
    <2>2. QED
      BY <1>2, <1>3, <2>1 DEF NotAfter, Marks
  <1>5. CASE remote[1].in_game = IN_GAME
    <2>1. m.rank = 3
      BY <1>5 DEF Fits, Rank, MENU, IN_GAME, ACKED, BACK, RETRY
    <2>2. QED
      BY <1>2, <1>3, <1>5, <2>1 DEF NotAfter, Marks
  <1>6. CASE remote[1].in_game = MENU
    BY <1>2, <1>6 DEF NotAfter, Marks
  <1>7. QED
    BY <1>1, <1>4, <1>5, <1>6 DEF States, MENU, LOADING, LOADED, IN_GAME, BACK

\* The stage is played again, by player 1 only after player 0.
LEMMA PlayAgainInvariant == ASSUME IInv, NEW p \in Players, PlayAgain(p) PROVE IInv'
  <1> USE DEF IInv
  <1>1. /\ where[p] = "tryagain" /\ Confirms(p) /\ "RETRY" \in Cursor(p)
        /\ try[p] < MaxTries /\ try[p] \in Nat /\ our[p] \in States
        /\ UNCHANGED <<remote, underway, round>>
    BY Bounds DEF PlayAgain, TypeOK
  <1>2. /\ where' = [where EXCEPT ![p] = "play"] /\ where'[p] = "play"
        /\ \A q \in Players : q # p => where'[q] = where[q]
    BY DEF PlayAgain, TypeOK
  <1>3. /\ our' \in [Players -> States] /\ our'[p].in_game = IN_GAME
        /\ \A q \in Players : q # p => our'[q] = our[q]
    <2>1. [our[p] EXCEPT !.in_game = IN_GAME] \in States
      BY <1>1 DEF States, IN_GAME
    <2>2. our' = [our EXCEPT ![p] = [our[p] EXCEPT !.in_game = IN_GAME]]
      BY DEF PlayAgain
    <2>3. QED
      BY <1>1, <2>1, <2>2 DEF TypeOK, States
  <1>4. /\ cursor' = [cursor EXCEPT ![p] = "NONE"]
        /\ try' = [try EXCEPT ![p] = @ + 1] /\ try'[p] = try[p] + 1
        /\ \A q \in Players : q # p => try'[q] = try[q]
    BY DEF PlayAgain, TypeOK
  <1>5. \A q \in Players : Loaded(q)' = Loaded(q)
    BY <1>1, <1>2 DEF Loaded
  <1>6. TypeOK'
    <2>1. try[p] + 1 \in 0 .. MaxTries
      BY <1>1, Bounds
    <2>2. try' \in [Players -> 0 .. MaxTries]
      BY <1>4, <2>1 DEF TypeOK
    <2>3. \A q \in Players :
            our'[q].in_game \in {BACK, RETRY} \/ cursor'[q] # "NONE" => where'[q] = "tryagain"
      BY <1>2, <1>3, <1>4 DEF TypeOK, IN_GAME, BACK, RETRY
    <2>4. QED
      BY <1>1, <1>2, <1>3, <1>4, <2>2, <2>3 DEF TypeOK
  <1>7. Phases'
    BY <1>1, <1>2, <1>3, <1>4 DEF Phases
  <1>8. Waited'
    BY <1>1, <1>2, <1>5, Two DEF Waited
  <1>9. Loaded(p)'
    BY <1>1, <1>5 DEF Phases, Truthful, Tells, ACKED, BACK, RETRY, LOADED
  <1>10. CASE p = 0
    <2>1. UNCHANGED Known /\ FollowsPlayerOne'
      BY <1>1, <1>2, <1>3, <1>4, <1>10, Two, Bounds DEF Known, FollowsPlayerOne, TypeOK
    <2>2. NotAfter(Now, Now')
      <3>1. our[0].in_game # MENU /\ our'[0].in_game # MENU
        BY <1>1, <1>3, <1>10 DEF Phases, MENU, IN_GAME, ACKED, BACK, RETRY
      <3>2. QED
        BY <1>1, <1>4, <1>10, <3>1 DEF Now, NotAfter
    <2>3. QED
      BY <1>1, <1>3, <1>4, <1>5, <1>6, <1>7, <1>8, <1>9, <1>10, <2>1, <2>2, QuietStep
  <1>11. CASE p = 1
    <2>0. where[1] = "tryagain" /\ Confirms(1)
      BY <1>1, <1>11
    <2>1. remote[1].in_game # MENU
      BY <1>1, <1>11 DEF Cursor, Pointed, MENU, BACK, IN_GAME, RETRY
    <2>2. Known' = [round |-> round[1], try |-> try[1] + 1, rank |-> 2]
      BY <1>1, <1>2, <1>3, <1>4, <1>11 DEF Known, IN_GAME, ACKED
    <2>3. ASSUME NEW m \in Marks, Fits(m, remote[1]), NotAfter(Known, m)
          PROVE  NotAfter(Known', m) /\ (m.round > round[1] \/ m.try > try[1])
      <3>1. \/ m.round > round[1]
            \/ m.round = round[1] /\ m.try > try[1] /\ remote[1].in_game = IN_GAME
        BY <2>0, <2>1, <2>3, ConfirmedMark
      <3>2. CASE m.round > round[1]
        BY <2>2, <3>2 DEF NotAfter
      <3>3. CASE m.round = round[1] /\ m.try > try[1] /\ remote[1].in_game = IN_GAME
        <4>1. m.rank = 3
          BY <2>3, <3>3 DEF Fits, Rank, MENU, IN_GAME, ACKED, BACK, RETRY
        <4>2. QED
          BY <1>1, <1>11, <2>2, <3>3, <4>1 DEF NotAfter, Marks
      <3>4. QED
        BY <3>1, <3>2, <3>3
    <2>4. UNCHANGED Now
      BY <1>1, <1>3, <1>4, <1>11, Two DEF Now
    <2>5. FollowsPlayerOne'
      <3>1. PICK m \in Marks : Fits(m, remote[1]) /\ NotAfter(Known, m) /\ Past(m)
        BY SeenMark
      <3>2. \/ m.round > round[1]
            \/ m.round = round[1] /\ m.try > try[1] /\ remote[1].in_game = IN_GAME
        BY <2>0, <2>1, <3>1, ConfirmedMark
      <3>3. NotAfter(m, Now) /\ m.try # TOP
        BY <2>1, <3>1 DEF Fits, Past
      <3>4. round[0] \in Nat /\ round[1] \in Nat /\ try[0] \in Nat /\ Now.round = round[0]
        BY Two, Bounds DEF Now, TypeOK
      <3>5. CASE m.round > round[1]
        BY <1>1, <3>3, <3>4, <3>5 DEF NotAfter, Marks, FollowsPlayerOne
      <3>6. CASE m.round = round[1] /\ m.try > try[1]
        <4>1. round[1] = round[0] => try[1] + 1 <= try[0]
          BY <1>1, <1>11, <3>1, <3>3, <3>4, <3>6 DEF Past, Marks
        <4>2. QED
          BY <1>1, <1>4, <1>11, Two, <4>1 DEF FollowsPlayerOne
      <3>7. QED
        BY <3>2, <3>5, <3>6
    <2>6. QED
      BY <1>1, <1>3, <1>4, <1>5, <1>6, <1>7, <1>8, <1>9, <1>11, <2>3, <2>4, <2>5, QuietStep
  <1>12. QED
    BY <1>10, <1>11, Two

\* Back to the menus, for player 1 only after player 0.
LEMMA GoBackInvariant == ASSUME IInv, NEW p \in Players, GoBack(p) PROVE IInv'
  <1> USE DEF IInv
  <1>1. /\ where[p] = "tryagain" /\ Confirms(p) /\ "BACK" \in Cursor(p)
        /\ our[p] \in States /\ our[p].in_game \in {ACKED, BACK, RETRY}
        /\ UNCHANGED <<remote, underway, round, try>>
    BY DEF GoBack, TypeOK, Phases
  <1>2. /\ where' = [where EXCEPT ![p] = "leave"] /\ where'[p] = "leave"
        /\ \A q \in Players : q # p => where'[q] = where[q]
        /\ cursor' = [cursor EXCEPT ![p] = "NONE"]
    BY DEF GoBack, TypeOK
  <1>3. /\ our' \in [Players -> States] /\ our'[p].in_game = MENU
        /\ \A q \in Players : q # p => our'[q] = our[q]
    <2>1. [our[p] EXCEPT !.in_game = MENU] \in States
      BY <1>1 DEF States, MENU
    <2>2. our' = [our EXCEPT ![p] = [our[p] EXCEPT !.in_game = MENU]]
      BY DEF GoBack
    <2>3. QED
      BY <1>1, <2>1, <2>2 DEF TypeOK, States
  <1>4. \A q \in Players : Loaded(q)' = Loaded(q)
    BY <1>1, <1>2 DEF Loaded
  <1>5. TypeOK'
    <2>1. \A q \in Players :
            our'[q].in_game \in {BACK, RETRY} \/ cursor'[q] # "NONE" => where'[q] = "tryagain"
      BY <1>2, <1>3 DEF TypeOK, MENU, BACK, RETRY
    <2>2. QED
      BY <1>1, <1>2, <1>3, <2>1 DEF TypeOK
  <1>6. Phases'
    BY <1>1, <1>2, <1>3 DEF Phases
  <1>7. Waited' /\ FollowsPlayerOne'
    BY <1>1, <1>2, <1>4, Two DEF Waited, FollowsPlayerOne
  <1>8. ~(our'[p].in_game >= LOADED)
    BY <1>3 DEF MENU, LOADED
  <1>9. p = 0 => UNCHANGED Known /\ NotAfter(Now, Now')
    <2>1. SUFFICES ASSUME p = 0 PROVE UNCHANGED Known /\ NotAfter(Now, Now')
      OBVIOUS
    <2>2. UNCHANGED Known
      BY <1>1, <1>2, <1>3, <2>1, Two DEF Known
    <2>3. Now.try = try[0] /\ Now'.try = TOP /\ Now'.round = Now.round
      BY <1>1, <1>3, <2>1 DEF Now, MENU, ACKED, BACK, RETRY
    <2>4. try[0] \in Nat /\ try[0] < TOP
      BY <2>1, Bounds DEF TypeOK
    <2>5. QED
      BY <2>2, <2>3, <2>4 DEF NotAfter
  <1>10. p = 1 => /\ UNCHANGED <<Now>>
                  /\ \A m \in Marks :
                       Fits(m, remote[1]) /\ NotAfter(Known, m) => NotAfter(Known', m)
    <2>1. SUFFICES ASSUME p = 1, NEW m \in Marks, Fits(m, remote[1]), NotAfter(Known, m)
                   PROVE  UNCHANGED Now /\ NotAfter(Known', m)
      BY <1>1, <1>3, Two DEF Now
    <2>2. UNCHANGED Now
      BY <1>1, <1>3, <2>1, Two DEF Now
    <2>3. remote[1].in_game # IN_GAME
      BY <1>1, <2>1 DEF Cursor, Pointed, MENU, BACK, IN_GAME, RETRY
    <2>4. where[1] = "tryagain" /\ Confirms(1)
      BY <1>1, <2>1
    <2>5. m.round > round[1] \/ (m.round = round[1] /\ remote[1].in_game = MENU)
      BY <2>1, <2>3, <2>4, ConfirmedMark
    <2>6. remote[1].in_game = MENU => m.try = TOP /\ m.rank = 0
      BY <2>1 DEF Fits, Rank, MENU, ACKED, BACK, RETRY
    <2>7. Known' = [round |-> round[1], try |-> TOP, rank |-> 0]
      BY <1>1, <1>2, <2>1 DEF Known
    <2>8. NotAfter(Known', m)
      BY <2>5, <2>6, <2>7 DEF NotAfter
    <2>9. QED
      BY <2>2, <2>8
  <1>11. QED
    BY <1>1, <1>3, <1>4, <1>5, <1>6, <1>7, <1>8, <1>9, <1>10, QuietStep

\* The stage is left.
LEMMA LeaveStageInvariant == ASSUME IInv, NEW p \in Players, LeaveStage(p) PROVE IInv'
  <1> USE DEF IInv
  <1>1. /\ where[p] = "leave" /\ our[p].in_game = MENU
        /\ where' = [where EXCEPT ![p] = "menu"] /\ where'[p] = "menu"
        /\ \A q \in Players : q # p => where'[q] = where[q]
        /\ UNCHANGED <<remote, underway, cursor, round, try>>
    BY DEF LeaveStage, TypeOK, Phases
  <1>2. /\ our' \in [Players -> States] /\ our'[p].in_game = MENU
        /\ \A q \in Players : q # p => our'[q] = our[q]
    <2>1. [in_game |-> MENU, mm_ready |-> FALSE] \in States
      BY DEF States, MENU
    <2>2. our' = [our EXCEPT ![p] = [in_game |-> MENU, mm_ready |-> FALSE]]
      BY DEF LeaveStage
    <2>3. QED
      BY <2>1, <2>2 DEF TypeOK
  <1>3. \A q \in Players : Loaded(q)' = Loaded(q)
    BY <1>1 DEF Loaded
  <1>4. TypeOK'
    BY <1>1, <1>2 DEF TypeOK, MENU, BACK, RETRY
  <1>5. Phases'
    BY <1>1, <1>2 DEF Phases
  <1>6. Waited' /\ FollowsPlayerOne'
    BY <1>1, <1>3, Two DEF Waited, FollowsPlayerOne
  <1>7. ~(our'[p].in_game >= LOADED)
    BY <1>2 DEF MENU, LOADED
  <1>8. our'[0].in_game = our[0].in_game /\ our'[1].in_game = our[1].in_game
    BY <1>1, <1>2, Two
  <1>9. UNCHANGED Now
    <2>1. Rank(our'[0]) = Rank(our[0])
      BY <1>8 DEF Rank
    <2>2. QED
      BY <1>1, <1>8, <2>1 DEF Now
  <1>10. UNCHANGED Known
    BY <1>1, <1>8, Two DEF Known
  <1>11. NotAfter(Now, Now')
    BY <1>9, MarksType, NotAfterReflexive
  <1>12. QED
    BY <1>1, <1>2, <1>3, <1>4, <1>5, <1>6, <1>7, <1>9, <1>10, <1>11, QuietStep

\* A newer state of the peer arrives.
LEMMA ReceiveInvariant == ASSUME IInv, NEW p \in Players, Receive(p) PROVE IInv'
  <1> USE DEF IInv
  <1>1. PICK i \in DOMAIN underway[Peer(p)] :
          /\ remote' = [remote EXCEPT ![p] = underway[Peer(p)][i]]
          /\ underway' = [underway EXCEPT ![Peer(p)] =
                            SubSeq(underway[Peer(p)], i + 1, Len(underway[Peer(p)]))]
          /\ UNCHANGED <<where, our, cursor, round, try>>
    BY DEF Receive
  <1>2. PICK q \in Players : q = Peer(p) /\ q # p /\ Peer(q) = p
    BY Two
  <1>3. PICK rest : rest = SubSeq(underway[q], i + 1, Len(underway[q]))
    OBVIOUS
  <1>4. /\ underway[q] \in Seq(States) /\ i \in 1 .. Len(underway[q])
        /\ underway[q][i] \in States /\ rest \in Seq(States)
        /\ \A j \in DOMAIN rest : j + i \in DOMAIN underway[q] /\ rest[j] = underway[q][j + i]
    <2>1. underway[q] \in Seq(States) /\ i \in 1 .. Len(underway[q])
      BY <1>1, <1>2 DEF TypeOK
    <2>2. QED
      BY <1>3, <2>1
  <1>5. /\ remote'[p] = underway[q][i] /\ underway'[q] = rest
        /\ remote'[q] = remote[q] /\ underway'[p] = underway[p]
        /\ remote' \in [Players -> States] /\ underway' \in [Players -> Seq(States)]
    BY <1>1, <1>2, <1>3, <1>4 DEF TypeOK
  <1>6. TypeOK'
    BY <1>1, <1>5 DEF TypeOK
  <1>7. \A r \in Players : Loaded(r)' = Loaded(r)
    BY <1>1 DEF Loaded
  <1>8. Phases' /\ Waited' /\ FollowsPlayerOne'
    BY <1>1, <1>7, Two DEF Phases, Waited, FollowsPlayerOne
  <1>9. Truthful'
    <2> SUFFICES ASSUME NEW r \in Players
                 PROVE  /\ Tells(r, our[r])'
                        /\ Tells(r, remote[Peer(r)])'
                        /\ \A j \in DOMAIN underway'[r] : Tells(r, underway[r][j])'
      BY DEF Truthful
    <2>1. CASE r = q
      BY <1>1, <1>2, <1>4, <1>5, <1>7, <2>1 DEF Truthful, Tells
    <2>2. CASE r = p
      BY <1>1, <1>2, <1>5, <1>7, <2>2 DEF Truthful, Tells
    <2>3. QED
      BY <1>2, <2>1, <2>2, Two
  <1>10. UNCHANGED <<Now, Known>>
    BY <1>1 DEF Now, Known
  <1>11. Dated'
    <2>1. CASE p = 1
      <3>1. i \in DOMAIN underway[0] /\ remote'[1] = underway[0][i]
            /\ underway'[0] = SubSeq(underway[0], i + 1, Len(underway[0]))
        BY <1>1, <1>2, <1>3, <1>5, <2>1, Two
      <3>2. QED
        BY <1>1, <1>10, <3>1, DatedOfReceive
    <2>2. CASE p = 0
      <3>1. remote'[1] = remote[1] /\ underway'[0] = underway[0]
        BY <1>2, <1>5, <2>2, Two
      <3>2. QED
        BY <1>1, <1>10, <3>1, DatedOfPlayerOne
    <2>3. QED
      BY <2>1, <2>2, Two
  <1>12. QED
    BY <1>6, <1>8, <1>9, <1>11

\* Every step keeps the inductive invariant.
LEMMA NextInvariant == IInv /\ [Next]_vars => IInv'
  <1> SUFFICES ASSUME IInv, [Next]_vars PROVE IInv'
    OBVIOUS
  <1>1. CASE Next
    BY <1>1, FrameInvariant, MenuFrameInvariant, StartStageInvariant,
       FinishLoadingInvariant, WaitInvariant, PassBarrierInvariant, StageEndsInvariant,
       TryAgainInvariant, PlayAgainInvariant, GoBackInvariant, LeaveStageInvariant,
       ReceiveInvariant DEF Next
  <1>2. CASE UNCHANGED vars
    <2>1. UNCHANGED <<Now, Known, Tellings>> /\ \A i : Told(i)' = Told(i)
      BY <1>2 DEF vars, Now, Known, Tellings, Told
    <2>2. TypeOK' /\ Phases' /\ Truthful' /\ Waited' /\ FollowsPlayerOne'
      BY <1>2 DEF vars, IInv, TypeOK, Phases, Truthful, Tells, Loaded, Waited,
                  FollowsPlayerOne
    <2>3. Dated'
      <3>1. PICK mark : Dates(mark)
        BY DEF IInv, Dated
      <3>2. Dates(mark)'
        BY <1>2, <2>1, <3>1 DEF vars, Dates, Past
      <3>3. QED
        BY <3>2 DEF Dated
    <2>4. QED
      BY <2>2, <2>3 DEF IInv
  <1>3. QED
    BY <1>1, <1>2

-----------------------------------------------------------------------------
\* The invariant holds whatever states are lost, and however late they arrive.
THEOREM Invariance == Spec => []IInv
  BY InitInvariant, NextInvariant, PTL DEF Spec

\* The state of a session's stages never leaves its types.
THEOREM TypeCorrect == Spec => []TypeOK
  <1>1. IInv => TypeOK
    BY DEF IInv
  <1>2. QED
    BY <1>1, Invariance, PTL

\* Player 2 enters a stage, and plays it again, only after Player 1.
THEOREM PlayerTwoFollows == Spec => []FollowsPlayerOne
  <1>1. IInv => FollowsPlayerOne
    BY DEF IInv
  <1>2. QED
    BY <1>1, Invariance, PTL

\* No console plays the first stage before its peer has loaded it.
THEOREM BarrierWaits == Spec => []BarrierHolds
  <1>1. IInv => BarrierHolds
    <2> SUFFICES ASSUME IInv, NEW p \in Players, round[p] = 1, where[p] = "play"
                 PROVE  /\ round[Peer(p)] > 0
                        /\ ~(round[Peer(p)] = 1 /\ where[Peer(p)] = "load")
      BY DEF BarrierHolds
    <2>1. Loaded(Peer(p)) /\ round[Peer(p)] \in Nat
      BY Two, Bounds DEF IInv, Waited, TypeOK
    <2>2. QED
      BY <2>1 DEF Loaded
  <1>2. QED
    BY <1>1, Invariance, PTL

-----------------------------------------------------------------------------
(***************************************************************************)
(* The frame wait of loader.c, for any preemption of its two threads and   *)
(* any number of stray wakeups and alarms.                                 *)
(***************************************************************************)
\* The status follows the game thread: 0 outside hFrameWait, 1 or 2 in it; the
\* other thread knows whom to wake, and 2 says that the frame has passed.
StatusTrue ==
  /\ frame_wait_status = 0 <=> gpc \in {"run", "barrier", "doze"}
  /\ frame_wait_status # 0 => frame_waiting_tid = Game
  /\ frame_wait_status = 2 => done

\* A frame that has been asked for is on its way.
Asked ==
  gpc \in {"test", "sleep"} /\ frame_wait_status = 1 =>
    wpc # "sleep" \/ wakeups[Waiter] > 0

\* The end of a frame is told.
EndTold == gpc = "sleep" /\ frame_wait_status # 1 => wakeups[Game] > 0 \/ wpc = "wake"

WaitIInv == WaitTypeOK /\ StatusTrue /\ NotAbandoned /\ Asked /\ EndTold

-----------------------------------------------------------------------------
\* WakeupThread leaves a wakeup pending and takes none away.
LEMMA WakeFacts ==
  ASSUME wakeups \in [Threads -> 0 .. MaxWakeups], NEW t \in Threads, Wake(t)
  PROVE  /\ wakeups' \in [Threads -> 0 .. MaxWakeups]
         /\ wakeups'[t] > 0
         /\ \A u \in Threads : wakeups[u] > 0 => wakeups'[u] > 0
  <1>1. wakeups[t] \in Nat /\ wakeups[t] <= MaxWakeups /\ MaxWakeups \in Nat /\ MaxWakeups > 0
    BY MaxWakeupsAssumption
  <1>2. wakeups'[t] \in 0 .. MaxWakeups /\ wakeups'[t] > 0
    BY <1>1 DEF Wake
  <1>3. \A u \in Threads : u # t => wakeups'[u] = wakeups[u]
    BY DEF Wake
  <1>4. wakeups' \in [Threads -> 0 .. MaxWakeups]
    BY <1>1, <1>2, <1>3 DEF Wake
  <1>5. QED
    BY <1>2, <1>3, <1>4

\* SleepThread takes at most the wakeups of its own thread.
LEMMA AwakeFacts ==
  ASSUME wakeups \in [Threads -> 0 .. MaxWakeups], NEW t \in Threads, Awake(t)
  PROVE  /\ wakeups' \in [Threads -> 0 .. MaxWakeups]
         /\ \A u \in Threads : u # t => wakeups'[u] = wakeups[u]
  <1>1. wakeups[t] \in Nat /\ wakeups[t] <= MaxWakeups /\ MaxWakeups \in Nat
    BY MaxWakeupsAssumption
  <1>2. CASE wakeups' = [wakeups EXCEPT ![t] = @ - 1]
    <2>1. wakeups[t] - 1 \in 0 .. MaxWakeups
      BY <1>1 DEF Awake
    <2>2. QED
      BY <1>2, <2>1
  <1>3. CASE UNCHANGED wakeups
    BY <1>3
  <1>4. QED
    BY <1>2, <1>3 DEF Awake

\* Initially nobody waits.
LEMMA WaitInitInvariant == WaitInit => WaitIInv
  <1> SUFFICES ASSUME WaitInit PROVE WaitIInv
    OBVIOUS
  <1>1. wakeups \in [Threads -> 0 .. MaxWakeups] /\ alarms \in 0 .. MaxWakeups
    BY MaxWakeupsAssumption DEF WaitInit
  <1>2. WaitTypeOK
    <2>1. 0 \in 0 .. 2
      OBVIOUS
    <2>2. QED
      BY <1>1, <2>1, Zenon DEF WaitInit, WaitTypeOK
  <1>3. StatusTrue /\ NotAbandoned /\ Asked /\ EndTold
    BY DEF WaitInit, StatusTrue, NotAbandoned, Asked, EndTold
  <1>4. QED
    BY <1>2, <1>3 DEF WaitIInv

\* The steps of the game thread in hFrameWait.
LEMMA InFrameWaitInvariant == WaitIInv /\ (CallFrameWait \/ InFrameWait) => WaitIInv'
  <1> SUFFICES ASSUME WaitIInv, CallFrameWait \/ InFrameWait PROVE WaitIInv'
    OBVIOUS
  <1> USE DEF WaitIInv
  <1>1. Game \in Threads /\ Waiter \in Threads /\ Game # Waiter
    BY ThreadsAssumption DEF Threads
  <1>2. CASE CallFrameWait
    <2>1. WaitTypeOK'
      <3>1. 1 \in 0 .. 2
        OBVIOUS
      <3>2. QED
        BY <1>2, <3>1, Zenon DEF CallFrameWait, WaitTypeOK
    <2>2. StatusTrue' /\ NotAbandoned'
      BY <1>2 DEF CallFrameWait, StatusTrue, NotAbandoned
    <2>3. Asked' /\ EndTold'
      BY <1>2 DEF CallFrameWait, Asked, EndTold
    <2>4. QED
      BY <2>1, <2>2, <2>3
  <1>3. CASE NotifyWaiter
    <2>1. wakeups' \in [Threads -> 0 .. MaxWakeups] /\ wakeups'[Waiter] > 0
      BY <1>1, <1>3, WakeFacts DEF NotifyWaiter, WaitTypeOK
    <2>2. QED
      BY <1>3, <2>1 DEF NotifyWaiter, WaitTypeOK, StatusTrue, NotAbandoned, Asked, EndTold
  <1>4. CASE GameTest
    BY <1>4 DEF GameTest, WaitTypeOK, StatusTrue, NotAbandoned, Asked, EndTold
  <1>5. CASE GameSleep
    <2>1. wakeups' \in [Threads -> 0 .. MaxWakeups] /\ wakeups'[Waiter] = wakeups[Waiter]
      BY <1>1, <1>5, AwakeFacts DEF GameSleep, WaitTypeOK
    <2>2. QED
      BY <1>5, <2>1 DEF GameSleep, WaitTypeOK, StatusTrue, NotAbandoned, Asked, EndTold
  <1>6. QED
    BY <1>2, <1>3, <1>4, <1>5 DEF InFrameWait

\* The steps of hFinishLoading, and its alarms, which may be late.
LEMMA LoadingInvariant ==
  WaitIInv /\ (CallFinishLoading \/ Barrier \/ Doze \/ AlarmFires) => WaitIInv'
  <1> SUFFICES ASSUME WaitIInv, CallFinishLoading \/ Barrier \/ Doze \/ AlarmFires PROVE WaitIInv'
    OBVIOUS
  <1> USE DEF WaitIInv
  <1>1. Game \in Threads /\ Waiter \in Threads /\ Game # Waiter
    BY ThreadsAssumption DEF Threads
  <1>2. CASE CallFinishLoading \/ Barrier
    BY <1>2, MaxWakeupsAssumption
    DEF CallFinishLoading, Barrier, WaitTypeOK, StatusTrue, NotAbandoned, Asked, EndTold
  <1>3. CASE Doze
    <2>1. wakeups' \in [Threads -> 0 .. MaxWakeups]
      BY <1>1, <1>3, AwakeFacts DEF Doze, WaitTypeOK
    <2>2. QED
      BY <1>3, <2>1 DEF Doze, WaitTypeOK, StatusTrue, NotAbandoned, Asked, EndTold
  <1>4. CASE AlarmFires
    <2>1. /\ wakeups' \in [Threads -> 0 .. MaxWakeups]
          /\ wakeups[Game] > 0 => wakeups'[Game] > 0
          /\ wakeups[Waiter] > 0 => wakeups'[Waiter] > 0
      BY <1>1, <1>4, WakeFacts DEF AlarmFires, WaitTypeOK
    <2>2. alarms' \in 0 .. MaxWakeups
      BY <1>4, MaxWakeupsAssumption DEF AlarmFires, WaitTypeOK
    <2>3. QED
      BY <1>4, <2>1, <2>2 DEF AlarmFires, WaitTypeOK, StatusTrue, NotAbandoned, Asked, EndTold
  <1>5. QED
    BY <1>2, <1>3, <1>4

\* The steps of FrameWaitThread.
LEMMA WaiterInvariant == WaitIInv /\ WaiterStep => WaitIInv'
  <1> SUFFICES ASSUME WaitIInv, WaiterStep PROVE WaitIInv'
    OBVIOUS
  <1> USE DEF WaitIInv
  <1>1. Game \in Threads /\ Waiter \in Threads /\ Game # Waiter /\ NONE # Game
    BY ThreadsAssumption DEF Threads
  <1>2. CASE WaiterTest \/ WaiterLook
    BY <1>2 DEF WaiterTest, WaiterLook, WaitTypeOK, StatusTrue, NotAbandoned, Asked, EndTold
  <1>6. CASE FrameEnds
    <2>1. WaitTypeOK'
      BY <1>6 DEF FrameEnds, WaitTypeOK
    <2>2. StatusTrue' /\ NotAbandoned'
      BY <1>6 DEF FrameEnds, StatusTrue, NotAbandoned
    <2>3. Asked' /\ EndTold'
      BY <1>6 DEF FrameEnds, Asked, EndTold
    <2>4. QED
      BY <2>1, <2>2, <2>3
  <1>3. CASE WaiterSleep
    <2>1. wakeups' \in [Threads -> 0 .. MaxWakeups] /\ wakeups'[Game] = wakeups[Game]
      BY <1>1, <1>3, AwakeFacts DEF WaiterSleep, WaitTypeOK
    <2>2. QED
      BY <1>3, <2>1 DEF WaiterSleep, WaitTypeOK, StatusTrue, NotAbandoned, Asked, EndTold
  <1>4. CASE WakeGame
    <2>1. CASE frame_waiting_tid = NONE
      BY <1>1, <1>4, <2>1 DEF WakeGame, WaitTypeOK, StatusTrue, NotAbandoned, Asked, EndTold
    <2>2. CASE frame_waiting_tid # NONE
      <3>1. /\ wakeups' \in [Threads -> 0 .. MaxWakeups] /\ wakeups'[Game] > 0
        BY <1>1, <1>4, <2>2, WakeFacts DEF WakeGame, WaitTypeOK
      <3>2. QED
        BY <1>4, <3>1 DEF WakeGame, WaitTypeOK, StatusTrue, NotAbandoned, Asked, EndTold
    <2>3. QED
      BY <2>1, <2>2
  <1>5. QED
    BY <1>2, <1>3, <1>4, <1>6 DEF WaiterStep

\* Every step keeps the inductive invariant.
LEMMA WaitNextInvariant == WaitIInv /\ [WaitNext]_waitVars => WaitIInv'
  <1>1. WaitIInv /\ UNCHANGED waitVars => WaitIInv'
    BY DEF WaitIInv, waitVars, WaitTypeOK, StatusTrue, NotAbandoned, Asked, EndTold
  <1>2. QED
    BY <1>1, InFrameWaitInvariant, LoadingInvariant, WaiterInvariant DEF WaitNext

-----------------------------------------------------------------------------
\* The invariant holds of every interleaving of loader.c's two threads.
THEOREM WaitInvariance == WaitSpec => []WaitIInv
  BY WaitInitInvariant, WaitNextInvariant, PTL DEF WaitSpec

\* The state of the frame wait never leaves its types.
THEOREM WaitTypeCorrect == WaitSpec => []WaitTypeOK
  <1>1. WaitIInv => WaitTypeOK
    BY DEF WaitIInv
  <1>2. QED
    BY <1>1, WaitInvariance, PTL

\* hFrameWait never sleeps on a wakeup that was lost.
THEOREM WakeupIsNotLost == WaitSpec => []NobodyIsForgotten
  <1>1. WaitIInv => NobodyIsForgotten
    <2>1. WaitIInv /\ gpc = "sleep" =>
            /\ frame_wait_status \in {1, 2}
            /\ wpc \in {"test", "sleep", "look", "vsync", "wake"}
      BY DEF WaitIInv, StatusTrue, WaitTypeOK
    <2>2. QED
      BY <2>1 DEF WaitIInv, Asked, EndTold, NobodyIsForgotten
  <1>2. QED
    BY <1>1, WaitInvariance, PTL

\* FrameWaitThread waits for a frame only on behalf of a standing call.
THEOREM FrameIsNotAbandoned == WaitSpec => []NotAbandoned
  <1>1. WaitIInv => NotAbandoned
    BY DEF WaitIInv
  <1>2. QED
    BY <1>1, WaitInvariance, PTL

\* hFrameWait returns only after the frame has passed.
THEOREM ReturnsAfterTheFrame == WaitSpec => FrameHasPassed
  <1>1. WaitIInv /\ [WaitNext]_waitVars => [gpc = "test" /\ gpc' = "run" => done]_waitVars
    <2> SUFFICES ASSUME WaitIInv, WaitNext, gpc = "test", gpc' = "run" PROVE done
      OBVIOUS
    <2>1. GameTest
      BY DEF WaitNext, InFrameWait, WaiterStep, CallFrameWait, NotifyWaiter, GameSleep,
             CallFinishLoading, Barrier, Doze, AlarmFires, WaiterTest, WaiterSleep,
             WaiterLook, FrameEnds, WakeGame
    <2>2. frame_wait_status = 2
      BY <2>1 DEF GameTest, WaitIInv, WaitTypeOK, StatusTrue
    <2>3. QED
      BY <2>2 DEF WaitIInv, StatusTrue
  <1>2. QED
    BY <1>1, WaitInvariance, PTL DEF WaitSpec, FrameHasPassed
=============================================================================
