--------------------------- MODULE SessionProofs ---------------------------
(***************************************************************************)
(* Proofs about sessions.  First the hand-over of Player 1 between two     *)
(* consoles in an established session (Handover), for any number of        *)
(* datagrams; then sessions as they are found, entered, left and entered   *)
(* again (GameNet), for any consoles and any number of attempts, datagrams *)
(* and lost links.                                                         *)
(***************************************************************************)
EXTENDS GameNet, Handover, TLAPS

\* The turns of the peer that a console at turn t can have seen.
Shows(t, v) ==
  /\ t % 4 = 0 => v % 4 = 2
  /\ t % 4 = 1 => v % 4 \in {2, 3}
  /\ t % 4 = 2 => v % 4 \in {0, 1, 3}
  /\ t % 4 = 3 => v % 4 \in {1, 2}

\* A console at turn t has seen what it needs of its peer, at turn v then.
Backed(v, lead, t) == v + lead >= Need(t)

(***************************************************************************)
(* Arithmetic of the turns: a console at turn a that has seen the peer at  *)
(* turn va can only see a part of the peer's cycle (send_game_state reads  *)
(* remote_game_state.flags).                                               *)
(***************************************************************************)
LEMMA SeenTurn ==
  ASSUME NEW a \in Nat, NEW b \in Nat, NEW va \in Nat, NEW vb \in Nat,
         NEW lead \in {0, 4},
         va <= b, vb <= a,
         va + lead >= Need(a), vb + (4 - lead) >= Need(b)
  PROVE  Shows(a, va)
  BY DEF Shows, Need, PlayerAt

(***************************************************************************)
(* What the two unconditional flag assignments of send_game_state make of  *)
(* the flags that occur, for each view of the peer that occurs with them.  *)
(***************************************************************************)
LEMMA SettledTable ==
  /\ \A seen : SettledFlags({}, seen) = {}
  /\ SettledFlags({HANDOVER}, {}) = {HANDOVER}
  /\ SettledFlags({HANDOVER}, {HANDOVER_ACK}) = {}
  /\ SettledFlags({HANDOVER_ACK}, {HANDOVER}) = {HANDOVER_ACK}
  /\ SettledFlags({HANDOVER_ACK}, {}) = {}
  BY DEF SettledFlags, HANDOVER, HANDOVER_ACK

\* How many turns each change of the flags counts.
LEMMA TurnsTable ==
  /\ \A seen : Turns({}, seen, {}) = 0
  /\ \A seen : Turns({}, seen, {HANDOVER}) = 1
  /\ \A seen : Turns({}, seen, {HANDOVER_ACK}) = 1
  /\ Turns({HANDOVER}, {}, {HANDOVER}) = 0
  /\ Turns({HANDOVER}, {HANDOVER_ACK}, {}) = 1
  /\ Turns({HANDOVER_ACK}, {HANDOVER}, {HANDOVER_ACK}) = 0
  /\ Turns({HANDOVER_ACK}, {}, {}) = 1
  /\ Turns({HANDOVER_ACK}, {}, {HANDOVER}) = 2
  <1>1. {HANDOVER} # {} /\ {HANDOVER_ACK} # {} /\ HANDOVER # HANDOVER_ACK
    BY DEF HANDOVER, HANDOVER_ACK
  <1>2. QED
    BY <1>1, SettledTable DEF Turns

\* The turns of a cycle, spelled out.
LEMMA TurnTable ==
  ASSUME NEW t \in Nat
  PROVE  /\ t % 4 = 0 => FlagsAt(t) = {} /\ PlayerAt(t) = 0 /\ (t + 1) % 4 = 1
         /\ t % 4 = 1 => FlagsAt(t) = {HANDOVER} /\ PlayerAt(t) = 1 /\ (t + 1) % 4 = 2
         /\ t % 4 = 2 => FlagsAt(t) = {} /\ PlayerAt(t) = 1 /\ (t + 1) % 4 = 3
         /\ t % 4 = 3 => /\ FlagsAt(t) = {HANDOVER_ACK} /\ PlayerAt(t) = 0
                         /\ (t + 1) % 4 = 0 /\ (t + 2) % 4 = 1
         /\ t % 4 \in 0 .. 3
  BY DEF FlagsAt, PlayerAt

\* A turn is only taken on evidence of the peer's turn.
LEMMA NextNeed ==
  ASSUME NEW t \in Nat, NEW v \in Nat, NEW lead \in {0, 4}, v + lead >= Need(t)
  PROVE  /\ t % 4 = 0 => v + lead >= Need(t + 1)
         /\ t % 4 = 1 /\ v % 4 = 3 => v + lead >= Need(t + 1)
         /\ t % 4 = 2 /\ v % 4 = 1 => v + lead >= Need(t + 1)
         /\ t % 4 = 3 /\ v % 4 = 2 => v + lead >= Need(t + 1) /\ v + lead >= Need(t + 2)
  BY DEF Need, PlayerAt

(***************************************************************************)
(* One call of send_game_state keeps the flags and the player number in    *)
(* step with the turn, and takes a turn only on evidence of the peer's.    *)
(***************************************************************************)
LEMMA FrameTurn ==
  ASSUME NEW t \in Nat, NEW v \in Nat, NEW lead \in {0, 4},
         NEW open \in BOOLEAN, NEW pressed \in BOOLEAN,
         Shows(t, v),
         Backed(v, lead, t),
         NEW new, new = FrameFlags(FlagsAt(t), FlagsAt(v), PlayerAt(t), open, pressed),
         NEW next, next = t + Turns(FlagsAt(t), FlagsAt(v), new)
  PROVE  /\ next \in Nat /\ next >= t
         /\ new = FlagsAt(next)
         /\ FramePlayer(FlagsAt(v), PlayerAt(t), open, pressed) = PlayerAt(next)
         /\ Backed(v, lead, next)
  <1> USE DEF Backed
  <1> DEFINE player == FramePlayer(FlagsAt(v), PlayerAt(t), open, pressed)
  <1>d. HANDOVER # HANDOVER_ACK
    BY DEF HANDOVER, HANDOVER_ACK
  <1>t. t % 4 \in 0 .. 3
    BY TurnTable
  <1>v. /\ v % 4 \in {0, 2} => FlagsAt(v) = {}
        /\ v % 4 = 1 => FlagsAt(v) = {HANDOVER}
        /\ v % 4 = 3 => FlagsAt(v) = {HANDOVER_ACK}
    BY TurnTable
  <1>n. next = t \/ next = t + 1 \/ next = t + 2
    BY DEF Turns
  <1>1. CASE t % 4 = 0
    <2>1. FlagsAt(t) = {} /\ FlagsAt(v) = {} /\ PlayerAt(t) = 0
      BY <1>1, <1>v, TurnTable DEF Shows
    <2>2. CASE open /\ pressed
      <3>1. new = {HANDOVER} /\ player = 1
        BY <2>1, <2>2, SettledTable DEF FrameFlags, FramePlayer, Offers
      <3>2. next = t + 1
        BY <2>1, <3>1, TurnsTable
      <3>3. FlagsAt(next) = {HANDOVER} /\ PlayerAt(next) = 1
        BY <3>2, <1>1, TurnTable
      <3>4. v + lead >= Need(next)
        BY <1>1, <3>2, NextNeed
      <3>5. QED
        BY <3>1, <3>2, <3>3, <3>4
    <2>3. CASE ~(open /\ pressed)
      <3>1. new = {} /\ player = 0
        BY <2>1, <2>3, SettledTable DEF FrameFlags, FramePlayer, Offers
      <3>2. next = t
        BY <2>1, <3>1, TurnsTable
      <3>3. QED
        BY <2>1, <3>1, <3>2
    <2>4. QED
      BY <2>2, <2>3
  <1>2. CASE t % 4 = 1
    <2>1. FlagsAt(t) = {HANDOVER} /\ PlayerAt(t) = 1
      BY <1>2, TurnTable
    <2>2. CASE v % 4 = 2
      <3>1. FlagsAt(v) = {}
        BY <2>2, <1>v
      <3>2. new = {HANDOVER} /\ player = 1
        BY <2>1, <3>1, SettledTable DEF FrameFlags, FramePlayer, Offers
      <3>3. next = t
        <4>1. Turns(FlagsAt(t), FlagsAt(v), new) = 0
          BY <2>1, <3>1, <3>2, TurnsTable, Zenon
        <4>2. QED
          BY <4>1
      <3>4. QED
        BY <2>1, <3>2, <3>3
    <2>3. CASE v % 4 = 3
      <3>1. FlagsAt(v) = {HANDOVER_ACK}
        BY <2>3, <1>v
      <3>2. new = {} /\ player = 1
        <4>1. HANDOVER \notin FlagsAt(v)
          BY <1>d, <3>1
        <4>2. SettledFlags(FlagsAt(t), FlagsAt(v)) = {}
          BY <2>1, <3>1, SettledTable
        <4>3. ~Offers(FlagsAt(v), PlayerAt(t), pressed)
          BY <2>1 DEF Offers
        <4>4. QED
          BY <2>1, <4>1, <4>2, <4>3 DEF FrameFlags, FramePlayer
      <3>3. next = t + 1
        BY <2>1, <3>1, <3>2, TurnsTable
      <3>4. FlagsAt(next) = {} /\ PlayerAt(next) = 1
        BY <3>3, <1>2, TurnTable
      <3>5. v + lead >= Need(next)
        BY <1>2, <2>3, <3>3, NextNeed
      <3>6. QED
        BY <3>2, <3>3, <3>4, <3>5
    <2>4. QED
      BY <1>2, <2>2, <2>3 DEF Shows
  <1>3. CASE t % 4 = 2
    <2>1. FlagsAt(t) = {} /\ PlayerAt(t) = 1
      BY <1>3, TurnTable
    <2>2. CASE v % 4 = 1 /\ open
      <3>1. FlagsAt(v) = {HANDOVER}
        BY <2>2, <1>v
      <3>2. new = {HANDOVER_ACK} /\ player = 0
        BY <2>1, <2>2, <3>1, SettledTable DEF FrameFlags, FramePlayer, Offers
      <3>3. next = t + 1
        BY <2>1, <3>2, TurnsTable
      <3>4. FlagsAt(next) = {HANDOVER_ACK} /\ PlayerAt(next) = 0
        BY <3>3, <1>3, TurnTable
      <3>5. v + lead >= Need(next)
        BY <1>3, <2>2, <3>3, NextNeed
      <3>6. next \in Nat /\ next >= t
        BY <3>3
      <3>7. QED
        BY <3>2, <3>4, <3>5, <3>6
    <2>3. CASE ~(v % 4 = 1 /\ open)
      <3>1. open => HANDOVER \notin FlagsAt(v)
        BY <1>3, <1>v, <1>d, <2>3 DEF Shows
      <3>2. new = {} /\ player = 1
        BY <2>1, <3>1, SettledTable DEF FrameFlags, FramePlayer, Offers
      <3>3. next = t
        BY <2>1, <3>2, TurnsTable
      <3>4. QED
        BY <2>1, <3>2, <3>3
    <2>4. QED
      BY <2>2, <2>3
  <1>4. CASE t % 4 = 3
    <2>1. FlagsAt(t) = {HANDOVER_ACK} /\ PlayerAt(t) = 0
      BY <1>4, TurnTable
    <2>2. CASE v % 4 = 1
      <3>1. FlagsAt(v) = {HANDOVER}
        BY <2>2, <1>v
      <3>2. new = {HANDOVER_ACK} /\ player = 0
        BY <2>1, <3>1, SettledTable DEF FrameFlags, FramePlayer, Offers
      <3>3. next = t
        <4>1. Turns(FlagsAt(t), FlagsAt(v), new) = 0
          BY <2>1, <3>1, <3>2, TurnsTable, Zenon
        <4>2. QED
          BY <4>1
      <3>4. QED
        BY <2>1, <3>2, <3>3
    <2>3. CASE v % 4 = 2
      <3>1. FlagsAt(v) = {}
        BY <2>3, <1>v
      <3>2. v + lead >= Need(t + 1) /\ v + lead >= Need(t + 2)
        BY <1>4, <2>3, NextNeed
      <3>3. CASE open /\ pressed
        <4>1. new = {HANDOVER} /\ player = 1
          BY <2>1, <3>1, <3>3, SettledTable DEF FrameFlags, FramePlayer, Offers
        <4>2. next = t + 2
          BY <2>1, <3>1, <4>1, TurnsTable
        <4>3. FlagsAt(next) = {HANDOVER} /\ PlayerAt(next) = 1
          BY <4>2, <1>4, TurnTable
        <4>4. QED
          BY <3>2, <4>1, <4>2, <4>3
      <3>4. CASE ~(open /\ pressed)
        <4>1. new = {} /\ player = 0
          BY <2>1, <3>1, <3>4, SettledTable DEF FrameFlags, FramePlayer, Offers
        <4>2. next = t + 1
          BY <2>1, <3>1, <4>1, TurnsTable
        <4>3. FlagsAt(next) = {} /\ PlayerAt(next) = 0
          BY <4>2, <1>4, TurnTable
        <4>4. QED
          BY <3>2, <4>1, <4>2, <4>3
      <3>5. QED
        BY <3>3, <3>4
    <2>4. QED
      BY <1>4, <2>2, <2>3 DEF Shows
  <1>5. QED
    BY <1>t, <1>1, <1>2, <1>3, <1>4

-----------------------------------------------------------------------------
\* With two consoles, the peer of the peer is the console itself.
LEMMA PeerFacts ==
  ASSUME NEW c \in Both
  PROVE  /\ Peer(c) \in Both /\ Peer(c) # c /\ Peer(Peer(c)) = c
         /\ \A d \in Both : d = c \/ d = Peer(c)
  BY ConsolesAssumption DEF Both, Peer

\* The view that each console has of the other fits its own turn.
LEMMA ViewFits ==
  ASSUME HandIInv, NEW c \in Both
  PROVE  Shows(turn[c], remote[c].turn)
  <1> DEFINE d == Peer(c)
  <1>1. d \in Both /\ Peer(d) = c /\ Lead(d) = 4 - Lead(c) /\ Lead(c) \in {0, 4}
    BY PeerFacts, ConsolesAssumption DEF Lead, Both, Peer
  <1>2. /\ turn[c] \in Nat /\ turn[d] \in Nat
        /\ remote[c].turn \in Nat /\ remote[d].turn \in Nat
    BY <1>1 DEF HandIInv, HandTypeOK, Snapshots
  <1>3. remote[c].turn <= turn[d] /\ remote[d].turn <= turn[c]
    BY <1>1 DEF HandIInv, Monotone
  <1>4. /\ remote[c].turn + Lead(c) >= Need(turn[c])
        /\ remote[d].turn + (4 - Lead(c)) >= Need(turn[d])
    BY <1>1 DEF HandIInv, Evidence
  <1>5. QED
    BY <1>1, <1>2, <1>3, <1>4, SeenTurn

\* Initially nothing has been sent, and each side knows the other's turn.
LEMMA HandInitInvariant == HandInit => HandIInv
  <1> SUFFICES ASSUME HandInit PROVE HandIInv
    OBVIOUS
  <1>1. HandTypeOK
    BY DEF HandInit, HandTypeOK, Snapshots, Flags, FirstTurn, MenuScreens, SONG_SCREEN
  <1>2. TurnsCount
    <2> SUFFICES ASSUME NEW c \in Both
                 PROVE  /\ our[c].flags = FlagsAt(turn[c])
                        /\ gn_our_playernum[c] = PlayerAt(turn[c])
                        /\ remote[c].flags = FlagsAt(remote[c].turn)
      BY DEF TurnsCount
    <2>1. FlagsAt(0) = {} /\ FlagsAt(2) = {} /\ PlayerAt(0) = 0 /\ PlayerAt(2) = 1
      BY DEF FlagsAt, PlayerAt
    <2>2. QED
      BY <2>1, PeerFacts DEF HandInit, FirstTurn
  <1>3. NetFlags
    BY DEF HandInit, NetFlags
  <1>4. Monotone
    BY PeerFacts DEF HandInit, Monotone, FirstTurn
  <1>5. Evidence
    <2>1. Need(0) = 2 /\ Need(2) = 3
      BY DEF Need, PlayerAt
    <2>2. QED
      BY <2>1, ConsolesAssumption DEF HandInit, Evidence, Lead, FirstTurn, Both, Peer
  <1>6. QED
    BY <1>1, <1>2, <1>3, <1>4, <1>5 DEF HandIInv

(***************************************************************************)
(* The step of every frame: send_game_state, whatever screen the caller    *)
(* has stored, and whether or not a buffer was found.                      *)
(***************************************************************************)
LEMMA HandSendInvariant ==
  ASSUME HandIInv, NEW c \in Both, NEW screen \in MenuScreens,
         NEW ingame \in BOOLEAN, NEW pressed \in BOOLEAN, NEW sent \in BOOLEAN,
         SendState(c, screen, ingame, pressed, sent)
  PROVE  HandIInv'
  <1> DEFINE seen   == remote[c].flags
             open   == ~ingame /\ screen = SONG_SCREEN
             player == gn_our_playernum[c]
             flags  == FrameFlags(our[c].flags, seen, player, open, pressed)
             turns  == turn[c] + Turns(our[c].flags, seen, flags)
             seq    == our[c].seq + 1
             packet == [src |-> c, state |-> [seq |-> seq, flags |-> flags, turn |-> turns]]
  <1>1. /\ turn[c] \in Nat /\ remote[c].turn \in Nat /\ our[c].seq \in Nat
        /\ Lead(c) \in {0, 4} /\ open \in BOOLEAN /\ Peer(c) \in Both
        /\ Peer(c) # c /\ Peer(Peer(c)) = c
    BY PeerFacts DEF HandIInv, HandTypeOK, Snapshots, Lead
  <1>2. /\ our[c].flags = FlagsAt(turn[c]) /\ seen = FlagsAt(remote[c].turn)
        /\ player = PlayerAt(turn[c])
        /\ remote[c].turn + Lead(c) >= Need(turn[c])
    BY DEF HandIInv, TurnsCount, Evidence
  <1>3. Shows(turn[c], remote[c].turn)
    BY ViewFits
  <1>4. /\ turns \in Nat /\ turns >= turn[c]
        /\ flags = FlagsAt(turns)
        /\ FramePlayer(seen, player, open, pressed) = PlayerAt(turns)
        /\ remote[c].turn + Lead(c) >= Need(turns)
    <2> HIDE DEF open
    <2>1. QED
      BY <1>1, <1>2, <1>3, FrameTurn DEF Backed
  <1>5. flags \in Flags /\ PlayerAt(turns) \in {0, 1}
    BY <1>4 DEF FlagsAt, PlayerAt, Flags
  <1>6. /\ mm_screen' = [mm_screen EXCEPT ![c] = screen]
        /\ gn_ingame' = [gn_ingame EXCEPT ![c] = ingame]
        /\ gn_our_playernum' = [gn_our_playernum EXCEPT ![c] = PlayerAt(turns)]
        /\ turn' = [turn EXCEPT ![c] = turns]
        /\ remote' = remote
    BY <1>4 DEF SendState
  <1>7. \/ /\ our' = [our EXCEPT ![c] = [seq |-> seq, flags |-> flags]]
           /\ datagrams' = datagrams \cup {packet}
        \/ /\ our' = [our EXCEPT ![c].flags = flags]
           /\ datagrams' = datagrams
    BY DEF SendState
  <1> HIDE DEF flags, turns, seq, open, player, seen
  <1>8. seq \in Nat /\ seq > our[c].seq
    BY <1>1 DEF seq
  <1>9. HandTypeOK'
    <2>1. packet \in [src : Both, state : Snapshots]
      BY <1>4, <1>5, <1>8 DEF Snapshots
    <2>2. our' \in [Both -> [seq : Nat, flags : Flags]]
      <3>1. our \in [Both -> [seq : Nat, flags : Flags]]
        BY DEF HandIInv, HandTypeOK
      <3>2. CASE our' = [our EXCEPT ![c] = [seq |-> seq, flags |-> flags]]
        BY <1>5, <1>8, <3>1, <3>2
      <3>3. CASE our' = [our EXCEPT ![c].flags = flags]
        BY <1>5, <3>1, <3>3
      <3>4. QED
        BY <1>7, <3>2, <3>3
    <2>3. datagrams' \subseteq [src : Both, state : Snapshots]
      BY <1>7, <2>1 DEF HandIInv, HandTypeOK
    <2>4. QED
      BY <1>4, <1>5, <1>6, <2>2, <2>3 DEF HandIInv, HandTypeOK
  <1>10. /\ our'[c].flags = flags /\ our'[c].seq >= our[c].seq
         /\ turn'[c] = turns
         /\ our'[Peer(c)] = our[Peer(c)] /\ turn'[Peer(c)] = turn[Peer(c)]
         /\ gn_our_playernum'[c] = PlayerAt(turns)
         /\ gn_our_playernum'[Peer(c)] = gn_our_playernum[Peer(c)]
    BY <1>1, <1>6, <1>7, <1>8 DEF HandIInv, HandTypeOK
  <1>11. TurnsCount'
    BY <1>4, <1>6, <1>10, PeerFacts DEF HandIInv, TurnsCount
  <1>12. NetFlags'
    BY <1>4, <1>7 DEF HandIInv, NetFlags
  <1>13. Monotone'
    <2>1. \A p \in datagrams : p.state.seq \in Nat /\ p.state.turn \in Nat /\ p.src \in Both
      BY DEF HandIInv, HandTypeOK, Snapshots
    <2>2. \A d \in Both : /\ turn[d] \in Nat /\ our[d].seq \in Nat
                              /\ remote[d].turn \in Nat /\ remote[d].seq \in Nat
      BY DEF HandIInv, HandTypeOK, Snapshots
    <2>3. \A d \in Both : our'[d].seq >= our[d].seq /\ turn'[d] >= turn[d]
      BY <1>4, <1>10, <2>2, PeerFacts
    <2>4. \A p \in datagrams : p.state.seq <= our'[p.src].seq /\ p.state.turn <= turn'[p.src]
      <3>1. our'[c].seq \in Nat /\ turn'[c] \in Nat
        BY <1>9 DEF HandTypeOK
      <3>2. \A d \in Both : our'[d].seq \in Nat /\ turn'[d] \in Nat
        BY <1>9 DEF HandTypeOK
      <3>3. QED
        BY <2>1, <2>2, <2>3, <3>2 DEF HandIInv, Monotone
    <2>5. \A d \in Both : /\ remote[d].seq <= our'[Peer(d)].seq
                              /\ remote[d].turn <= turn'[Peer(d)]
      <3>1. \A d \in Both : our'[d].seq \in Nat /\ turn'[d] \in Nat
        BY <1>9 DEF HandTypeOK
      <3>2. QED
        BY <2>2, <2>3, <3>1, PeerFacts DEF HandIInv, Monotone
    <2>6. CASE datagrams' = datagrams
      BY <1>6, <2>4, <2>5, <2>6 DEF HandIInv, Monotone
    <2>7. CASE /\ our' = [our EXCEPT ![c] = [seq |-> seq, flags |-> flags]]
               /\ datagrams' = datagrams \cup {packet}
      <3>1. our'[c].seq = seq
        BY <2>7 DEF HandIInv, HandTypeOK
      <3>2. packet.src = c /\ packet.state.seq = seq /\ packet.state.turn = turns
        OBVIOUS
      <3>3. \A p \in datagrams : p.src = c => p.state.seq < seq /\ p.state.turn <= turns
        BY <1>1, <1>4, <1>8, <2>1 DEF HandIInv, Monotone
      <3>4. remote[Peer(c)].turn <= turns
        BY <1>1, <1>4, <2>2 DEF HandIInv, Monotone
      <3> HIDE DEF packet
      <3>5. \A p \in datagrams' : p.state.seq <= our'[p.src].seq /\ p.state.turn <= turn'[p.src]
        BY <1>4, <1>8, <1>10, <2>4, <2>7, <3>1, <3>2
      <3>6. \A p \in datagrams' : p.state.seq > remote'[Peer(p.src)].seq
                              => p.state.turn >= remote'[Peer(p.src)].turn
        BY <1>4, <1>6, <2>2, <2>7, <3>2, <3>4 DEF HandIInv, Monotone
      <3>7. \A p, q \in datagrams' :
              p.src = q.src /\ p.state.seq < q.state.seq => p.state.turn <= q.state.turn
        <4> SUFFICES ASSUME NEW p \in datagrams', NEW q \in datagrams', p.src = q.src,
                            p.state.seq < q.state.seq
                     PROVE  p.state.turn <= q.state.turn
          OBVIOUS
        <4>1. CASE p = packet
          <5>1. q = packet \/ (q \in datagrams /\ q.src = c)
            BY <2>7, <3>2, <4>1
          <5>2. ~(q.state.seq > seq)
            BY <1>8, <2>1, <3>2, <3>3, <5>1
          <5>3. QED
            BY <3>2, <4>1, <5>2, <1>8, <5>1, <2>1
        <4>2. CASE q = packet /\ p # packet
          BY <2>7, <3>2, <3>3, <4>2
        <4>3. CASE q # packet /\ p # packet
          BY <2>7, <4>3 DEF HandIInv, Monotone
        <4>4. QED
          BY <4>1, <4>2, <4>3
      <3>8. QED
        BY <1>6, <2>5, <3>5, <3>6, <3>7 DEF Monotone
    <2>8. QED
      BY <1>7, <2>6, <2>7
  <1>14. Evidence'
    BY <1>4, <1>6, <1>10, PeerFacts DEF HandIInv, Evidence
  <1>15. QED
    BY <1>9, <1>11, <1>12, <1>13, <1>14 DEF HandIInv

(***************************************************************************)
(* Accepting a state: newer by seq_num is later in the peer's turns, so    *)
(* the evidence can only grow (the `>' of HandleUdpGameNet).               *)
(***************************************************************************)
LEMMA ReceiveInvariant ==
  ASSUME HandIInv, NEW c \in Both, Receive(c)
  PROVE  HandIInv'
  <1>1. PICK p \in datagrams : /\ p.src = Peer(c)
                         /\ p.state.seq > remote[c].seq
                         /\ remote' = [remote EXCEPT ![c] = p.state]
    BY DEF Receive
  <1>2. /\ our' = our /\ gn_our_playernum' = gn_our_playernum
        /\ mm_screen' = mm_screen /\ gn_ingame' = gn_ingame
        /\ datagrams' = datagrams /\ turn' = turn
    BY DEF Receive
  <1>3. /\ p.state \in Snapshots
        /\ Peer(c) \in Both /\ Peer(c) # c /\ Peer(Peer(c)) = c
    BY PeerFacts DEF HandIInv, HandTypeOK
  <1>4. /\ remote'[c] = p.state
        /\ \A d \in Both : d # c => remote'[d] = remote[d]
    BY <1>1 DEF HandIInv, HandTypeOK
  <1>5. p.state.turn >= remote[c].turn
    BY <1>1, <1>3 DEF HandIInv, Monotone
  <1>6. HandTypeOK'
    BY <1>1, <1>2, <1>3 DEF HandIInv, HandTypeOK
  <1>7. TurnsCount'
    BY <1>2, <1>4 DEF HandIInv, TurnsCount, NetFlags
  <1>8. NetFlags'
    BY <1>2 DEF HandIInv, NetFlags
  <1>9. Monotone'
    <2>1. \A d \in Both : /\ remote'[d].seq <= our[Peer(d)].seq
                              /\ remote'[d].turn <= turn[Peer(d)]
      BY <1>1, <1>4 DEF HandIInv, Monotone
    <2>2. \A q \in datagrams : q.state.seq > remote'[Peer(q.src)].seq
                           => q.state.turn >= remote'[Peer(q.src)].turn
      <3> SUFFICES ASSUME NEW q \in datagrams, q.state.seq > remote'[Peer(q.src)].seq
                   PROVE  q.state.turn >= remote'[Peer(q.src)].turn
        OBVIOUS
      <3>1. q.src \in Both /\ p.state.seq \in Nat /\ q.state.seq \in Nat
            /\ p.state.turn \in Nat /\ q.state.turn \in Nat
        BY DEF HandIInv, HandTypeOK, Snapshots
      <3>2. CASE q.src = Peer(c)
        <4>1. q.state.seq > p.state.seq
          BY <1>3, <1>4, <3>2
        <4>2. p.state.turn <= q.state.turn
          BY <1>1, <3>1, <3>2, <4>1 DEF HandIInv, Monotone
        <4>3. QED
          BY <1>3, <1>4, <3>1, <3>2, <4>2
      <3>3. CASE q.src # Peer(c)
        <4>1. Peer(q.src) # c /\ Peer(q.src) \in Both
          BY <3>1, <3>3, PeerFacts
        <4>2. QED
          BY <1>4, <4>1 DEF HandIInv, Monotone
      <3>4. QED
        BY <3>2, <3>3
    <2>3. QED
      BY <1>2, <2>1, <2>2 DEF HandIInv, Monotone
  <1>10. Evidence'
    <2>1. /\ p.state.turn \in Nat /\ remote[c].turn \in Nat
          /\ Lead(c) \in {0, 4} /\ turn[c] \in Nat /\ Need(turn[c]) \in Nat
      BY <1>3 DEF HandIInv, HandTypeOK, Snapshots, Lead, Need
    <2>2. p.state.turn + Lead(c) >= Need(turn[c])
      BY <1>5, <2>1 DEF HandIInv, Evidence
    <2>3. QED
      BY <1>2, <1>4, <2>2 DEF HandIInv, Evidence
  <1>11. QED
    BY <1>6, <1>7, <1>8, <1>9, <1>10 DEF HandIInv

\* Leaving the stage moves a local variable only.
LEMMA LeaveStageInvariant ==
  ASSUME HandIInv, NEW c \in Both, LeaveStage(c)
  PROVE  HandIInv'
  <1>1. /\ our' = our /\ remote' = remote /\ gn_our_playernum' = gn_our_playernum
        /\ datagrams' = datagrams /\ turn' = turn
    BY DEF LeaveStage
  <1>2. HandTypeOK'
    BY DEF HandIInv, HandTypeOK, LeaveStage, MenuScreens, SONG_SCREEN
  <1>3. QED
    BY <1>1, <1>2 DEF HandIInv, TurnsCount, NetFlags, Monotone, Evidence

\* Every step keeps the inductive invariant.
LEMMA HandNextInvariant == HandIInv /\ [HandNext]_handVars => HandIInv'
  <1> SUFFICES ASSUME HandIInv, [HandNext]_handVars PROVE HandIInv'
    OBVIOUS
  <1>1. ASSUME NEW c \in Both, MenuFrame(c) PROVE HandIInv'
    BY <1>1, HandSendInvariant DEF MenuFrame
  <1>2. ASSUME NEW c \in Both, StartStage(c) PROVE HandIInv'
    <2>1. mm_screen[c] \in MenuScreens
      BY DEF HandIInv, HandTypeOK
    <2>2. QED
      BY <1>2, <2>1, HandSendInvariant DEF StartStage
  <1>3. ASSUME NEW c \in Both, StageFrame(c) PROVE HandIInv'
    <2>1. mm_screen[c] \in MenuScreens
      BY DEF HandIInv, HandTypeOK
    <2>2. QED
      BY <1>3, <2>1, HandSendInvariant DEF StageFrame
  <1>4. ASSUME NEW c \in Both, LeaveStage(c) PROVE HandIInv'
    BY <1>4, LeaveStageInvariant
  <1>5. ASSUME NEW c \in Both, Receive(c) PROVE HandIInv'
    BY <1>5, ReceiveInvariant
  <1>6. CASE UNCHANGED handVars
    BY <1>6 DEF handVars, HandIInv, HandTypeOK, TurnsCount, NetFlags, Monotone, Evidence
  <1>7. QED
    BY <1>1, <1>2, <1>3, <1>4, <1>5, <1>6 DEF HandNext

(***************************************************************************)
(* In every reachable state of the hand-over (send_game_state and          *)
(* HandleUdpGameNet in a session) the inductive invariant holds.           *)
(***************************************************************************)
THEOREM HandInvariance == HandSpec => []HandIInv
  <1>1. QED
    BY HandInitInvariant, HandNextInvariant, PTL DEF HandSpec

\* The state of a session never leaves its types (struct game_state's flags).
THEOREM HandTypeCorrect == HandSpec => []HandTypeOK
  <1>1. HandIInv => HandTypeOK
    BY DEF HandIInv
  <1>2. QED
    BY <1>1, HandInvariance, PTL

\* What the two consoles know of each other, in terms of the two turns.
LEMMA TurnGap ==
  ASSUME HandIInv
  PROVE  /\ turn[Host] \in Nat /\ turn[Joiner] \in Nat
         /\ remote[Host].turn \in Nat /\ remote[Joiner].turn \in Nat
         /\ remote[Host].turn <= turn[Joiner] /\ remote[Joiner].turn <= turn[Host]
         /\ remote[Host].turn >= Need(turn[Host])
         /\ remote[Joiner].turn + 4 >= Need(turn[Joiner])
  <1>1. Host \in Both /\ Joiner \in Both /\ Peer(Host) = Joiner /\ Peer(Joiner) = Host
        /\ Lead(Host) = 0 /\ Lead(Joiner) = 4
    BY ConsolesAssumption DEF Both, Peer, Lead
  <1>2. QED
    BY <1>1 DEF HandIInv, HandTypeOK, Snapshots, Monotone, Evidence

\* The turns at which one console is Player 1 and the other is not.
LEMMA TurnPairs ==
  ASSUME NEW a \in Nat, NEW b \in Nat, NEW va \in Nat, NEW vb \in Nat,
         va <= b, vb <= a, va >= Need(a), vb + 4 >= Need(b)
  PROVE  /\ ~(PlayerAt(a) = 0 /\ PlayerAt(b) = 0)
         /\ PlayerAt(a) = 1 /\ PlayerAt(b) = 1 =>
              \/ a % 4 = 1 /\ b % 4 = 2 /\ va % 4 # 3
              \/ a % 4 = 2 /\ b % 4 = 1 /\ vb % 4 # 3
  BY DEF Need, PlayerAt

(***************************************************************************)
(* At most one console is Player 1, for any interleaving of frames and any *)
(* loss, duplication and reordering of the datagrams.                      *)
(***************************************************************************)
THEOREM AtMostOneMaster == HandSpec => []OnePlayerOne
  <1>1. HandIInv => OnePlayerOne
    <2> SUFFICES ASSUME HandIInv PROVE OnePlayerOne
      OBVIOUS
    <2>1. gn_our_playernum[Host] = PlayerAt(turn[Host])
          /\ gn_our_playernum[Joiner] = PlayerAt(turn[Joiner])
      BY DEF HandIInv, TurnsCount, Both
    <2>2. ~(PlayerAt(turn[Host]) = 0 /\ PlayerAt(turn[Joiner]) = 0)
      BY TurnGap, TurnPairs
    <2>3. QED
      BY <2>1, <2>2 DEF OnePlayerOne
  <1>2. QED
    BY <1>1, HandInvariance, PTL

\* Where the two turns stand when neither console is Player 1.
LEMMA BothPlayerTwo ==
  ASSUME HandIInv, gn_our_playernum[Host] = 1, gn_our_playernum[Joiner] = 1
  PROVE  \/ /\ our[Host].flags = {HANDOVER} /\ our[Joiner].flags = {}
            /\ HANDOVER_ACK \notin remote[Host].flags
         \/ /\ our[Joiner].flags = {HANDOVER} /\ our[Host].flags = {}
            /\ HANDOVER_ACK \notin remote[Joiner].flags
  <1>1. /\ our[Host].flags = FlagsAt(turn[Host])
        /\ our[Joiner].flags = FlagsAt(turn[Joiner])
        /\ remote[Host].flags = FlagsAt(remote[Host].turn)
        /\ remote[Joiner].flags = FlagsAt(remote[Joiner].turn)
        /\ PlayerAt(turn[Host]) = 1 /\ PlayerAt(turn[Joiner]) = 1
    BY DEF HandIInv, TurnsCount, Both
  <1>2. \/ /\ turn[Host] % 4 = 1 /\ turn[Joiner] % 4 = 2 /\ remote[Host].turn % 4 # 3
        \/ /\ turn[Host] % 4 = 2 /\ turn[Joiner] % 4 = 1 /\ remote[Joiner].turn % 4 # 3
    BY <1>1, TurnGap, TurnPairs
  <1>3. \A t \in Nat : t % 4 # 3 => HANDOVER_ACK \notin FlagsAt(t)
    BY DEF FlagsAt, HANDOVER, HANDOVER_ACK
  <1>4. QED
    BY <1>1, <1>2, <1>3, TurnGap, TurnTable

(***************************************************************************)
(* The role of Player 1 is never lost: with two Player 2s, one offer is    *)
(* standing, and nothing the offering side has seen will withdraw it.      *)
(***************************************************************************)
THEOREM RoleIsNotLost == HandSpec => []RoleNotLost
  <1>1. HandIInv => RoleNotLost
    <2>1. Peer(Host) = Joiner /\ Peer(Joiner) = Host
      BY ConsolesAssumption DEF Peer
    <2>2. QED
      BY <2>1, BothPlayerTwo DEF RoleNotLost, Both
  <1>2. QED
    BY <1>1, HandInvariance, PTL

-----------------------------------------------------------------------------
\* Where the token of PlayerOne is, as the console c sees it.
TokenAt(c) ==
  /\ gn_our_playernum[c] \in {0, 1}
  /\ gn_our_playernum[c] = 0 => gn_our_playernum[Peer(c)] = 1 /\ Holder = c /\ ~Moving
  /\ gn_our_playernum[c] = 1 /\ gn_our_playernum[Peer(c)] = 1 =>
       /\ Moving
       /\ (our[c].flags = {} /\ Holder = c) \/ (our[c].flags = {HANDOVER} /\ Holder = Peer(c))
       /\ Holder = c <=> our[Peer(c)].flags = {HANDOVER}

\* The flags alone tell where the token is.
LEMMA TokenPlace == HandIInv => \A c \in Both : TokenAt(c)
  <1> SUFFICES ASSUME HandIInv, NEW c \in Both PROVE TokenAt(c)
    OBVIOUS
  <1>1. /\ gn_our_playernum[Host] \in {0, 1} /\ gn_our_playernum[Joiner] \in {0, 1}
        /\ ~(gn_our_playernum[Host] = 0 /\ gn_our_playernum[Joiner] = 0)
    <2>1. gn_our_playernum[Host] = PlayerAt(turn[Host])
          /\ gn_our_playernum[Joiner] = PlayerAt(turn[Joiner])
      BY DEF HandIInv, TurnsCount, Both
    <2>2. QED
      BY <2>1, TurnGap, TurnPairs DEF PlayerAt
  <1>2. Host # Joiner /\ {HANDOVER} # {} /\ HANDOVER \in {HANDOVER} /\ HANDOVER \notin {}
    BY ConsolesAssumption
  <1>3. CASE c = Host
    <2>1. Peer(c) = Joiner /\ (gn_our_playernum[c] = 0 => gn_our_playernum[Joiner] = 1)
      BY <1>1, <1>2, <1>3 DEF Peer
    <2>2. ASSUME gn_our_playernum[c] = 0 PROVE Holder = c /\ ~Moving
      <3>1. Holder = Host
        BY <1>3, <2>1, <2>2, <1>1 DEF Holder
      <3>2. ~Moving
        BY <1>3, <2>2 DEF Moving
      <3>3. QED
        BY <1>3, <3>1, <3>2
    <2>3. ASSUME gn_our_playernum[c] = 1, gn_our_playernum[Joiner] = 1
          PROVE  /\ Moving
                 /\ \/ our[c].flags = {} /\ our[Joiner].flags = {HANDOVER} /\ Holder = c
                    \/ /\ our[c].flags = {HANDOVER} /\ our[Joiner].flags = {}
                       /\ Holder = Joiner
      BY <1>2, <1>3, <2>3, BothPlayerTwo DEF Holder, Moving
    <2>4. QED
      <3>1. gn_our_playernum[c] \in {0, 1}
        BY <1>1, <1>3
      <3>2. CASE gn_our_playernum[c] = 0
        BY <2>1, <2>2, <3>2 DEF TokenAt
      <3>3. CASE gn_our_playernum[c] = 1 /\ gn_our_playernum[Joiner] = 1
        <4>1. Moving /\ Holder \in {c, Peer(c)} /\ c # Peer(c)
          BY <1>2, <1>3, <2>1, <2>3, <3>3
        <4>2. (our[c].flags = {} /\ Holder = c) \/ (our[c].flags = {HANDOVER} /\ Holder = Peer(c))
          BY <1>3, <2>1, <2>3, <3>3
        <4>3. Holder = c <=> our[Peer(c)].flags = {HANDOVER}
          BY <1>2, <1>3, <2>1, <2>3, <3>3
        <4>4. QED
          BY <3>1, <3>3, <4>1, <4>2, <4>3 DEF TokenAt
      <3>4. CASE gn_our_playernum[c] = 1 /\ gn_our_playernum[Joiner] # 1
        BY <2>1, <3>4 DEF TokenAt
      <3>5. QED
        BY <3>1, <3>2, <3>3, <3>4
  <1>4. CASE c = Joiner
    <2>1. Peer(c) = Host /\ (gn_our_playernum[c] = 0 => gn_our_playernum[Host] = 1)
      BY <1>1, <1>2, <1>4 DEF Peer
    <2>2. ASSUME gn_our_playernum[c] = 0 PROVE Holder = c /\ ~Moving
      <3>1. Holder = Joiner
        BY <1>4, <2>1, <2>2, <1>1 DEF Holder
      <3>2. ~Moving
        BY <1>4, <2>2 DEF Moving
      <3>3. QED
        BY <1>4, <3>1, <3>2
    <2>3. ASSUME gn_our_playernum[c] = 1, gn_our_playernum[Host] = 1
          PROVE  /\ Moving
                 /\ \/ our[c].flags = {} /\ our[Host].flags = {HANDOVER} /\ Holder = c
                    \/ /\ our[c].flags = {HANDOVER} /\ our[Host].flags = {}
                       /\ Holder = Host
      BY <1>2, <1>4, <2>3, BothPlayerTwo DEF Holder, Moving
    <2>4. QED
      <3>1. gn_our_playernum[c] \in {0, 1}
        BY <1>1, <1>4
      <3>2. CASE gn_our_playernum[c] = 0
        BY <2>1, <2>2, <3>2 DEF TokenAt
      <3>3. CASE gn_our_playernum[c] = 1 /\ gn_our_playernum[Host] = 1
        <4>1. Moving /\ Holder \in {c, Peer(c)} /\ c # Peer(c)
          BY <1>2, <1>4, <2>1, <2>3, <3>3
        <4>2. (our[c].flags = {} /\ Holder = c) \/ (our[c].flags = {HANDOVER} /\ Holder = Peer(c))
          BY <1>4, <2>1, <2>3, <3>3
        <4>3. Holder = c <=> our[Peer(c)].flags = {HANDOVER}
          BY <1>2, <1>4, <2>1, <2>3, <3>3
        <4>4. QED
          BY <3>1, <3>3, <4>1, <4>2, <4>3 DEF TokenAt
      <3>4. CASE gn_our_playernum[c] = 1 /\ gn_our_playernum[Host] # 1
        BY <2>1, <3>4 DEF TokenAt
      <3>5. QED
        BY <3>1, <3>2, <3>3, <3>4
  <1>5. QED
    BY <1>3, <1>4 DEF Both

\* A call of send_game_state gives the token away, takes it, or leaves it.
LEMMA SendRefines ==
  ASSUME HandIInv, HandIInv', \A c \in Both : TokenAt(c), (\A c \in Both : TokenAt(c))',
         NEW c \in Both, NEW screen \in MenuScreens,
         NEW ingame \in BOOLEAN, NEW pressed \in BOOLEAN, NEW sent \in BOOLEAN,
         SendState(c, screen, ingame, pressed, sent)
  PROVE  Token!TokenNext \/ UNCHANGED <<Holder, Moving>>
  <1> DEFINE d == Peer(c)
             open == ~ingame /\ screen = SONG_SCREEN
  <1>1. d \in Both /\ d # c /\ Peer(d) = c
    BY PeerFacts
  <1>2. our'[d] = our[d] /\ gn_our_playernum'[d] = gn_our_playernum[d]
    <2>1. our \in [Both -> [seq : Nat, flags : Flags]]
          /\ gn_our_playernum \in [Both -> {0, 1}]
      BY DEF HandIInv, HandTypeOK
    <2>2. QED
      BY <1>1, <2>1 DEF SendState
  <1>3. TokenAt(c) /\ TokenAt(d) /\ TokenAt(c)' /\ TokenAt(d)'
    BY <1>1
  <1>4. CASE gn_our_playernum[c] = 0 /\ gn_our_playernum'[c] = 1
    <2>1. Holder = c /\ ~Moving /\ gn_our_playernum[d] = 1
      BY <1>3, <1>4 DEF TokenAt
    <2>2. our'[c].flags = {HANDOVER}
      <3>1. our'[c].flags = FrameFlags(our[c].flags, remote[c].flags, gn_our_playernum[c],
                                       open, pressed)
        BY DEF SendState, HandIInv, HandTypeOK
      <3>2. gn_our_playernum'[c] = FramePlayer(remote[c].flags, gn_our_playernum[c],
                                               open, pressed)
        BY DEF SendState, HandIInv, HandTypeOK
      <3>3. HANDOVER \in our'[c].flags
        BY <1>4, <3>1, <3>2 DEF FrameFlags, FramePlayer
      <3>4. our'[c].flags = {} \/ our'[c].flags = {HANDOVER}
        BY <1>2, <1>3, <1>4, <2>1 DEF TokenAt
      <3>5. QED
        BY <3>3, <3>4
    <2>3. Moving' /\ Holder' = d
      BY <1>2, <1>3, <1>4, <2>1, <2>2 DEF TokenAt
    <2>4. Token!Give(c)
      BY <2>1, <2>3 DEF Token!Give, Token!Peer, Peer
    <2>5. QED
      BY <2>4 DEF Token!TokenNext, Token!Consoles, Both
  <1>5. CASE gn_our_playernum[c] = 1 /\ gn_our_playernum'[c] = 0
    <2>1. Holder' = c /\ ~Moving' /\ gn_our_playernum[d] = 1
      BY <1>2, <1>3, <1>5 DEF TokenAt
    <2>2. our[c].flags # {HANDOVER}
      <3>1. gn_our_playernum'[c] = FramePlayer(remote[c].flags, gn_our_playernum[c],
                                               open, pressed)
        BY DEF SendState, HandIInv, HandTypeOK
      <3>2. HANDOVER \in remote[c].flags
        BY <1>5, <3>1 DEF FramePlayer
      <3>3. /\ our[c].flags = FlagsAt(turn[c]) /\ remote[c].flags = FlagsAt(remote[c].turn)
            /\ turn[c] \in Nat /\ remote[c].turn \in Nat
        BY DEF HandIInv, TurnsCount, HandTypeOK, Snapshots
      <3>4. remote[c].turn % 4 = 1
        BY <3>2, <3>3 DEF FlagsAt, HANDOVER, HANDOVER_ACK
      <3>5. turn[c] % 4 # 1
        BY <3>4, ViewFits DEF Shows
      <3>6. QED
        BY <3>3, <3>5 DEF FlagsAt, HANDOVER, HANDOVER_ACK
    <2>3. Moving /\ Holder = c
      BY <1>3, <1>5, <2>1, <2>2 DEF TokenAt
    <2>4. Token!Take(c)
      BY <2>1, <2>3 DEF Token!Take
    <2>5. QED
      BY <2>4 DEF Token!TokenNext, Token!Consoles, Both
  <1>6. CASE gn_our_playernum[c] = gn_our_playernum'[c]
    <2>1. Moving' <=> Moving
      BY <1>1, <1>2, <1>6, PeerFacts DEF Moving, Both
    <2>2. Holder' = Holder
      <3>1. CASE gn_our_playernum[c] = 0
        BY <1>3, <1>6, <3>1 DEF TokenAt
      <3>2. CASE gn_our_playernum[d] = 0
        BY <1>2, <1>3, <3>2 DEF TokenAt
      <3>3. CASE gn_our_playernum[c] = 1 /\ gn_our_playernum[d] = 1
        BY <1>1, <1>2, <1>3, <1>6, <3>3 DEF TokenAt
      <3>4. QED
        BY <1>3, <3>1, <3>2, <3>3 DEF TokenAt
    <2>3. Moving' = Moving
      BY <2>1 DEF Moving
    <2>4. QED
      BY <2>2, <2>3
  <1>7. QED
    BY <1>3, <1>4, <1>5, <1>6 DEF TokenAt

\* Every step of HandNext is a step of PlayerOne, or leaves the token alone.
LEMMA NextRefines ==
  ASSUME HandIInv, HandIInv', \A c \in Both : TokenAt(c), (\A c \in Both : TokenAt(c))',
         [HandNext]_handVars
  PROVE  [Token!TokenNext]_(Token!tokenVars)
  <1> SUFFICES Token!TokenNext \/ UNCHANGED <<Holder, Moving>>
    BY DEF Token!tokenVars
  <1>1. ASSUME NEW c \in Both, MenuFrame(c)
        PROVE  Token!TokenNext \/ UNCHANGED <<Holder, Moving>>
    BY <1>1, SendRefines DEF MenuFrame
  <1>2. ASSUME NEW c \in Both, StartStage(c) \/ StageFrame(c)
        PROVE  Token!TokenNext \/ UNCHANGED <<Holder, Moving>>
    <2>1. mm_screen[c] \in MenuScreens
      BY DEF HandIInv, HandTypeOK
    <2>2. QED
      BY <1>2, <2>1, SendRefines DEF StartStage, StageFrame
  <1>3. ASSUME NEW c \in Both, LeaveStage(c) \/ Receive(c) \/ UNCHANGED handVars
        PROVE  UNCHANGED <<Holder, Moving>>
    <2>1. our' = our /\ gn_our_playernum' = gn_our_playernum
      BY <1>3 DEF LeaveStage, Receive, handVars
    <2>2. QED
      BY <2>1 DEF Holder, Moving
  <1>4. Host \in Both
    BY DEF Both
  <1>5. QED
    BY <1>1, <1>2, <1>3, <1>4 DEF HandNext

(***************************************************************************)
(* Every step of the two consoles and the network is a step of the token   *)
(* of PlayerOne, or leaves the token where it is.                          *)
(***************************************************************************)
THEOREM Refinement == HandSpec => ImplementsToken
  <1>1. HandInit => Token!TokenInit
    BY ConsolesAssumption DEF HandInit, Token!TokenInit, Holder, Moving, Both
  <1>2. HandIInv /\ HandIInv' /\ (\A c \in Both : TokenAt(c))
        /\ (\A c \in Both : TokenAt(c))' /\ [HandNext]_handVars
          => [Token!TokenNext]_(Token!tokenVars)
    BY NextRefines
  <1>3. QED
    BY <1>1, <1>2, HandInvariance, TokenPlace, PTL DEF HandSpec, ImplementsToken, Token!TokenSpec

-----------------------------------------------------------------------------
(***************************************************************************)
(* Sessions (GameNet).  The inductive invariant has a part for each        *)
(* console (Fine), a part for what is under way (World), and a part for    *)
(* the two ends of each session that its host is in for the first time     *)
(* (Paced).                                                                *)
(***************************************************************************)

\* Where gn_state may be on each screen.
Placed(s) ==
  /\ s.menu \in {OUT, MPTYPE, JOIN} => s.gn_state = "IDLE"
  /\ s.menu = HOST => s.gn_state \in {"HOSTING", "IDLE", "CONNECTED"}
  /\ s.menu = JOINING => s.gn_state # "HOSTING"
  /\ s.menu \in MenuScreens => s.gn_state \in {"IDLE", "CONNECTED"}

\* The two ends of a session: the host's port is GAME_PORT, the joiner's is not.
Addressed(c, s) ==
  /\ s.gn_state = "HOSTING" => s.gn_src_port = GAME_PORT
  /\ s.gn_state \in {"CONNECTING_ARP", "CONNECTING"} =>
       /\ s.gn_src_port # GAME_PORT /\ s.gn_remote_port = GAME_PORT
       /\ s.gn_remote_ip \in Consoles \cup {BROADCAST}
  /\ s.gn_state = "CONNECTED" =>
       /\ s.gn_remote_ip \in Consoles \ {c}
       /\ s.gn_src_port = GAME_PORT <=> s.gn_remote_port # GAME_PORT

\* What is sent in sessions, and what c has sent from port q.
Kinds == {"GAMESTATE", "FIN"}
Own(c, q) == {p \in net : p.type \in Kinds /\ p.src = c /\ p.sport = q}

\* A port is used for one attempt, and for one session of the joiner.
Unused(c, s) == s.gn_state \in {"CONNECTING_ARP", "CONNECTING"} => Own(c, s.gn_src_port) = {}

\* The state a console has of its peer is one the peer has sent in this session.
Told(c, s) ==
  s.gn_state = "CONNECTED" /\ s.remote # NoState =>
    \E p \in net : /\ p.type = "GAMESTATE" /\ p.src = s.gn_remote_ip /\ p.dst = c
                   /\ p.sport = s.gn_remote_port /\ p.dport = s.gn_src_port
                   /\ p.state = s.remote

Hosting(s) == s.gn_state = "CONNECTED" /\ s.gn_src_port = GAME_PORT
Joined(s) == s.gn_state = "CONNECTED" /\ s.gn_src_port # GAME_PORT

\* The host has met the joiner; when for the first time, all it has sent there
\* is of this session.
HostSide(c, s) ==
  Hosting(s) =>
    /\ <<s.gn_remote_ip, s.gn_remote_port>> \in met[c]
    /\ ~s.stale => \A p \in Own(c, GAME_PORT) :
         p.dst = s.gn_remote_ip /\ p.dport = s.gn_remote_port => p.state.seq <= s.our.seq

Acked(h, j, q) ==
  \E a \in net : a.type = "ACK" /\ a.src = h /\ a.dst = j /\ a.dport = q

\* The joiner has been acknowledged, all it has sent from its port is of this
\* session, and until the host is in it the joiner is Player 2 at rest.
JoinSide(c, s) ==
  Joined(s) =>
    /\ Acked(s.gn_remote_ip, c, s.gn_src_port)
    /\ \A p \in Own(c, s.gn_src_port) : p.dst = s.gn_remote_ip /\ p.state.seq <= s.our.seq
    /\ <<c, s.gn_src_port>> \notin met[s.gn_remote_ip] =>
         /\ s.our.flags = {} /\ s.gn_our_playernum = 1
         /\ \A p \in Own(c, s.gn_src_port) : p.state.flags = {}

Fine(c, s) == /\ Placed(s) /\ Addressed(c, s) /\ Unused(c, s)
              /\ Told(c, s) /\ HostSide(c, s) /\ JoinSide(c, s)

\* What is under way was sent by one end of a session to the other.
Honest(p) ==
  /\ p.type = "CONNECT" => p.sport # GAME_PORT
  /\ p.type = "ACK" => p.dst # BROADCAST
  /\ p.type \in Kinds =>
       /\ p.dst \notin {BROADCAST, p.src}
       /\ p.sport = GAME_PORT <=> p.dport # GAME_PORT
       /\ p.sport <= port
       /\ p.sport = GAME_PORT => <<p.dst, p.dport>> \in met[p.src]
       /\ p.sport # GAME_PORT => Acked(p.dst, p.src, p.sport)

\* A host has met only joiners that have sent it a state.
Met(h, x) == \E p \in net : /\ p.type = "GAMESTATE" /\ p.src = x[1] /\ p.sport = x[2]
                            /\ p.dst = h /\ p.sport # GAME_PORT

World ==
  /\ \A p \in net : Honest(p)
  /\ \A h \in Consoles : \A x \in met[h] : Met(h, x)
  /\ \A c \in Consoles : con[c].gn_src_port <= port

Base == TypeOK /\ World /\ \A c \in Consoles : Fine(c, con[c])

-----------------------------------------------------------------------------
\* Port numbers are counted.
LEMMA PortsAreNumbers == Ports \subseteq Nat /\ GAME_PORT \in Ports /\ MaxJoin \in Nat
  BY BoundAssumption DEF Ports, GAME_PORT

\* What the others do leaves a console's own invariant alone.
LEMMA FineStable ==
  ASSUME NEW c \in Consoles, NEW s \in ConsoleStates, Fine(c, s),
         net \subseteq net', \A d \in Consoles : met[d] \subseteq met'[d],
         \A p \in net' \ net : p.type \in Kinds => p.src # c
  PROVE  Fine(c, s)'
  <1>1. \A q : Own(c, q)' = Own(c, q)
    BY DEF Own
  <1>2. Placed(s)' /\ Addressed(c, s)' /\ Unused(c, s)'
    BY <1>1 DEF Fine, Placed, Addressed, Unused
  <1>3. Told(c, s)'
    BY DEF Fine, Told
  <1>4. HostSide(c, s)'
    BY <1>1 DEF Fine, HostSide, Hosting
  <1>5. JoinSide(c, s)'
    <2> SUFFICES ASSUME Joined(s) PROVE JoinSide(c, s)'
      BY DEF JoinSide, Joined
    <2>1. s.gn_remote_ip \in Consoles
      BY DEF Fine, Addressed, Joined
    <2>2. Acked(s.gn_remote_ip, c, s.gn_src_port)'
      BY DEF Fine, JoinSide, Acked
    <2> QED
      BY <1>1, <2>1, <2>2 DEF Fine, JoinSide
  <1> QED
    BY <1>2, <1>3, <1>4, <1>5 DEF Fine

\* And so do datagrams that join the others.
LEMMA WorldStable ==
  ASSUME World, TypeOK, net \subseteq net', \A d \in Consoles : met[d] \subseteq met'[d],
         port \in Nat, port' \in Nat, port <= port'
  PROVE  /\ \A p \in net : Honest(p)'
         /\ \A h \in Consoles : \A x \in met[h] : Met(h, x)'
  <1>1. ASSUME NEW p \in net PROVE Honest(p)'
    <2>1. Honest(p) /\ p \in Datagrams
      BY DEF World, TypeOK
    <2>2. p.src \in Consoles /\ p.sport \in Nat
      BY <2>1, PortsAreNumbers DEF Datagrams
    <2>3. Acked(p.dst, p.src, p.sport) => Acked(p.dst, p.src, p.sport)'
      BY DEF Acked
    <2> QED
      BY <2>1, <2>2, <2>3 DEF Honest
  <1>2. ASSUME NEW h \in Consoles, NEW x \in met[h] PROVE Met(h, x)'
    BY DEF World, Met
  <1> QED
    BY <1>1, <1>2

\* What send_game_state makes of the state of a console before it sends.
LEMMA AfterFlagsFacts ==
  ASSUME NEW s \in ConsoleStates, NEW pressed \in BOOLEAN, NEW t, t = AfterFlags(s, pressed)
  PROVE  /\ t \in ConsoleStates
         /\ t.menu = s.menu /\ t.gn_state = s.gn_state /\ t.link_up = s.link_up
         /\ t.gn_remote_ip = s.gn_remote_ip /\ t.gn_remote_port = s.gn_remote_port
         /\ t.gn_src_port = s.gn_src_port /\ t.remote = s.remote /\ t.stale = s.stale
         /\ t.our.seq = s.our.seq
         /\ t.our.flags = FrameFlags(s.our.flags, s.remote.flags, s.gn_our_playernum,
                                     s.mm_screen = SONG_SCREEN, pressed)
         /\ t.gn_our_playernum = FramePlayer(s.remote.flags, s.gn_our_playernum,
                                             s.mm_screen = SONG_SCREEN, pressed)
  <1> DEFINE open == s.mm_screen = SONG_SCREEN
             flags == FrameFlags(s.our.flags, s.remote.flags, s.gn_our_playernum, open, pressed)
             player == FramePlayer(s.remote.flags, s.gn_our_playernum, open, pressed)
  <1>1. s.our \in StateOf /\ s.remote \in StateOf /\ s.gn_our_playernum \in {0, 1}
    BY DEF ConsoleStates
  <1>2. flags \in Flags
    <2>1. s.our.flags \in Flags
      BY <1>1 DEF StateOf
    <2> QED
      BY <2>1 DEF FrameFlags, SettledFlags, Flags
  <1>3. player \in {0, 1}
    BY <1>1 DEF FramePlayer
  <1>4. t = [s EXCEPT !.our.flags = flags, !.gn_our_playernum = player]
    BY DEF AfterFlags
  <1> HIDE DEF flags, player
  <1>5. t.our = [s.our EXCEPT !.flags = flags]
    BY <1>4 DEF ConsoleStates
  <1>6. t.our \in StateOf /\ t.our.seq = s.our.seq /\ t.our.flags = flags
    BY <1>1, <1>2, <1>5 DEF StateOf
  <1>7. t = [s EXCEPT !.our = t.our, !.gn_our_playernum = player]
    BY <1>4, <1>5 DEF ConsoleStates
  <1>8. t \in ConsoleStates /\ t.gn_our_playernum = player
    BY <1>3, <1>6, <1>7 DEF ConsoleStates
  <1>9. /\ t.menu = s.menu /\ t.gn_state = s.gn_state /\ t.link_up = s.link_up
        /\ t.gn_remote_ip = s.gn_remote_ip /\ t.gn_remote_port = s.gn_remote_port
        /\ t.gn_src_port = s.gn_src_port /\ t.remote = s.remote /\ t.stale = s.stale
    BY <1>7 DEF ConsoleStates
  <1> QED
    BY <1>6, <1>8, <1>9 DEF flags, player, open

\* The state that is sent next has the next sequence number.
Advanced(t) == [t EXCEPT !.our.seq = @ + 1]

LEMMA NextSeq ==
  ASSUME NEW t \in ConsoleStates, t.our.seq < MaxSeq, NEW u, u = Advanced(t)
  PROVE  /\ u \in ConsoleStates
         /\ u.our = [seq |-> t.our.seq + 1, flags |-> t.our.flags]
         /\ u.menu = t.menu /\ u.gn_state = t.gn_state /\ u.link_up = t.link_up
         /\ u.gn_remote_ip = t.gn_remote_ip /\ u.gn_remote_port = t.gn_remote_port
         /\ u.gn_src_port = t.gn_src_port /\ u.remote = t.remote /\ u.stale = t.stale
         /\ u.gn_our_playernum = t.gn_our_playernum
  <1>1. t.our \in StateOf /\ MaxSeq \in Nat
    BY MaxSeqAssumption DEF ConsoleStates
  <1>2. [t.our EXCEPT !.seq = @ + 1] = [seq |-> t.our.seq + 1, flags |-> t.our.flags]
    BY <1>1 DEF StateOf
  <1>3. [t.our EXCEPT !.seq = @ + 1] \in StateOf
    BY <1>1, <1>2 DEF StateOf
  <1>4. u = [t EXCEPT !.our = [t.our EXCEPT !.seq = @ + 1]]
    BY DEF ConsoleStates, Advanced
  <1> QED
    BY <1>2, <1>3, <1>4 DEF ConsoleStates

\* A joiner that the host has not met yet has heard nothing.
LEMMA UnmetHasHeardNothing ==
  ASSUME World, TypeOK, NEW c \in Consoles, NEW s \in ConsoleStates, Addressed(c, s), Told(c, s),
         Joined(s), <<c, s.gn_src_port>> \notin met[s.gn_remote_ip]
  PROVE  s.remote = NoState
  <1> SUFFICES ASSUME s.remote # NoState PROVE FALSE
    OBVIOUS
  <1>1. PICK p \in net : /\ p.type = "GAMESTATE" /\ p.src = s.gn_remote_ip /\ p.dst = c
                         /\ p.sport = s.gn_remote_port /\ p.dport = s.gn_src_port
    BY DEF Told, Joined
  <1>2. p.sport = GAME_PORT
    BY <1>1 DEF Addressed, Joined
  <1>3. Honest(p)
    BY DEF World
  <1> QED
    BY <1>1, <1>2, <1>3 DEF Honest, Kinds

\* Player 2 at rest, who has heard nothing, stays Player 2 at rest.
LEMMA RestStays ==
  ASSUME NEW open \in BOOLEAN, NEW pressed \in BOOLEAN
  PROVE  /\ FrameFlags({}, {}, 1, open, pressed) = {}
         /\ FramePlayer({}, 1, open, pressed) = 1
  BY DEF FrameFlags, FramePlayer, SettledFlags, Offers

(***************************************************************************)
(* A state, or the FIN, sent in a session is honest, and leaves the sender *)
(* as it should be.                                                        *)
(***************************************************************************)
LEMMA SendInSessionFine ==
  ASSUME Base, NEW c \in Consoles, NEW s \in ConsoleStates, NEW t \in ConsoleStates, NEW p,
         Fine(c, s), s.gn_state = "CONNECTED", s.gn_src_port <= port', port <= port', port' \in Nat,
         NEW type \in Kinds, p = Datagram(type, c, t, t.our), net' = net \cup {p}, met' = met,
         t.menu = s.menu /\ t.gn_state = s.gn_state,
         t.gn_remote_ip = s.gn_remote_ip /\ t.gn_remote_port = s.gn_remote_port,
         t.gn_src_port = s.gn_src_port /\ t.remote = s.remote /\ t.stale = s.stale,
         s.our.seq <= t.our.seq,
         s.remote = NoState /\ s.our.flags = {} /\ s.gn_our_playernum = 1 =>
           t.our.flags = {} /\ t.gn_our_playernum = 1
  PROVE  Fine(c, t)' /\ Honest(p)' /\ p \in Datagrams
  <1>1. /\ p.type = type /\ p.src = c /\ p.sport = s.gn_src_port /\ p.dst = s.gn_remote_ip
        /\ p.dport = s.gn_remote_port /\ p.state = t.our
    BY DEF Datagram
  <1>2. s.gn_remote_ip \in Consoles \ {c} /\ (s.gn_src_port = GAME_PORT <=> s.gn_remote_port # GAME_PORT)
    BY DEF Fine, Addressed
  <1>3. p \in Datagrams
    <2>1. t.our \in StateOf /\ t.gn_src_port \in Ports /\ t.gn_remote_port \in Ports
      BY DEF ConsoleStates
    <2> QED
      BY <1>2, <2>1 DEF Datagram, Datagrams, Kinds, Types
  <1>4. \A q : Own(c, q)' = IF q = s.gn_src_port THEN Own(c, q) \cup {p} ELSE Own(c, q)
    BY <1>1 DEF Own
  <1>5. s.our.seq \in Nat /\ t.our.seq \in Nat /\ \A r \in net : r.state.seq \in Nat
    BY MaxSeqAssumption DEF Base, TypeOK, Datagrams, ConsoleStates, StateOf
  <1>6. Placed(t)' /\ Addressed(c, t)' /\ Unused(c, t)'
    BY DEF Fine, Placed, Addressed, Unused
  <1>7. Told(c, t)'
    BY DEF Fine, Told
  <1>8. HostSide(c, t)'
    <2> SUFFICES ASSUME Hosting(t) PROVE HostSide(c, t)'
      BY DEF HostSide, Hosting
    <2>1. HostSide(c, s) /\ Hosting(s)
      BY DEF Fine, Hosting
    <2>2. <<t.gn_remote_ip, t.gn_remote_port>> \in met'[c]
      BY <2>1 DEF HostSide
    <2>3. ASSUME ~t.stale, NEW q \in Own(c, GAME_PORT)', q.dst = t.gn_remote_ip,
                 q.dport = t.gn_remote_port
          PROVE  q.state.seq <= t.our.seq
      <3>1. q = p \/ q \in Own(c, GAME_PORT)
        BY <1>4, <2>3
      <3>2. q \in Own(c, GAME_PORT) => q \in net /\ q.state.seq <= s.our.seq
        BY <2>1, <2>3 DEF HostSide, Own
      <3> QED
        BY <1>1, <1>5, <3>1, <3>2
    <2> QED
      BY <2>2, <2>3 DEF HostSide
  <1>9. JoinSide(c, t)'
    <2> SUFFICES ASSUME Joined(t) PROVE JoinSide(c, t)'
      BY DEF JoinSide, Joined
    <2>1. JoinSide(c, s) /\ Joined(s) /\ Told(c, s) /\ Addressed(c, s)
      BY DEF Fine, Joined
    <2>2. Acked(t.gn_remote_ip, c, t.gn_src_port)'
      BY <2>1 DEF JoinSide, Acked
    <2>3. \A q \in Own(c, t.gn_src_port)' : q.dst = t.gn_remote_ip /\ q.state.seq <= t.our.seq
      <3>1. \A q \in Own(c, s.gn_src_port) : q.dst = s.gn_remote_ip /\ q.state.seq <= s.our.seq
        BY <2>1 DEF JoinSide
      <3>2. Own(c, s.gn_src_port) \subseteq net
        BY DEF Own
      <3> QED
        BY <1>1, <1>4, <1>5, <3>1, <3>2
    <2>4. ASSUME <<c, t.gn_src_port>> \notin met[t.gn_remote_ip]
          PROVE  /\ t.our.flags = {} /\ t.gn_our_playernum = 1
                 /\ \A q \in Own(c, t.gn_src_port)' : q.state.flags = {}
      <3>1. s.remote = NoState
        BY <2>1, <2>4, UnmetHasHeardNothing DEF Base
      <3>2. /\ s.our.flags = {} /\ s.gn_our_playernum = 1
            /\ \A q \in Own(c, s.gn_src_port) : q.state.flags = {}
        BY <2>1, <2>4 DEF JoinSide
      <3> QED
        BY <1>1, <1>4, <3>1, <3>2
    <2> QED
      BY <2>2, <2>3, <2>4 DEF JoinSide
  <1>10. Honest(p)'
    <2>1. s.gn_src_port = GAME_PORT => <<p.dst, p.dport>> \in met[c]
      BY <1>1 DEF Fine, HostSide, Hosting
    <2>2. s.gn_src_port # GAME_PORT => Acked(p.dst, c, p.sport)'
      <3>1. s.gn_src_port # GAME_PORT => Acked(p.dst, c, p.sport)
        BY <1>1 DEF Fine, JoinSide, Joined
      <3> QED
        BY <3>1 DEF Acked
    <2> QED
      BY <1>1, <1>2, <2>1, <2>2, AddressAssumption DEF Honest, Kinds
  <1> QED
    BY <1>3, <1>6, <1>7, <1>8, <1>9, <1>10 DEF Fine

-----------------------------------------------------------------------------
(***************************************************************************)
(* The turns of a session, as in Handover, but without a history: there    *)
(* are turns that the two consoles and all that is under way between them  *)
(* may be at.  A console in state s, at turn t, has sent what is in mine   *)
(* and has accepted a state of its peer, which is at turn u now, of turn r.*)
(***************************************************************************)
Pace(s, lead, t, u, r, at, mine, theirs) ==
  /\ s.our.flags = FlagsAt(t) /\ s.gn_our_playernum = PlayerAt(t)
  /\ s.remote.flags = FlagsAt(r)
  /\ r <= u /\ r + lead >= Need(t)
  /\ \A p \in mine : at[p] <= t /\ p.state.flags = FlagsAt(at[p])
  /\ \A p, q \in mine : p.state.seq < q.state.seq => at[p] <= at[q]
  /\ \A p \in theirs : p.state.seq > s.remote.seq => at[p] >= r

\* Both ends of a session.  The joiner starts as if it had seen four turns more
\* (Lead in Handover): lead is 0 for the host and 4 for the joiner.
Ends(s, v, lead, t, u, r, w, at, mine, theirs) ==
  /\ Pace(s, lead, t, u, r, at, mine, theirs)
  /\ Pace(v, 4 - lead, u, t, w, at, theirs, mine)

InTurn(s, v, lead, mine, theirs) ==
  \E t, u, r, w \in Nat, at \in [mine \cup theirs -> Nat] :
    Ends(s, v, lead, t, u, r, w, at, mine, theirs)

\* The states c has sent from port q to port r of d.
States(c, q, d, r) ==
  {p \in net : p.type = "GAMESTATE" /\ p.src = c /\ p.sport = q /\ p.dst = d /\ p.dport = r}

InPace(h, j, s, v) ==
  InTurn(s, v, 0, States(h, GAME_PORT, j, v.gn_src_port), States(j, v.gn_src_port, h, GAME_PORT))

Live(h, j) == Paired(h, j) /\ ~con[h].stale

Paced == \A h, j \in Consoles : Live(h, j) => InPace(h, j, con[h], con[j])

\* The two ends, the other way round.
LEMMA OtherEnd ==
  ASSUME NEW s, NEW v, NEW lead, lead \in {0, 4}, NEW mine, NEW theirs,
         InTurn(s, v, lead, mine, theirs)
  PROVE  InTurn(v, s, 4 - lead, theirs, mine)
  <1>1. 4 - (4 - lead) = lead
    OBVIOUS
  <1>2. PICK t, u, r, w \in Nat, at \in [mine \cup theirs -> Nat] :
          Ends(s, v, lead, t, u, r, w, at, mine, theirs)
    BY DEF InTurn
  <1>3. Ends(v, s, 4 - lead, u, t, w, r, at, theirs, mine)
    BY <1>1, <1>2 DEF Ends
  <1>4. at \in [theirs \cup mine -> Nat]
    OBVIOUS
  <1> QED
    BY <1>3, <1>4 DEF InTurn

\* x is what send_game_state makes of s, but for the sequence number.
Framed(x, s, open, pressed) ==
  /\ x.our.flags = FrameFlags(s.our.flags, s.remote.flags, s.gn_our_playernum, open, pressed)
  /\ x.gn_our_playernum = FramePlayer(s.remote.flags, s.gn_our_playernum, open, pressed)
  /\ x.remote = s.remote

\* One call of send_game_state takes a turn or not, whether or not it sends.
LEMMA TurnPace ==
  ASSUME NEW s, NEW v, NEW lead, lead \in {0, 4}, NEW mine, NEW theirs,
         InTurn(s, v, lead, mine, theirs),
         NEW x, NEW open \in BOOLEAN, NEW pressed \in BOOLEAN, Framed(x, s, open, pressed)
  PROVE  InTurn(x, v, lead, mine, theirs)
  <1>p. PICK t, u, r, w \in Nat, at \in [mine \cup theirs -> Nat] :
          Ends(s, v, lead, t, u, r, w, at, mine, theirs)
    BY DEF InTurn
  <1> DEFINE lag == 4 - lead
  <1>0. Pace(s, lead, t, u, r, at, mine, theirs) /\ Pace(v, lag, u, t, w, at, theirs, mine)
    BY <1>p DEF Ends
  <1>1. /\ r <= u /\ w <= t /\ r + lead >= Need(t) /\ w + (4 - lead) >= Need(u)
        /\ s.our.flags = FlagsAt(t) /\ s.gn_our_playernum = PlayerAt(t)
        /\ s.remote.flags = FlagsAt(r)
    BY <1>0 DEF Pace
  <1>2. Shows(t, r) /\ Backed(r, lead, t)
    BY <1>1, SeenTurn DEF Backed
  <1>3. PICK new : new = FrameFlags(FlagsAt(t), FlagsAt(r), PlayerAt(t), open, pressed)
    OBVIOUS
  <1>4. PICK n : n = t + Turns(FlagsAt(t), FlagsAt(r), new)
    OBVIOUS
  <1>5. /\ n \in Nat /\ n >= t /\ new = FlagsAt(n) /\ Backed(r, lead, n)
        /\ FramePlayer(FlagsAt(r), PlayerAt(t), open, pressed) = PlayerAt(n)
    BY <1>2, <1>3, <1>4, FrameTurn
  <1>6. x.our.flags = FlagsAt(n) /\ x.gn_our_playernum = PlayerAt(n)
    BY <1>1, <1>3, <1>5 DEF Framed
  <1> HIDE DEF lag
  <1>7. Pace(x, lead, n, u, r, at, mine, theirs)
    BY <1>0, <1>5, <1>6 DEF Pace, Backed, Framed
  <1>8. Pace(v, lag, u, n, w, at, theirs, mine)
    BY <1>0, <1>5 DEF Pace
  <1> QED
    BY <1>5, <1>7, <1>8 DEF Ends, lag, InTurn

\* A state that tells of the sender's turn joins those under way.
LEMMA PublishPace ==
  ASSUME NEW s, NEW v, NEW lead, lead \in {0, 4}, NEW mine, NEW theirs,
         InTurn(s, v, lead, mine, theirs),
         NEW p, p \notin mine \cup theirs, p.state.flags = s.our.flags, p.state.seq \in Nat,
         \A q \in mine : q.state.seq \in Nat /\ q.state.seq < p.state.seq
  PROVE  InTurn(s, v, lead, mine \cup {p}, theirs)
  <1>p. PICK t, u, r, w \in Nat, at \in [mine \cup theirs -> Nat] :
          Ends(s, v, lead, t, u, r, w, at, mine, theirs)
    BY DEF InTurn
  <1> DEFINE lag == 4 - lead
  <1>0. Pace(s, lead, t, u, r, at, mine, theirs) /\ Pace(v, lag, u, t, w, at, theirs, mine)
    BY <1>p DEF Ends
  <1> HIDE DEF lag
  <1> DEFINE to == [q \in (mine \cup {p}) \cup theirs |-> IF q = p THEN t ELSE at[q]]
  <1>1. /\ to \in [(mine \cup {p}) \cup theirs -> Nat]
        /\ to[p] = t /\ \A q \in mine \cup theirs : to[q] = at[q] /\ at[q] \in Nat
    OBVIOUS
  <1> HIDE DEF to
  <1>2. Pace(s, lead, t, u, r, to, mine \cup {p}, theirs)
    <2>1. ASSUME NEW q \in mine \cup {p} PROVE to[q] <= t /\ q.state.flags = FlagsAt(to[q])
      <3>1. CASE q \in mine
        BY <1>0, <1>1, <3>1 DEF Pace
      <3>2. CASE q = p
        BY <1>0, <1>1, <3>2 DEF Pace
      <3> QED
        BY <2>1, <3>1, <3>2
    <2>2. ASSUME NEW q \in mine \cup {p}, NEW o \in mine \cup {p}, q.state.seq < o.state.seq
          PROVE  to[q] <= to[o]
      <3>1. CASE o = p
        BY <1>1, <2>1, <3>1
      <3>2. CASE o \in mine
        <4>1. q \in mine
          BY <2>2, <3>2
        <4> QED
          BY <1>0, <1>1, <2>2, <3>2, <4>1 DEF Pace
      <3> QED
        BY <2>2, <3>1, <3>2
    <2>3. \A q \in theirs : q.state.seq > s.remote.seq => to[q] >= r
      BY <1>0, <1>1 DEF Pace
    <2> QED
      BY <1>0, <2>1, <2>2, <2>3 DEF Pace
  <1>3. Pace(v, lag, u, t, w, to, theirs, mine \cup {p})
    <2>1. \A q \in mine \cup {p} : q.state.seq > v.remote.seq => to[q] >= w
      BY <1>0, <1>1 DEF Pace
    <2>2. \A q \in theirs : to[q] <= u /\ q.state.flags = FlagsAt(to[q])
      BY <1>0, <1>1 DEF Pace
    <2>3. \A q, o \in theirs : q.state.seq < o.state.seq => to[q] <= to[o]
      BY <1>0, <1>1 DEF Pace
    <2> QED
      BY <1>0, <2>1, <2>2, <2>3 DEF Pace
  <1> QED
    BY <1>1, <1>2, <1>3 DEF Ends, lag, InTurn

\* A newer state of the peer is accepted.
LEMMA AcceptPace ==
  ASSUME NEW s, NEW v, NEW lead, lead \in {0, 4}, NEW mine, NEW theirs,
         InTurn(s, v, lead, mine, theirs),
         NEW x, NEW p \in theirs, p.state.seq > s.remote.seq,
         x.our = s.our, x.gn_our_playernum = s.gn_our_playernum, x.remote = p.state
  PROVE  InTurn(x, v, lead, mine, theirs)
  <1>p. PICK t, u, r, w \in Nat, at \in [mine \cup theirs -> Nat] :
          Ends(s, v, lead, t, u, r, w, at, mine, theirs)
    BY DEF InTurn
  <1> DEFINE lag == 4 - lead
  <1>0. Pace(s, lead, t, u, r, at, mine, theirs) /\ Pace(v, lag, u, t, w, at, theirs, mine)
    BY <1>p DEF Ends
  <1> HIDE DEF lag
  <1>1. at[p] \in Nat /\ at[p] >= r /\ at[p] <= u /\ p.state.flags = FlagsAt(at[p])
    BY <1>0 DEF Pace
  <1>2. Need(t) \in Nat
    BY DEF Need, PlayerAt
  <1>3. \A q \in theirs : q.state.seq > p.state.seq => at[q] >= at[p]
    BY <1>0 DEF Pace
  <1>4. Pace(x, lead, t, u, at[p], at, mine, theirs)
    BY <1>0, <1>1, <1>2, <1>3 DEF Pace
  <1>5. Pace(v, lag, u, t, w, at, theirs, mine)
    BY <1>0
  <1> QED
    BY <1>1, <1>4, <1>5 DEF Ends, lag, InTurn

\* A host that enters a session with Player 2 at rest.
LEMMA FirstPace ==
  ASSUME NEW theirs, NEW s, NEW v,
         s.our.flags = {}, s.gn_our_playernum = 0, s.remote.flags = {},
         v.our.flags = {}, v.gn_our_playernum = 1, v.remote.flags = {},
         \A q \in theirs : q.state.flags = {}
  PROVE  InTurn(s, v, 0, {}, theirs)
  <1> DEFINE at == [q \in {} \cup theirs |-> 2]
  <1>1. FlagsAt(0) = {} /\ FlagsAt(2) = {} /\ PlayerAt(0) = 0 /\ PlayerAt(2) = 1
        /\ Need(0) = 2 /\ Need(2) = 3
    BY DEF FlagsAt, PlayerAt, Need
  <1>2. at \in [{} \cup theirs -> Nat] /\ \A q \in theirs : at[q] = 2
    OBVIOUS
  <1> HIDE DEF at
  <1>3. Pace(s, 0, 0, 2, 2, at, {}, theirs)
    BY <1>1, <1>2 DEF Pace
  <1>4. Pace(v, 4, 2, 0, 0, at, theirs, {})
    <2>1. ASSUME NEW p \in theirs PROVE at[p] <= 2 /\ p.state.flags = FlagsAt(at[p])
      <3>1. at[p] = 2 /\ 2 <= 2
        BY <1>2
      <3>2. FlagsAt(at[p]) = {}
        BY <1>1, <3>1, Zenon
      <3> QED
        BY <3>1, <3>2
    <2>2. \A p, q \in theirs : at[p] <= at[q]
      BY <1>2
    <2>3. 0 <= 0 /\ 0 + 4 >= Need(2)
      BY <1>1
    <2> QED
      BY <1>1, <2>1, <2>2, <2>3, Zenon DEF Pace
  <1> QED
    BY <1>2, <1>3, <1>4 DEF Ends, InTurn

\* Consoles in pace are not both Player 1.
LEMMA PaceMaster ==
  ASSUME NEW s, NEW v, NEW mine, NEW theirs, InTurn(s, v, 0, mine, theirs)
  PROVE  ~(s.gn_our_playernum = 0 /\ v.gn_our_playernum = 0)
  BY TurnPairs DEF InTurn, Ends, Pace, Need, PlayerAt

\* Nothing else of the two consoles matters.
LEMMA PaceStable ==
  ASSUME NEW s, NEW v, NEW lead, NEW mine, NEW theirs, InTurn(s, v, lead, mine, theirs),
         NEW x, x.our = s.our, x.remote = s.remote, x.gn_our_playernum = s.gn_our_playernum,
         NEW y, y.our = v.our, y.remote = v.remote, y.gn_our_playernum = v.gn_our_playernum
  PROVE  InTurn(x, y, lead, mine, theirs)
  <1>1. PICK t, u, r, w \in Nat, at \in [mine \cup theirs -> Nat] :
          Ends(s, v, lead, t, u, r, w, at, mine, theirs)
    BY DEF InTurn
  <1>2. Ends(x, y, lead, t, u, r, w, at, mine, theirs)
    BY <1>1 DEF Ends, Pace
  <1> QED
    BY <1>2 DEF InTurn

\* One call of send_game_state, whether it sends or not.
LEMMA SendPace ==
  ASSUME NEW s, NEW v, NEW lead, lead \in {0, 4}, NEW mine, NEW theirs,
         InTurn(s, v, lead, mine, theirs),
         NEW x, NEW open \in BOOLEAN, NEW pressed \in BOOLEAN, Framed(x, s, open, pressed),
         NEW p, NEW sent,
         \/ sent = mine
         \/ /\ sent = mine \cup {p} /\ p \notin mine \cup theirs /\ p.state = x.our
            /\ x.our.seq \in Nat
            /\ \A q \in mine : q.state.seq \in Nat /\ q.state.seq < x.our.seq
  PROVE  InTurn(x, v, lead, sent, theirs)
  <1>1. InTurn(x, v, lead, mine, theirs)
    BY TurnPace
  <1>2. CASE sent = mine
    BY <1>1, <1>2
  <1>3. CASE /\ sent = mine \cup {p} /\ p \notin mine \cup theirs /\ p.state = x.our
             /\ x.our.seq \in Nat
             /\ \A q \in mine : q.state.seq \in Nat /\ q.state.seq < x.our.seq
    BY <1>1, <1>3, PublishPace
  <1> QED
    BY <1>2, <1>3

-----------------------------------------------------------------------------
IInv == Base /\ Paced

\* What two consoles in a session depend on.
View(s) == <<s.gn_state, s.gn_remote_ip, s.gn_remote_port, s.gn_src_port,
             s.gn_our_playernum, s.our, s.remote, s.stale>>

(***************************************************************************)
(* A step of console c keeps the whole invariant when it keeps c's part,   *)
(* and what it sends is honest.                                            *)
(***************************************************************************)
LEMMA BaseStep ==
  ASSUME Base, TypeOK', NEW c \in Consoles,
         \A d \in Consoles : d # c => con'[d] = con[d],
         net \subseteq net', port <= port', \A d \in Consoles : met[d] \subseteq met'[d],
         \A d \in Consoles : \A x \in met'[d] \ met[d] : Met(d, x)',
         \A p \in net' \ net : p.src = c /\ Honest(p)',
         con'[c].gn_src_port <= port', Fine(c, con[c])'
  PROVE  Base'
  <1>1. port \in Nat /\ port' \in Nat
    BY PortsAreNumbers DEF Base, TypeOK
  <1>2. \A p \in net' : Honest(p)'
    BY <1>1, WorldStable DEF Base
  <1>3. \A h \in Consoles : \A x \in met'[h] : Met(h, x)'
    BY <1>1, WorldStable DEF Base
  <1>4. ASSUME NEW d \in Consoles PROVE con'[d].gn_src_port <= port' /\ Fine(d, con[d])'
    <2>1. CASE d = c
      BY <2>1
    <2>2. CASE d # c
      <3>1. PICK s : s = con[d]
        OBVIOUS
      <3>2. s \in ConsoleStates /\ Fine(d, s) /\ s.gn_src_port <= port /\ con'[d] = s
        BY <2>2, <3>1 DEF Base, TypeOK, World
      <3>3. \A p \in net' \ net : p.type \in Kinds => p.src # d
        BY <2>2
      <3>4. Fine(d, s)'
        BY <3>2, <3>3, FineStable
      <3>5. s.gn_src_port \in Nat
        BY <3>2, PortsAreNumbers DEF ConsoleStates
      <3> QED
        BY <1>1, <3>2, <3>4, <3>5
           DEF Fine, Placed, Addressed, Unused, Told, HostSide, JoinSide, Hosting, Joined
    <2> QED
      BY <2>1, <2>2
  <1> QED
    BY <1>2, <1>3, <1>4 DEF Base, World

\* A step outside sessions, and one that leaves a session.
LEMMA PacedStep ==
  ASSUME Paced, NEW c \in Consoles, \A d \in Consoles : d # c => con'[d] = con[d],
         net \subseteq net', \A p \in net' \ net : p.type # "GAMESTATE",
         con'[c].gn_state # "CONNECTED" \/ View(con'[c]) = View(con[c])
  PROVE  Paced'
  <1> SUFFICES ASSUME NEW h \in Consoles, NEW j \in Consoles, Live(h, j)'
               PROVE  InPace(h, j, con[h], con[j])'
    BY DEF Paced
  <1>1. View(con'[h]) = View(con[h]) /\ View(con'[j]) = View(con[j])
    BY DEF Live, Paired
  <1>2. Live(h, j)
    BY <1>1 DEF Live, Paired, View
  <1>3. InPace(h, j, con[h], con[j])
    BY <1>2 DEF Paced
  <1>4. \A d, q, e, r : States(d, q, e, r)' = States(d, q, e, r)
    BY DEF States
  <1>5. PICK s, v, x, y : s = con[h] /\ v = con[j] /\ x = con'[h] /\ y = con'[j]
    OBVIOUS
  <1>6. PICK a, b : /\ a = States(h, GAME_PORT, j, v.gn_src_port)
                    /\ b = States(j, v.gn_src_port, h, GAME_PORT)
    OBVIOUS
  <1>7. InTurn(s, v, 0, a, b)
    BY <1>3, <1>5, <1>6 DEF InPace
  <1>8. InTurn(x, y, 0, a, b)
    BY <1>1, <1>5, <1>7, PaceStable DEF View
  <1> QED
    BY <1>1, <1>4, <1>5, <1>6, <1>8 DEF InPace, View

\* A frame in a session.
LEMMA PacedSend ==
  ASSUME IInv, NEW c \in Consoles, NEW s \in ConsoleStates, NEW x \in ConsoleStates,
         NEW open \in BOOLEAN, NEW pressed \in BOOLEAN,
         \A d \in Consoles : d # c => con'[d] = con[d], con'[c] = x,
         s.gn_state = "CONNECTED", View(s) = View(con[c]),
         x.gn_state = s.gn_state, x.gn_remote_ip = s.gn_remote_ip,
         x.gn_remote_port = s.gn_remote_port, x.gn_src_port = s.gn_src_port,
         x.stale = s.stale, Framed(x, s, open, pressed),
         \/ net' = net
         \/ /\ x.our.seq = s.our.seq + 1
            /\ net' = net \cup {Datagram("GAMESTATE", c, x, x.our)}
  PROVE  Paced'
  <1> SUFFICES ASSUME NEW h \in Consoles, NEW j \in Consoles, Live(h, j)'
               PROVE  InPace(h, j, con[h], con[j])'
    BY DEF Paced
  <1>0. PICK p, q : p = Datagram("GAMESTATE", c, x, x.our) /\ q = con[j].gn_src_port
    OBVIOUS
  <1>1. Live(h, j) /\ con'[j].gn_src_port = q
    BY <1>0 DEF Live, Paired, View
  <1>2. InPace(h, j, con[h], con[j])
    BY <1>1 DEF IInv, Paced
  <1>3. p.type = "GAMESTATE" /\ p.src = c /\ p.sport = x.gn_src_port /\ p.dst = x.gn_remote_ip
        /\ p.dport = x.gn_remote_port /\ p.state = x.our
    BY <1>0 DEF Datagram
  <1>4. h # j /\ q # GAME_PORT /\ con[h].gn_state = "CONNECTED" /\ con[j].gn_state = "CONNECTED"
        /\ con[h].gn_remote_ip = j /\ con[j].gn_remote_ip = h /\ con[h].gn_remote_port = q
        /\ con[j].gn_remote_port = GAME_PORT /\ con[h].gn_src_port = GAME_PORT
        /\ ~con[h].stale
    <2>1. Fine(h, con[h])
      BY DEF IInv, Base
    <2> QED
      BY <1>0, <1>1, <2>1 DEF Live, Paired, Fine, Addressed
  <1>5. x.our.seq \in Nat /\ s.our.seq \in Nat /\ \A o \in net : o.state.seq \in Nat
    BY MaxSeqAssumption DEF IInv, Base, TypeOK, Datagrams, ConsoleStates, StateOf
  <1> DEFINE A == States(h, GAME_PORT, j, q)
             B == States(j, q, h, GAME_PORT)
  <1>6. A \subseteq net /\ B \subseteq net
    BY DEF States
  <1>7. InTurn(con[h], con[j], 0, A, B)
    BY <1>0, <1>2 DEF InPace
  <1>9. SUFFICES InTurn(con'[h], con'[j], 0, A', B')
    BY <1>1 DEF InPace
  <1>10. CASE c = h
    <2>1. B' = B
      BY <1>0, <1>1, <1>3, <1>4, <1>10 DEF States
    <2>2. \A o \in A : o.state.seq <= s.our.seq
      <3>1. HostSide(h, con[h]) /\ Hosting(con[h])
        BY <1>4 DEF IInv, Base, Fine, Hosting
      <3>2. \A o \in A : o \in Own(h, GAME_PORT) /\ o.dst = j /\ o.dport = q
        BY DEF States, Own, Kinds
      <3>3. s.our = con[h].our
        BY <1>10 DEF View
      <3> QED
        BY <1>4, <3>1, <3>2, <3>3 DEF HostSide
    <2>3. \/ net' = net /\ A' = A
          \/ /\ net' = net \cup {p} /\ A' = A \cup {p} /\ x.our.seq = s.our.seq + 1
             /\ p \notin net
      <3>1. CASE net' = net
        BY <3>1 DEF States
      <3>2. CASE net' = net \cup {p} /\ x.our.seq = s.our.seq + 1
        <4>1. p.sport = GAME_PORT /\ p.dst = j /\ p.dport = q
          BY <1>3, <1>4, <1>10 DEF View
        <4>2. A' = A \cup {p}
          BY <1>3, <1>10, <3>2, <4>1 DEF States
        <4>3. p \in net => p \in A
          BY <1>3, <1>10, <4>1 DEF States
        <4>4. p \notin A
          BY <1>3, <1>5, <2>2, <3>2
        <4> QED
          BY <3>2, <4>2, <4>3, <4>4
      <3> QED
        BY <1>0, <3>1, <3>2
    <2>4. PICK a, b, d, y, v : a = A /\ b = B /\ d = A' /\ y = con[h] /\ v = con[j]
      OBVIOUS
    <2>5. Framed(x, y, open, pressed)
      BY <1>10, <2>4 DEF View, Framed
    <2>6. \/ d = a
          \/ /\ d = a \cup {p} /\ p \notin a \cup b /\ p.state = x.our
             /\ x.our.seq \in Nat
             /\ \A g \in a : g.state.seq \in Nat /\ g.state.seq < x.our.seq
      BY <1>3, <1>5, <1>6, <2>2, <2>3, <2>4
    <2>7. InTurn(y, v, 0, a, b)
      BY <1>7, <2>4
    <2>8. InTurn(x, v, 0, d, b)
      BY <2>5, <2>6, <2>7, SendPace
    <2> QED
      BY <1>4, <1>10, <2>1, <2>4, <2>8
  <1>11. CASE c = j
    <2>1. A' = A
      BY <1>0, <1>1, <1>3, <1>4, <1>11 DEF States
    <2>2. \A o \in B : o.state.seq <= s.our.seq
      <3>1. JoinSide(j, con[j]) /\ Joined(con[j])
        BY <1>0, <1>4 DEF IInv, Base, Fine, Joined
      <3>2. \A o \in B : o \in Own(j, q)
        BY DEF States, Own, Kinds
      <3>3. s.our = con[j].our
        BY <1>11 DEF View
      <3> QED
        BY <1>0, <1>4, <3>1, <3>2, <3>3 DEF JoinSide
    <2>3. \/ net' = net /\ B' = B
          \/ /\ net' = net \cup {p} /\ B' = B \cup {p} /\ x.our.seq = s.our.seq + 1
             /\ p \notin net
      <3>1. CASE net' = net
        BY <1>1, <3>1 DEF States
      <3>2. CASE net' = net \cup {p} /\ x.our.seq = s.our.seq + 1
        <4>1. p.sport = q /\ p.dst = h /\ p.dport = GAME_PORT
          BY <1>0, <1>3, <1>4, <1>11 DEF View
        <4>2. B' = B \cup {p}
          BY <1>3, <1>11, <3>2, <4>1 DEF States
        <4>3. p \in net => p \in B
          BY <1>3, <1>11, <4>1 DEF States
        <4>4. p \notin B
          BY <1>3, <1>5, <2>2, <3>2
        <4> QED
          BY <3>2, <4>2, <4>3, <4>4
      <3> QED
        BY <1>0, <3>1, <3>2
    <2>4. PICK a, b, d, y, v : a = A /\ b = B /\ d = B' /\ y = con[j] /\ v = con[h]
      OBVIOUS
    <2>5. Framed(x, y, open, pressed)
      BY <1>11, <2>4 DEF View, Framed
    <2>6. \/ d = b
          \/ /\ d = b \cup {p} /\ p \notin b \cup a /\ p.state = x.our
             /\ x.our.seq \in Nat
             /\ \A g \in b : g.state.seq \in Nat /\ g.state.seq < x.our.seq
      BY <1>3, <1>5, <1>6, <2>2, <2>3, <2>4
    <2>7. InTurn(y, v, 4, b, a)
      <3>1. InTurn(v, y, 0, a, b)
        BY <1>7, <2>4
      <3> QED
        BY <3>1, OtherEnd
    <2>8. InTurn(x, v, 4, d, a)
      BY <2>5, <2>6, <2>7, SendPace
    <2>9. InTurn(v, x, 0, a, d)
      <3>1. InTurn(v, x, 4 - 4, a, d)
        BY <2>8, OtherEnd
      <3> QED
        BY <3>1
    <2> QED
      BY <1>4, <1>11, <2>1, <2>4, <2>9
  <1>12. CASE c # h /\ c # j
    <2>1. A' = A /\ B' = B /\ con'[h] = con[h] /\ con'[j] = con[j]
      BY <1>0, <1>1, <1>3, <1>12 DEF States
    <2> QED
      BY <1>7, <2>1
  <1> QED
    BY <1>10, <1>11, <1>12

-----------------------------------------------------------------------------
\* A console that is not in a session.
LEMMA LoneFine ==
  ASSUME NEW c \in Consoles, NEW s, s.gn_state # "CONNECTED",
         Placed(s), Addressed(c, s), Unused(c, s)
  PROVE  Fine(c, s)
  BY DEF Fine, Told, HostSide, JoinSide, Hosting, Joined

\* GN_IDLE asks for nothing, on any screen.
LEMMA IdleFine ==
  ASSUME NEW c \in Consoles, NEW s, s.gn_state = "IDLE"
  PROVE  Fine(c, s)
  BY LoneFine DEF Placed, Addressed, Unused

\* What a session does not depend on may change.
LEMMA ViewFine ==
  ASSUME NEW c \in Consoles, NEW s, NEW x, Fine(c, s), View(x) = View(s), Placed(x)
  PROVE  Fine(c, x)
  BY DEF Fine, View, Addressed, Unused, Told, HostSide, JoinSide, Hosting, Joined

\* The other screens, and what a screen stores besides.
LEMMA MenuFacts ==
  ASSUME NEW s \in ConsoleStates, NEW m \in Menus, NEW x, x = [s EXCEPT !.menu = m]
  PROVE  x \in ConsoleStates /\ x.menu = m /\ x.link_up = s.link_up /\ View(x) = View(s)
         /\ x.gn_state = s.gn_state /\ x.gn_src_port = s.gn_src_port
  BY DEF ConsoleStates, View

\* A step of console c is typed when what it makes of its state is.
LEMMA TypedStep ==
  ASSUME TypeOK, NEW c \in Consoles, NEW x \in ConsoleStates, con' = [con EXCEPT ![c] = x],
         net' \subseteq Datagrams, port' \in Ports,
         count' \in [host : [Consoles -> 0 .. MaxHost], flap : 0 .. MaxFlap],
         met' \in [Consoles -> SUBSET (Consoles \X Ports)]
  PROVE  TypeOK' /\ con'[c] = x /\ \A d \in Consoles : d # c => con'[d] = con[d]
  BY DEF TypeOK

\* A frame in a session that sends nothing leaves the console as it should be.
LEMMA QuietFine ==
  ASSUME Base, NEW c \in Consoles, NEW s \in ConsoleStates, NEW t \in ConsoleStates,
         Fine(c, s), s.gn_state = "CONNECTED", net' = net, met' = met,
         t.menu = s.menu /\ t.gn_state = s.gn_state,
         t.gn_remote_ip = s.gn_remote_ip /\ t.gn_remote_port = s.gn_remote_port,
         t.gn_src_port = s.gn_src_port /\ t.remote = s.remote /\ t.stale = s.stale,
         s.our.seq <= t.our.seq,
         s.remote = NoState /\ s.our.flags = {} /\ s.gn_our_playernum = 1 =>
           t.our.flags = {} /\ t.gn_our_playernum = 1
  PROVE  Fine(c, t)'
  <1>1. \A q : Own(c, q)' = Own(c, q) /\ Own(c, q) \subseteq net
    BY DEF Own
  <1>2. s.our.seq \in Nat /\ t.our.seq \in Nat /\ \A r \in net : r.state.seq \in Nat
    BY MaxSeqAssumption DEF Base, TypeOK, Datagrams, ConsoleStates, StateOf
  <1>3. Placed(t)' /\ Addressed(c, t)' /\ Unused(c, t)' /\ Told(c, t)'
    BY DEF Fine, Placed, Addressed, Unused, Told
  <1>4. HostSide(c, t)'
    <2> SUFFICES ASSUME Hosting(t) PROVE HostSide(c, t)'
      BY DEF HostSide, Hosting
    <2>1. HostSide(c, s) /\ Hosting(s)
      BY DEF Fine, Hosting
    <2>2. \A p \in Own(c, GAME_PORT) : p.state.seq <= s.our.seq => p.state.seq <= t.our.seq
      BY <1>1, <1>2
    <2> QED
      BY <1>1, <2>1, <2>2 DEF HostSide
  <1>5. JoinSide(c, t)'
    <2> SUFFICES ASSUME Joined(t) PROVE JoinSide(c, t)'
      BY DEF JoinSide, Joined
    <2>1. JoinSide(c, s) /\ Joined(s) /\ Told(c, s) /\ Addressed(c, s)
      BY DEF Fine, Joined
    <2>2. Acked(t.gn_remote_ip, c, t.gn_src_port)'
      BY <2>1 DEF JoinSide, Acked
    <2>3. \A p \in Own(c, t.gn_src_port)' : p.dst = t.gn_remote_ip /\ p.state.seq <= t.our.seq
      <3>1. \A p \in Own(c, s.gn_src_port) : p.dst = s.gn_remote_ip /\ p.state.seq <= s.our.seq
        BY <2>1 DEF JoinSide
      <3> QED
        BY <1>1, <1>2, <3>1
    <2>4. ASSUME <<c, t.gn_src_port>> \notin met[t.gn_remote_ip]
          PROVE  /\ t.our.flags = {} /\ t.gn_our_playernum = 1
                 /\ \A p \in Own(c, t.gn_src_port)' : p.state.flags = {}
      <3>1. s.remote = NoState
        BY <2>1, <2>4, UnmetHasHeardNothing DEF Base
      <3>2. /\ s.our.flags = {} /\ s.gn_our_playernum = 1
            /\ \A p \in Own(c, s.gn_src_port) : p.state.flags = {}
        BY <2>1, <2>4 DEF JoinSide
      <3> QED
        BY <1>1, <3>1, <3>2
    <2> QED
      BY <2>2, <2>3, <2>4 DEF JoinSide
  <1> QED
    BY <1>3, <1>4, <1>5 DEF Fine

(***************************************************************************)
(* A frame of a menu that leaves the console as it should be keeps the     *)
(* invariant: send_game_state sends in a session, or one of the frames     *)
(* that ask for one, or nothing.                                           *)
(***************************************************************************)
LEMMA SessionFrame ==
  ASSUME IInv, NEW c \in Consoles, NEW z \in ConsoleStates, Fine(c, z), View(z) = View(con[c]),
         SendInSession(c, z), met' = met, port' \in Ports, port <= port',
         count' \in [host : [Consoles -> 0 .. MaxHost], flap : 0 .. MaxFlap]
  PROVE  IInv'
  <1> USE DEF IInv
  <1>1. /\ port \in Nat /\ port' \in Nat /\ z.our.seq \in Nat /\ MaxSeq \in Nat
        /\ TypeOK /\ z.gn_src_port = con[c].gn_src_port /\ con[c].gn_src_port <= port
        /\ z.gn_src_port \in Nat /\ z.gn_state = "CONNECTED"
    BY PortsAreNumbers, MaxSeqAssumption
       DEF Base, TypeOK, World, ConsoleStates, StateOf, View, SendInSession
  <1>2. PICK open \in BOOLEAN : open = (z.mm_screen = SONG_SCREEN)
    OBVIOUS
  <1>p. PICK pressed \in BOOLEAN :
          \/ con' = [con EXCEPT ![c] = AfterFlags(z, pressed)] /\ net' = net
          \/ /\ z.our.seq < MaxSeq
             /\ con' = [con EXCEPT ![c] = Advanced(AfterFlags(z, pressed))]
             /\ Transmit(z, Datagram("GAMESTATE", c, Advanced(AfterFlags(z, pressed)),
                                     Advanced(AfterFlags(z, pressed)).our))
    BY DEF SendInSession, Advanced
  <1>3. PICK t, u :
          /\ t = AfterFlags(z, pressed) /\ u = Advanced(t)
          /\ \/ con' = [con EXCEPT ![c] = t] /\ net' = net
             \/ /\ z.our.seq < MaxSeq
                /\ con' = [con EXCEPT ![c] = u]
                /\ Transmit(z, Datagram("GAMESTATE", c, u, u.our))
    BY <1>p
  <1>4. /\ t \in ConsoleStates /\ t.our.seq = z.our.seq /\ Framed(t, z, open, pressed)
        /\ t.menu = z.menu /\ t.gn_state = z.gn_state /\ t.stale = z.stale
        /\ t.gn_remote_ip = z.gn_remote_ip /\ t.gn_remote_port = z.gn_remote_port
        /\ t.gn_src_port = z.gn_src_port /\ t.remote = z.remote
    BY <1>2, <1>3, AfterFlagsFacts DEF Framed
  <1>5. z.our.seq < MaxSeq =>
          /\ u \in ConsoleStates /\ u.our.seq = z.our.seq + 1 /\ Framed(u, z, open, pressed)
          /\ u.menu = z.menu /\ u.gn_state = z.gn_state /\ u.stale = z.stale
          /\ u.gn_remote_ip = z.gn_remote_ip /\ u.gn_remote_port = z.gn_remote_port
          /\ u.gn_src_port = z.gn_src_port /\ u.remote = z.remote
    <2> SUFFICES ASSUME z.our.seq < MaxSeq
                 PROVE  /\ u \in ConsoleStates /\ u.our.seq = z.our.seq + 1
                        /\ Framed(u, z, open, pressed)
                        /\ u.menu = z.menu /\ u.gn_state = z.gn_state /\ u.stale = z.stale
                        /\ u.gn_remote_ip = z.gn_remote_ip
                        /\ u.gn_remote_port = z.gn_remote_port
                        /\ u.gn_src_port = z.gn_src_port /\ u.remote = z.remote
      OBVIOUS
    <2>0. t \in ConsoleStates /\ t.our.seq < MaxSeq /\ u = Advanced(t)
      BY <1>3, <1>4
    <2>1. /\ u \in ConsoleStates
          /\ u.our = [seq |-> t.our.seq + 1, flags |-> t.our.flags]
          /\ u.menu = t.menu /\ u.gn_state = t.gn_state /\ u.stale = t.stale
          /\ u.gn_remote_ip = t.gn_remote_ip /\ u.gn_remote_port = t.gn_remote_port
          /\ u.gn_src_port = t.gn_src_port /\ u.remote = t.remote
          /\ u.gn_our_playernum = t.gn_our_playernum
      BY <2>0, NextSeq
    <2>2. u.our.seq = z.our.seq + 1 /\ u.our.flags = t.our.flags
      BY <1>4, <2>1
    <2> QED
      BY <1>4, <2>1, <2>2 DEF Framed
  <1>6. PICK x :
          /\ con' = [con EXCEPT ![c] = x]
          /\ x \in ConsoleStates /\ Framed(x, z, open, pressed)
          /\ x.menu = z.menu /\ x.gn_state = z.gn_state /\ x.stale = z.stale
          /\ x.gn_remote_ip = z.gn_remote_ip /\ x.gn_remote_port = z.gn_remote_port
          /\ x.gn_src_port = z.gn_src_port /\ x.remote = z.remote
          /\ z.our.seq <= x.our.seq
          /\ \/ net' = net
             \/ /\ x.our.seq = z.our.seq + 1
                /\ net' = net \cup {Datagram("GAMESTATE", c, x, x.our)}
    <2>1. CASE con' = [con EXCEPT ![c] = t] /\ net' = net
      <3>1. z.our.seq <= t.our.seq
        BY <1>1, <1>4
      <3> QED
        BY <1>4, <2>1, <3>1
    <2>2. CASE /\ z.our.seq < MaxSeq /\ con' = [con EXCEPT ![c] = u]
               /\ Transmit(z, Datagram("GAMESTATE", c, u, u.our))
      <3>1. net' = net \/ net' = net \cup {Datagram("GAMESTATE", c, u, u.our)}
        BY <2>2 DEF Transmit
      <3>2. z.our.seq <= u.our.seq
        BY <1>1, <1>5, <2>2
      <3> QED
        BY <1>5, <2>2, <3>1, <3>2
    <2> QED
      BY <1>3, <2>1, <2>2
  <1>7. z.remote = NoState /\ z.our.flags = {} /\ z.gn_our_playernum = 1 =>
          x.our.flags = {} /\ x.gn_our_playernum = 1
    <2>1. NoState.flags = {}
      BY DEF NoState
    <2> QED
      BY <1>6, <2>1, RestStays DEF Framed
  <1>8. PICK p : p = Datagram("GAMESTATE", c, x, x.our)
    OBVIOUS
  <1>9. Fine(c, x)' /\ (net' # net => Honest(p)' /\ p \in Datagrams)
    <2>1. CASE net' = net
      BY <1>1, <1>6, <1>7, <2>1, QuietFine
    <2>2. CASE net' = net \cup {p}
      <3>1. "GAMESTATE" \in Kinds
        BY DEF Kinds
      <3>2. /\ x \in ConsoleStates /\ x.gn_state = "CONNECTED" /\ x.our \in StateOf
            /\ p = Datagram("GAMESTATE", c, x, x.our)
        BY <1>1, <1>6, <1>8 DEF ConsoleStates
      <3> QED
        BY <1>1, <1>6, <1>7, <2>2, <3>1, <3>2, SendInSessionFine
    <2> QED
      BY <1>6, <1>8, <2>1, <2>2
  <1>10. TypeOK' /\ con'[c] = x /\ \A d \in Consoles : d # c => con'[d] = con[d]
    <2>1. net' \subseteq Datagrams
      BY <1>1, <1>6, <1>8, <1>9 DEF TypeOK
    <2>2. met' \in [Consoles -> SUBSET (Consoles \X Ports)]
      BY <1>1 DEF TypeOK
    <2> QED
      BY <1>1, <1>6, <2>1, <2>2, TypedStep
  <1>11. Base'
    <2>1. Fine(c, con[c])'
      BY <1>9, <1>10
         DEF Fine, Placed, Addressed, Unused, Told, HostSide, JoinSide, Hosting, Joined
    <2>2. \A q \in net' \ net : q.src = c /\ Honest(q)'
      <3>1. p.src = c
        BY <1>8 DEF Datagram
      <3>2. \A q \in net' \ net : q = p
        BY <1>6, <1>8
      <3>3. (net' \ net) # {} => Honest(p)'
        BY <1>9
      <3> QED
        BY <3>1, <3>2, <3>3
    <2>3. con'[c].gn_src_port <= port'
      BY <1>1, <1>6, <1>10
    <2>4. net \subseteq net'
      BY <1>6
    <2> QED
      BY <1>10, <2>1, <2>2, <2>3, <2>4, BaseStep
  <1>12. Paced'
    BY <1>1, <1>6, <1>10, PacedSend
  <1> QED
    BY <1>11, <1>12

\* What a console sends when it is in no session.
Asks == {"ARP_REQUEST", "ARP_REPLY", "CONNECT", "ACK"}

(***************************************************************************)
(* A step that takes console c to a state outside sessions, or leaves its  *)
(* session alone, and sends nothing that belongs to one.                   *)
(***************************************************************************)
LEMMA LoneStep ==
  ASSUME IInv, NEW c \in Consoles, NEW x \in ConsoleStates, con' = [con EXCEPT ![c] = x],
         Fine(c, x), x.gn_state # "CONNECTED" \/ View(x) = View(con[c]),
         x.gn_src_port <= port',
         met' = met, port' \in Ports, port <= port',
         count' \in [host : [Consoles -> 0 .. MaxHost], flap : 0 .. MaxFlap],
         NEW p,
         \/ net' = net
         \/ /\ net' = net \cup {p} /\ p \in Datagrams /\ p.src = c /\ p.type # "GAMESTATE"
            /\ Honest(p)'
            /\ p.type \in Asks \/ x.gn_state = "IDLE"
  PROVE  IInv'
  <1> USE DEF IInv
  <1>1. port \in Nat /\ port' \in Nat /\ TypeOK
    BY PortsAreNumbers DEF Base, TypeOK
  <1>2. TypeOK' /\ con'[c] = x /\ \A d \in Consoles : d # c => con'[d] = con[d]
    <2>1. net' \subseteq Datagrams /\ met' \in [Consoles -> SUBSET (Consoles \X Ports)]
      BY <1>1 DEF TypeOK
    <2> QED
      BY <1>1, <2>1, TypedStep
  <1>3. Fine(c, x)'
    <2>1. CASE x.gn_state = "IDLE"
      BY <2>1 DEF Fine, Placed, Addressed, Unused, Told, HostSide, JoinSide, Hosting, Joined
    <2>2. CASE x.gn_state # "IDLE"
      <3>1. \A q \in net' \ net : q.type \notin Kinds
        BY <2>2 DEF Asks, Kinds
      <3> QED
        BY <3>1, FineStable
    <2> QED
      BY <2>1, <2>2
  <1>4. Fine(c, con[c])'
    BY <1>2, <1>3 DEF Fine, Placed, Addressed, Unused, Told, HostSide, JoinSide, Hosting, Joined
  <1>5. Base'
    <2>1. \A q \in net' \ net : q.src = c /\ Honest(q)'
      OBVIOUS
    <2> QED
      BY <1>1, <1>2, <1>4, <2>1, BaseStep
  <1>6. Paced'
    <2>1. \A q \in net' \ net : q.type # "GAMESTATE"
      OBVIOUS
    <2> QED
      BY <1>2, <2>1, PacedStep
  <1> QED
    BY <1>5, <1>6

\* The state of a datagram that carries none.
LEMMA NoStateFits == NoState \in StateOf /\ 0 \in Ports
  BY MaxSeqAssumption, PortsAreNumbers DEF NoState, StateOf, Flags, GAME_PORT

\* The ARP frames a console sends.
LEMMA ArpFacts ==
  ASSUME NEW c \in Consoles, NEW d \in Consoles \cup {BROADCAST},
         NEW type \in {"ARP_REQUEST", "ARP_REPLY"}, NEW p, p = ArpFrame(type, c, d)
  PROVE  p \in Datagrams /\ p.src = c /\ p.type = type
  BY NoStateFits DEF ArpFrame, Datagrams, Types

\* The datagrams a console sends outside sessions.
LEMMA AskFacts ==
  ASSUME NEW c \in Consoles, NEW s \in ConsoleStates, s.gn_remote_ip \in Consoles \cup {BROADCAST},
         NEW type \in {"CONNECT", "ACK"}, NEW p, p = Datagram(type, c, s, NoState)
  PROVE  /\ p \in Datagrams /\ p.src = c /\ p.type = type
         /\ p.sport = s.gn_src_port /\ p.dst = s.gn_remote_ip
  <1>1. s.gn_src_port \in Ports /\ s.gn_remote_port \in Ports
    BY DEF ConsoleStates
  <1> QED
    BY <1>1, NoStateFits DEF Datagram, Datagrams, Types

\* A frame outside sessions.
LEMMA LoneFrame ==
  ASSUME IInv, NEW c \in Consoles, NEW z \in ConsoleStates, Fine(c, z),
         SendWhileJoining(c, z), met' = met, port' \in Ports, port <= port', z.gn_src_port <= port',
         count' \in [host : [Consoles -> 0 .. MaxHost], flap : 0 .. MaxFlap]
  PROVE  IInv'
  <1>1. con' = [con EXCEPT ![c] = z]
    BY DEF SendWhileJoining
  <1>2. CASE z.gn_state = "CONNECTING_ARP" /\ Transmit(z, ArpFrame("ARP_REQUEST", c, z.gn_remote_ip))
    <2>1. PICK p : p = ArpFrame("ARP_REQUEST", c, z.gn_remote_ip)
      OBVIOUS
    <2>2. z.gn_remote_ip \in Consoles \cup {BROADCAST}
      BY <1>2 DEF Fine, Addressed
    <2>3. p \in Datagrams /\ p.src = c /\ p.type = "ARP_REQUEST"
      BY <2>1, <2>2, ArpFacts
    <2>4. Honest(p)'
      BY <2>3 DEF Honest, Kinds
    <2>5. net' = net \/ net' = net \cup {p}
      BY <1>2, <2>1 DEF Transmit
    <2> QED
      BY <1>1, <1>2, <2>3, <2>4, <2>5, LoneStep DEF Asks
  <1>3. CASE z.gn_state = "CONNECTING" /\ Transmit(z, Datagram("CONNECT", c, z, NoState))
    <2>1. PICK p : p = Datagram("CONNECT", c, z, NoState)
      OBVIOUS
    <2>2. z.gn_remote_ip \in Consoles \cup {BROADCAST} /\ z.gn_src_port # GAME_PORT
      BY <1>3 DEF Fine, Addressed
    <2>3. p \in Datagrams /\ p.src = c /\ p.type = "CONNECT" /\ p.sport = z.gn_src_port
      BY <2>1, <2>2, AskFacts
    <2>4. Honest(p)'
      BY <2>2, <2>3 DEF Honest, Kinds
    <2>5. net' = net \/ net' = net \cup {p}
      BY <1>3, <2>1 DEF Transmit
    <2> QED
      BY <1>1, <1>3, <2>3, <2>4, <2>5, LoneStep DEF Asks
  <1>4. CASE z.gn_state # "CONNECTED" /\ net' = net
    BY <1>1, <1>4, LoneStep
  <1> QED
    BY <1>2, <1>3, <1>4 DEF SendWhileJoining

\* hMultiMenuHandleScreen, after what the screen has done.
LEMMA FrameInvariant ==
  ASSUME IInv, NEW c \in Consoles, NEW s \in ConsoleStates, Frame(c, s), Fine(c, s),
         s.gn_state # "CONNECTED" \/ View(s) = View(con[c]), s.gn_src_port <= port',
         port' \in Ports, port <= port',
         count' \in [host : [Consoles -> 0 .. MaxHost], flap : 0 .. MaxFlap]
  PROVE  IInv'
  <1>1. PICK z : z = IF s.menu \in MenuScreens /\ s.gn_state = "CONNECTED"
                     THEN [s EXCEPT !.mm_screen = s.menu] ELSE s
    OBVIOUS
  <1>2. /\ z \in ConsoleStates /\ View(z) = View(s) /\ z.menu = s.menu
        /\ z.gn_state = s.gn_state /\ z.gn_src_port = s.gn_src_port
    BY <1>1 DEF ConsoleStates, View
  <1>3. Fine(c, z)
    BY <1>2, ViewFine DEF Fine, Placed
  <1>4. met' = met /\ (SendInSession(c, z) \/ SendWhileJoining(c, z))
    BY <1>1 DEF Frame, SendGameState
  <1>5. CASE SendInSession(c, z)
    <2>1. View(z) = View(con[c])
      BY <1>2, <1>5 DEF SendInSession
    <2> QED
      BY <1>2, <1>3, <1>4, <1>5, <2>1, SessionFrame
  <1>6. CASE SendWhileJoining(c, z)
    BY <1>2, <1>3, <1>4, <1>6, LoneFrame
  <1> QED
    BY <1>4, <1>5, <1>6

\* A frame that only goes to another screen, or none.
LEMMA ScreenInvariant ==
  ASSUME IInv, NEW c \in Consoles, NEW m \in Menus, NEW s, s = [con[c] EXCEPT !.menu = m],
         Placed(s), Frame(c, s), UNCHANGED <<port, count>>
  PROVE  IInv'
  <1> USE DEF IInv
  <1>1. PICK o : o = con[c]
    OBVIOUS
  <1>2. o \in ConsoleStates /\ Fine(c, o) /\ o.gn_src_port <= port
    BY <1>1 DEF Base, TypeOK, World
  <1>3. s \in ConsoleStates /\ View(s) = View(o) /\ s.gn_src_port = o.gn_src_port
    BY <1>1, <1>2, MenuFacts
  <1>4. Fine(c, s)
    BY <1>2, <1>3, ViewFine
  <1>5. /\ port' \in Ports /\ port <= port'
        /\ count' \in [host : [Consoles -> 0 .. MaxHost], flap : 0 .. MaxFlap]
    BY PortsAreNumbers DEF Base, TypeOK
  <1>6. s.gn_src_port <= port'
    BY <1>2, <1>3
  <1> QED
    BY <1>1, <1>3, <1>4, <1>5, <1>6, FrameInvariant

\* A frame that gives an attempt up.
LEMMA CancelInvariant ==
  ASSUME IInv, NEW c \in Consoles, NEW m \in Menus, NEW s,
         s = [con[c] EXCEPT !.menu = m, !.gn_state = "IDLE"],
         Frame(c, s), UNCHANGED <<port, count>>
  PROVE  IInv'
  <1> USE DEF IInv
  <1>1. con[c] \in ConsoleStates /\ con[c].gn_src_port <= port
    BY DEF Base, TypeOK, World
  <1>2. s \in ConsoleStates /\ s.gn_src_port = con[c].gn_src_port /\ s.gn_state = "IDLE"
    BY <1>1 DEF ConsoleStates, GnStates
  <1>3. /\ port' \in Ports /\ port <= port'
        /\ count' \in [host : [Consoles -> 0 .. MaxHost], flap : 0 .. MaxFlap]
    BY PortsAreNumbers DEF Base, TypeOK
  <1>4. s.gn_src_port <= port' /\ s.gn_state # "CONNECTED"
    BY <1>1, <1>2
  <1>5. Fine(c, s)
    BY <1>2, IdleFine
  <1> QED
    BY <1>2, <1>3, <1>4, <1>5, FrameInvariant

\* The sessions of the Host screen begin on the port hosts listen on.
LEMMA ChooseHostInvariant ==
  ASSUME IInv, NEW c \in Consoles, ChooseHost(c)
  PROVE  IInv'
  <1> USE DEF IInv
  <1>1. PICK s : s = [con[c] EXCEPT !.menu = HOST, !.gn_src_port = GAME_PORT,
                                    !.gn_state = "HOSTING"]
    OBVIOUS
  <1>2. con[c] \in ConsoleStates
    BY DEF Base, TypeOK
  <1>3. /\ s \in ConsoleStates /\ s.gn_src_port = GAME_PORT /\ s.gn_state = "HOSTING"
        /\ s.menu = HOST
    BY <1>1, <1>2, PortsAreNumbers DEF ConsoleStates, GnStates, Menus
  <1>4. Fine(c, s)
    <2>1. Placed(s)
      BY <1>3 DEF Placed, OUT, MPTYPE, HOST, JOIN, JOINING, MenuScreens, SONG_SCREEN, LAST_SCREEN
    <2> QED
      BY <1>3, <2>1, LoneFine DEF Addressed, Unused
  <1>5. count' \in [host : [Consoles -> 0 .. MaxHost], flap : 0 .. MaxFlap]
    <2>1. /\ count.host \in [Consoles -> 0 .. MaxHost] /\ count.flap \in 0 .. MaxFlap
          /\ MaxHost \in Nat /\ count.host[c] + 1 \in 0 .. MaxHost
      BY BoundAssumption DEF Base, TypeOK, ChooseHost
    <2>2. count' = [count EXCEPT !.host = [count.host EXCEPT ![c] = count.host[c] + 1]]
      BY DEF ChooseHost, Base, TypeOK
    <2>3. [count.host EXCEPT ![c] = count.host[c] + 1] \in [Consoles -> 0 .. MaxHost]
      BY <2>1
    <2> QED
      BY <2>1, <2>2, <2>3 DEF Base, TypeOK
  <1>6. port' \in Ports /\ port <= port' /\ s.gn_src_port <= port'
    BY <1>3, PortsAreNumbers DEF ChooseHost, Base, TypeOK, Ports, GAME_PORT
  <1>7. Frame(c, s) /\ s.gn_state # "CONNECTED"
    BY <1>1, <1>3 DEF ChooseHost
  <1> QED
    BY <1>3, <1>4, <1>5, <1>6, <1>7, FrameInvariant

\* An attempt to join begins on a port from which nothing was ever sent.
LEMMA JoinConnectInvariant ==
  ASSUME IInv, NEW c \in Consoles, JoinConnect(c)
  PROVE  IInv'
  <1> USE DEF IInv
  <1> DEFINE attempt(q, target) ==
               [con[c] EXCEPT
                  !.menu = JOINING, !.gn_src_port = q, !.gn_remote_ip = target,
                  !.gn_remote_port = GAME_PORT,
                  !.gn_state = IF target = BROADCAST THEN "CONNECTING"
                                                     ELSE "CONNECTING_ARP"]
  <1>t. PICK target \in (Hosts \ {c}) \cup {BROADCAST} : Frame(c, attempt(port', target))
    BY DEF JoinConnect
  <1>s. PICK q, s : q = port' /\ s = attempt(q, target)
    OBVIOUS
  <1>1. q = port' /\ q = port + 1 /\ s = attempt(q, target) /\ Frame(c, s)
    <2>1. s = attempt(port', target)
      BY <1>s
    <2> HIDE DEF attempt
    <2>2. Frame(c, s)
      BY <1>t, <2>1
    <2> QED
      BY <1>s, <2>2 DEF JoinConnect
  <1>2. con[c] \in ConsoleStates /\ port \in Nat /\ q \in Ports /\ q \in Nat /\ q # GAME_PORT
        /\ port <= q
    BY <1>1, PortsAreNumbers DEF Base, TypeOK, JoinConnect, Ports, GAME_PORT
  <1>3. target \in Consoles \cup {BROADCAST}
    BY DEF Consoles
  <1>4. /\ s \in ConsoleStates /\ s.gn_src_port = q /\ s.gn_remote_ip = target
        /\ s.gn_remote_port = GAME_PORT /\ s.menu = JOINING
        /\ s.gn_state \in {"CONNECTING", "CONNECTING_ARP"}
    BY <1>1, <1>2, <1>3, PortsAreNumbers DEF ConsoleStates, GnStates, Menus
  <1>5. Own(c, q) = {}
    <2> SUFFICES ASSUME NEW p \in net, p.type \in Kinds, p.sport = q PROVE FALSE
      BY DEF Own
    <2>1. Honest(p)
      BY DEF Base, World
    <2>2. p.sport <= port
      BY <2>1 DEF Honest
    <2> QED
      BY <1>1, <1>2, <2>2
  <1>6. Fine(c, s)
    <2>1. Placed(s)
      BY <1>4 DEF Placed, OUT, MPTYPE, HOST, JOIN, JOINING, MenuScreens, SONG_SCREEN, LAST_SCREEN
    <2>2. Addressed(c, s) /\ Unused(c, s)
      BY <1>2, <1>3, <1>4, <1>5 DEF Addressed, Unused
    <2> QED
      BY <1>4, <2>1, <2>2, LoneFine
  <1>7. count' \in [host : [Consoles -> 0 .. MaxHost], flap : 0 .. MaxFlap]
    BY DEF JoinConnect, Base, TypeOK
  <1>8. s.gn_src_port <= port' /\ port' \in Ports /\ port <= port' /\ s.gn_state # "CONNECTED"
    BY <1>1, <1>2, <1>4
  <1> QED
    BY <1>1, <1>4, <1>6, <1>7, <1>8, FrameInvariant

\* The FIN, and the end of the session on this side.
LEMMA LeaveMenuInvariant ==
  ASSUME IInv, NEW c \in Consoles, LeaveMenu(c)
  PROVE  IInv'
  <1> USE DEF IInv
  <1> DEFINE left(u) == [u EXCEPT !.menu = OUT, !.gn_state = "IDLE"]
  <1>1. PICK s, t, p : s = con[c] /\ t = Advanced(s) /\ p = Datagram("FIN", c, t, t.our)
    OBVIOUS
  <1>2. \/ /\ s.gn_state = "CONNECTED" /\ s.our.seq < MaxSeq
           /\ con' = [con EXCEPT ![c] = left(t)]
           /\ Transmit(s, p)
        \/ /\ con' = [con EXCEPT ![c] = left(s)]
           /\ net' = net
    BY <1>1 DEF LeaveMenu, Advanced
  <1>3. /\ s \in ConsoleStates /\ Fine(c, s) /\ s.gn_src_port <= port /\ port \in Nat
        /\ port' = port /\ met' = met /\ port' \in Ports
        /\ count' \in [host : [Consoles -> 0 .. MaxHost], flap : 0 .. MaxFlap]
    BY <1>1, PortsAreNumbers DEF Base, TypeOK, World, LeaveMenu
  <1>4. \A u \in ConsoleStates :
          /\ left(u) \in ConsoleStates /\ left(u).gn_state = "IDLE"
          /\ left(u).gn_src_port = u.gn_src_port
    BY DEF ConsoleStates, GnStates, Menus
  <1>5. port <= port'
    BY <1>3
  <1>6. CASE /\ s.gn_state = "CONNECTED" /\ s.our.seq < MaxSeq
             /\ con' = [con EXCEPT ![c] = left(t)]
             /\ Transmit(s, p)
    <2>1. /\ t \in ConsoleStates
          /\ t.our = [seq |-> s.our.seq + 1, flags |-> s.our.flags]
          /\ t.menu = s.menu /\ t.gn_state = s.gn_state
          /\ t.gn_remote_ip = s.gn_remote_ip /\ t.gn_remote_port = s.gn_remote_port
          /\ t.gn_src_port = s.gn_src_port /\ t.remote = s.remote /\ t.stale = s.stale
          /\ t.gn_our_playernum = s.gn_our_playernum
      BY <1>1, <1>3, <1>6, NextSeq
    <2>2. t.our.seq = s.our.seq + 1 /\ t.our.flags = s.our.flags /\ s.our.seq \in Nat
      BY <1>3, <2>1, MaxSeqAssumption DEF ConsoleStates, StateOf
    <2>3. s.our.seq <= t.our.seq
      BY <2>2
    <2>4. PICK x : x = left(t)
      OBVIOUS
    <2>5. x \in ConsoleStates /\ x.gn_state = "IDLE" /\ x.gn_src_port = s.gn_src_port
      BY <1>4, <2>1, <2>4
    <2>6. con' = [con EXCEPT ![c] = x] /\ Fine(c, x) /\ x.gn_src_port <= port'
      BY <1>3, <1>6, <2>4, <2>5, IdleFine
    <2>7. CASE net' = net
      BY <1>3, <1>5, <2>5, <2>6, <2>7, LoneStep
    <2>8. CASE net' = net \cup {p}
      <3>1. Honest(p)' /\ p \in Datagrams
        BY <1>1, <1>3, <1>5, <1>6, <2>1, <2>2, <2>3, <2>8, SendInSessionFine DEF Kinds
      <3>2. p.src = c /\ p.type = "FIN"
        BY <1>1 DEF Datagram
      <3> QED
        BY <1>3, <1>5, <2>5, <2>6, <2>8, <3>1, <3>2, LoneStep
    <2> QED
      BY <1>6, <2>7, <2>8 DEF Transmit
  <1>7. CASE con' = [con EXCEPT ![c] = left(s)] /\ net' = net
    <2>1. PICK x : x = left(s)
      OBVIOUS
    <2>2. x \in ConsoleStates /\ x.gn_state = "IDLE" /\ x.gn_src_port = s.gn_src_port
      BY <1>3, <1>4, <2>1
    <2>3. con' = [con EXCEPT ![c] = x] /\ Fine(c, x) /\ x.gn_src_port <= port'
      BY <1>3, <1>7, <2>1, <2>2, IdleFine
    <2> QED
      BY <1>3, <1>5, <1>7, <2>2, <2>3, LoneStep
  <1> QED
    BY <1>2, <1>6, <1>7

-----------------------------------------------------------------------------
\* A handler interrupted by a lost link counts it.
LEMMA InterruptedFacts ==
  ASSUME TypeOK, NEW down \in BOOLEAN, Interrupted(down)
  PROVE  count' \in [host : [Consoles -> 0 .. MaxHost], flap : 0 .. MaxFlap]
  <1>1. CASE down
    <2>1. /\ count.host \in [Consoles -> 0 .. MaxHost] /\ count.flap \in 0 .. MaxFlap
          /\ MaxFlap \in Nat /\ count.flap < MaxFlap
          /\ count' = [count EXCEPT !.flap = count.flap + 1]
      BY <1>1, BoundAssumption DEF TypeOK, Interrupted, Drop
    <2>2. count.flap + 1 \in 0 .. MaxFlap
      BY <2>1
    <2> QED
      BY <2>1, <2>2 DEF TypeOK
  <1>2. CASE ~down
    BY <1>2 DEF TypeOK, Interrupted
  <1> QED
    BY <1>1, <1>2

\* LinkStateDown leaves all but gn_state and the link alone.
LEMMA SeenFacts ==
  ASSUME NEW s \in ConsoleStates, NEW down \in BOOLEAN, NEW t, t = Seen(s, down)
  PROVE  /\ t \in ConsoleStates /\ t.menu = s.menu /\ t.gn_state \in {s.gn_state, "IDLE"}
         /\ t.gn_src_port = s.gn_src_port /\ t.gn_remote_ip = s.gn_remote_ip
         /\ t.gn_remote_port = s.gn_remote_port /\ t.our = s.our
  BY DEF Seen, LinkLost, ConsoleStates, GnStates

\* What both sides of a session start from.
LEMMA EnterFacts ==
  ASSUME NEW s \in ConsoleStates, NEW p \in Datagrams, NEW player \in {0, 1},
         NEW x, x = EnterSession(s, p, player)
  PROVE  /\ x \in ConsoleStates /\ x.menu = s.menu /\ x.gn_state = "CONNECTED"
         /\ x.gn_remote_ip = p.src /\ x.gn_remote_port = p.sport /\ x.gn_src_port = p.dport
         /\ x.gn_our_playernum = player /\ x.our = NoState /\ x.remote = NoState
  <1>1. /\ p.src \in Consoles /\ p.sport \in Ports /\ p.dport \in Ports
        /\ NoState \in StateOf /\ SONG_SCREEN \in MenuScreens
    BY NoStateFits DEF Datagrams, MenuScreens
  <1> QED
    BY <1>1 DEF EnterSession, ConsoleStates, GnStates

\* HandleConnect, with a name for what the console has heard and for its count.
Heard(s, p, down) ==
  [Seen(s, down) EXCEPT
     !.gn_remote_ip = p.src, !.gn_remote_port = p.sport, !.gn_src_port = p.dport]

Counted(t) == [t EXCEPT !.our.seq = IF @ < MaxSeq THEN @ + 1 ELSE @]

Acknowledge(c, p, down) ==
  LET t == Heard(con[c], p, down)
      u == Counted(t)
  IN  /\ ForUs(c, p) /\ p.type = "CONNECT" /\ con[c].link_up
      /\ con[c].gn_state = "HOSTING" /\ p.dport = GAME_PORT
      /\ Interrupted(down)
      /\ \/ con' = [con EXCEPT ![c] = t] /\ UNCHANGED net
         \/ con' = [con EXCEPT ![c] = u] /\ Transmit(t, Datagram("ACK", c, u, NoState))
      /\ UNCHANGED <<port, met>>

\* The ACK to a CONNECT.
LEMMA HandleConnectInvariant ==
  ASSUME IInv, NEW c \in Consoles, HandleConnect(c)
  PROVE  IInv'
  <1> USE DEF IInv
  <1>0. PICK p \in net, down \in BOOLEAN : Acknowledge(c, p, down)
    BY DEF HandleConnect, Acknowledge, Heard, Counted
  <1>a. PICK s, t : s = con[c] /\ t = Heard(s, p, down)
    OBVIOUS
  <1>b. PICK u : u = Counted(t)
    OBVIOUS
  <1>1. /\ s = con[c] /\ s.gn_state = "HOSTING" /\ p.dport = GAME_PORT
        /\ Interrupted(down)
        /\ \/ con' = [con EXCEPT ![c] = t] /\ net' = net
           \/ con' = [con EXCEPT ![c] = u] /\ Transmit(t, Datagram("ACK", c, u, NoState))
        /\ port' = port /\ met' = met
    BY <1>0, <1>a, <1>b DEF Acknowledge
  <1>2. /\ s \in ConsoleStates /\ p \in Datagrams /\ Fine(c, s) /\ TypeOK /\ port \in Nat
        /\ port \in Ports
    BY <1>1, PortsAreNumbers DEF Base, TypeOK
  <1>3. p.src \in Consoles /\ p.sport \in Ports /\ p.dport \in Ports
    BY <1>2 DEF Datagrams
  <1>4. PICK r : r = Seen(s, down)
    OBVIOUS
  <1>5. r \in ConsoleStates /\ r.menu = s.menu /\ r.gn_state \in {"HOSTING", "IDLE"} /\ r.our = s.our
    BY <1>1, <1>2, <1>4, SeenFacts
  <1>6. t = [r EXCEPT !.gn_remote_ip = p.src, !.gn_remote_port = p.sport,
                      !.gn_src_port = p.dport]
    BY <1>a, <1>4 DEF Heard
  <1>7. /\ t \in ConsoleStates /\ t.menu = s.menu /\ t.gn_state = r.gn_state /\ t.our = s.our
        /\ t.gn_src_port = p.dport /\ t.gn_remote_ip = p.src
    BY <1>3, <1>5, <1>6 DEF ConsoleStates
  <1>8. /\ u \in ConsoleStates /\ u.menu = s.menu /\ u.gn_state = r.gn_state
        /\ u.gn_src_port = p.dport /\ u.gn_remote_ip = p.src
    <2>1. PICK n : n = [t.our EXCEPT !.seq = IF t.our.seq < MaxSeq THEN t.our.seq + 1
                                                                  ELSE t.our.seq]
      OBVIOUS
    <2>2. t.our \in StateOf
      BY <1>7 DEF ConsoleStates
    <2>3. n \in StateOf
      BY <2>1, <2>2, MaxSeqAssumption DEF StateOf
    <2>4. u = [t EXCEPT !.our = n]
      BY <1>b, <1>7, <2>1 DEF ConsoleStates, Counted
    <2> QED
      BY <1>7, <2>3, <2>4 DEF ConsoleStates
  <1>9. \A x \in {t, u} : Fine(c, x) /\ x.gn_state # "CONNECTED" /\ x.gn_src_port <= port'
    <2> SUFFICES ASSUME NEW x \in {t, u}
                 PROVE  Fine(c, x) /\ x.gn_state # "CONNECTED" /\ x.gn_src_port <= port'
      OBVIOUS
    <2>1. /\ x.menu = s.menu /\ x.gn_state \in {"HOSTING", "IDLE"} /\ x.gn_src_port = GAME_PORT
      BY <1>1, <1>5, <1>7, <1>8
    <2>2. Placed(x) /\ Addressed(c, x) /\ Unused(c, x)
      BY <1>1, <1>2, <2>1 DEF Fine, Placed, Addressed, Unused
    <2> QED
      BY <1>1, <1>2, <2>1, <2>2, LoneFine DEF GAME_PORT
  <1>10. /\ count' \in [host : [Consoles -> 0 .. MaxHost], flap : 0 .. MaxFlap]
         /\ port' \in Ports /\ port <= port'
    BY <1>1, <1>2, InterruptedFacts
  <1>11. CASE con' = [con EXCEPT ![c] = t] /\ net' = net
    BY <1>1, <1>7, <1>9, <1>10, <1>11, LoneStep
  <1>12. CASE con' = [con EXCEPT ![c] = u] /\ Transmit(t, Datagram("ACK", c, u, NoState))
    <2>1. PICK a : a = Datagram("ACK", c, u, NoState)
      OBVIOUS
    <2>2. a \in Datagrams /\ a.src = c /\ a.type = "ACK" /\ a.dst = p.src
      BY <1>3, <1>8, <2>1, AskFacts
    <2>3. Honest(a)'
      BY <1>3, <2>2, AddressAssumption DEF Honest, Kinds
    <2>4. net' = net \/ net' = net \cup {a}
      BY <1>12, <2>1 DEF Transmit
    <2> QED
      BY <1>1, <1>8, <1>9, <1>10, <1>12, <2>2, <2>3, <2>4, LoneStep DEF Asks
  <1> QED
    BY <1>1, <1>11, <1>12

\* An ARP reply says nothing of sessions.
LEMMA HandleArpRequestInvariant ==
  ASSUME IInv, NEW c \in Consoles, HandleArpRequest(c)
  PROVE  IInv'
  <1> USE DEF IInv
  <1>1. PICK q, s, p :
          /\ q \in net /\ s = con[c] /\ p = ArpFrame("ARP_REPLY", c, q.src)
          /\ net' = net \/ net' = net \cup {p}
          /\ con' = con /\ port' = port /\ met' = met /\ count' = count
    BY DEF HandleArpRequest, Transmit
  <1>2. /\ s \in ConsoleStates /\ q \in Datagrams /\ Fine(c, s) /\ s.gn_src_port <= port'
        /\ port' \in Ports /\ port <= port'
        /\ count' \in [host : [Consoles -> 0 .. MaxHost], flap : 0 .. MaxFlap]
    BY <1>1, PortsAreNumbers DEF Base, TypeOK, World
  <1>3. con' = [con EXCEPT ![c] = s]
    BY <1>1 DEF Base, TypeOK
  <1>4. q.src \in Consoles
    BY <1>2 DEF Datagrams
  <1>5. p \in Datagrams /\ p.src = c /\ p.type = "ARP_REPLY"
    BY <1>1, <1>4, ArpFacts
  <1>6. Honest(p)'
    BY <1>5 DEF Honest, Kinds
  <1> QED
    BY <1>1, <1>2, <1>3, <1>5, <1>6, LoneStep DEF Asks

\* The joiner has found its host, and asks it from the same port.
LEMMA HandleArpReplyInvariant ==
  ASSUME IInv, NEW c \in Consoles, HandleArpReply(c)
  PROVE  IInv'
  <1> USE DEF IInv
  <1>0. PICK p \in net, down \in BOOLEAN :
          /\ con[c].gn_state = "CONNECTING_ARP" /\ Interrupted(down)
          /\ con' = [con EXCEPT ![c] = [Seen(con[c], down) EXCEPT !.gn_state = "CONNECTING"]]
          /\ net' = net /\ port' = port /\ met' = met
    BY DEF HandleArpReply
  <1>a. PICK s, r : s = con[c] /\ r = Seen(s, down)
    OBVIOUS
  <1>b. PICK x : x = [r EXCEPT !.gn_state = "CONNECTING"]
    OBVIOUS
  <1>1. /\ s = con[c] /\ r = Seen(s, down) /\ x = [r EXCEPT !.gn_state = "CONNECTING"]
        /\ s.gn_state = "CONNECTING_ARP" /\ Interrupted(down)
        /\ con' = [con EXCEPT ![c] = x]
        /\ net' = net /\ port' = port /\ met' = met
    BY <1>0, <1>a, <1>b
  <1>2. /\ s \in ConsoleStates /\ Fine(c, s) /\ s.gn_src_port <= port /\ TypeOK
        /\ port' \in Ports /\ port <= port'
    BY <1>1, PortsAreNumbers DEF Base, TypeOK, World
  <1>3. /\ r \in ConsoleStates /\ r.menu = s.menu
        /\ r.gn_src_port = s.gn_src_port /\ r.gn_remote_ip = s.gn_remote_ip
        /\ r.gn_remote_port = s.gn_remote_port
    BY <1>1, <1>2, SeenFacts
  <1>4. /\ x \in ConsoleStates /\ x.menu = s.menu /\ x.gn_state = "CONNECTING"
        /\ x.gn_src_port = s.gn_src_port /\ x.gn_remote_ip = s.gn_remote_ip
        /\ x.gn_remote_port = s.gn_remote_port
    BY <1>1, <1>3 DEF ConsoleStates, GnStates
  <1>5. Fine(c, x)
    <2>1. Placed(x) /\ Addressed(c, x) /\ Unused(c, x)
      BY <1>1, <1>2, <1>4 DEF Fine, Placed, Addressed, Unused
    <2> QED
      BY <1>4, <2>1, LoneFine
  <1>6. count' \in [host : [Consoles -> 0 .. MaxHost], flap : 0 .. MaxFlap]
    BY <1>1, <1>2, InterruptedFacts
  <1> QED
    BY <1>1, <1>2, <1>4, <1>5, <1>6, LoneStep

\* A lost link ends what the console is in; one that comes back starts nothing.
LEMMA LinkInvariant ==
  ASSUME IInv, NEW c \in Consoles, LinkStateDown(c) \/ LinkStateUp(c)
  PROVE  IInv'
  <1> USE DEF IInv
  <1>1. PICK s : s = con[c]
    OBVIOUS
  <1>2. /\ s \in ConsoleStates /\ Fine(c, s) /\ s.gn_src_port <= port /\ TypeOK
        /\ net' = net /\ port' = port /\ met' = met /\ port' \in Ports /\ port <= port'
    BY <1>1, PortsAreNumbers DEF Base, TypeOK, World, LinkStateDown, LinkStateUp
  <1>3. CASE LinkStateDown(c)
    <2>1. PICK x : x = LinkLost(s)
      OBVIOUS
    <2>2. x \in ConsoleStates /\ x.gn_state = "IDLE" /\ x.gn_src_port = s.gn_src_port
      BY <1>2, <2>1 DEF LinkLost, ConsoleStates, GnStates
    <2>3. con' = [con EXCEPT ![c] = x]
      BY <1>1, <1>3, <2>1 DEF LinkStateDown
    <2>4. count' \in [host : [Consoles -> 0 .. MaxHost], flap : 0 .. MaxFlap]
      <3>1. Interrupted(TRUE)
        BY <1>3 DEF LinkStateDown, Interrupted
      <3> QED
        BY <1>2, <3>1, InterruptedFacts
    <2>5. Fine(c, x) /\ x.gn_src_port <= port'
      BY <1>2, <2>2, IdleFine
    <2> QED
      BY <1>2, <2>2, <2>3, <2>4, <2>5, LoneStep
  <1>4. CASE LinkStateUp(c)
    <2>1. PICK x : x = [s EXCEPT !.link_up = TRUE]
      OBVIOUS
    <2>2. /\ x \in ConsoleStates /\ x.menu = s.menu /\ x.gn_src_port = s.gn_src_port
          /\ x.gn_state = s.gn_state /\ View(x) = View(s)
      BY <1>2, <2>1 DEF ConsoleStates, View
    <2>3. con' = [con EXCEPT ![c] = x]
      BY <1>1, <1>4, <2>1 DEF LinkStateUp
    <2>4. count' \in [host : [Consoles -> 0 .. MaxHost], flap : 0 .. MaxFlap]
      BY <1>2, <1>4 DEF LinkStateUp, TypeOK
    <2>5. Placed(x)
      BY <1>2, <2>2 DEF Fine, Placed
    <2>6. Fine(c, x) /\ x.gn_src_port <= port'
      BY <1>2, <2>2, <2>5, ViewFine
    <2> QED
      BY <1>1, <1>2, <2>2, <2>3, <2>4, <2>6, LoneStep
  <1> QED
    BY <1>3, <1>4

(***************************************************************************)
(* A step of console c that sends nothing: what is left to show is c's     *)
(* part of the invariant, and that its sessions are in turn.               *)
(***************************************************************************)
LEMMA SilentStep ==
  ASSUME Base, NEW c \in Consoles, NEW x \in ConsoleStates, con' = [con EXCEPT ![c] = x],
         Fine(c, x)', x.gn_src_port <= port, net' = net, port' = port,
         count' \in [host : [Consoles -> 0 .. MaxHost], flap : 0 .. MaxFlap],
         met' \in [Consoles -> SUBSET (Consoles \X Ports)],
         \A d \in Consoles : met[d] \subseteq met'[d],
         \A d \in Consoles : \A y \in met'[d] \ met[d] : Met(d, y)'
  PROVE  Base' /\ con'[c] = x /\ \A d \in Consoles : d # c => con'[d] = con[d]
  <1>1. TypeOK /\ port \in Nat /\ port <= port'
    BY PortsAreNumbers DEF Base, TypeOK
  <1>2. TypeOK' /\ con'[c] = x /\ \A d \in Consoles : d # c => con'[d] = con[d]
    BY <1>1, TypedStep DEF TypeOK
  <1>3. Fine(c, con[c])' /\ con'[c].gn_src_port <= port'
    BY <1>2 DEF Fine, Placed, Addressed, Unused, Told, HostSide, JoinSide, Hosting, Joined
  <1>4. \A p \in net' \ net : p.src = c /\ Honest(p)'
    OBVIOUS
  <1> QED
    BY <1>1, <1>2, <1>3, <1>4, BaseStep

\* A state or a FIN of the peer.
LEMMA HandleInSessionInvariant ==
  ASSUME IInv, NEW c \in Consoles, HandleInSession(c)
  PROVE  IInv'
  <1> USE DEF IInv
  <1>1. PICK p, s, x :
          /\ p \in net /\ s = con[c] /\ x = InSession(s, p) /\ x # s
          /\ ForUs(c, p) /\ p.type \in Kinds /\ s.gn_state = "CONNECTED"
          /\ con' = [con EXCEPT ![c] = x]
          /\ net' = net /\ port' = port /\ count' = count /\ met' = met
    BY DEF HandleInSession, Kinds
  <1>2. /\ p.sport = s.gn_remote_port /\ p.dport = s.gn_src_port /\ p.src = s.gn_remote_ip
        /\ \/ p.type = "GAMESTATE" /\ p.state.seq > s.remote.seq /\ x = [s EXCEPT !.remote = p.state]
           \/ p.type = "FIN" /\ x = [s EXCEPT !.gn_state = "IDLE"]
    BY <1>1 DEF InSession
  <1>3. /\ s \in ConsoleStates /\ p \in Datagrams /\ Fine(c, s) /\ s.gn_src_port <= port
        /\ TypeOK /\ Honest(p) /\ port' \in Ports /\ port <= port'
        /\ count' \in [host : [Consoles -> 0 .. MaxHost], flap : 0 .. MaxFlap]
    BY <1>1, PortsAreNumbers DEF Base, TypeOK, World
  <1>4. p.dst = c
    BY <1>1, <1>3 DEF ForUs, Honest
  <1>5. CASE p.type = "FIN" /\ x = [s EXCEPT !.gn_state = "IDLE"]
    <2>1. x \in ConsoleStates /\ x.gn_state = "IDLE" /\ x.gn_src_port = s.gn_src_port
      BY <1>3, <1>5 DEF ConsoleStates, GnStates
    <2>2. Fine(c, x)
      BY <2>1, IdleFine
    <2> QED
      BY <1>1, <1>3, <2>1, <2>2, LoneStep
  <1>6. CASE p.type = "GAMESTATE" /\ p.state.seq > s.remote.seq /\ x = [s EXCEPT !.remote = p.state]
    <2>1. /\ x \in ConsoleStates /\ x.menu = s.menu /\ x.gn_state = s.gn_state
          /\ x.gn_remote_ip = s.gn_remote_ip /\ x.gn_remote_port = s.gn_remote_port
          /\ x.gn_src_port = s.gn_src_port /\ x.gn_our_playernum = s.gn_our_playernum
          /\ x.our = s.our /\ x.remote = p.state /\ x.stale = s.stale
      BY <1>3, <1>6 DEF ConsoleStates, Datagrams
    <2>2. Fine(c, x)
      <3>1. Told(c, x)
        BY <1>1, <1>2, <1>4, <1>6, <2>1 DEF Told
      <3> QED
        BY <1>3, <2>1, <3>1
           DEF Fine, Placed, Addressed, Unused, HostSide, JoinSide, Hosting, Joined
    <2>3. Fine(c, x)'
      BY <1>1, <2>1, <2>2, FineStable
    <2>4. Base' /\ con'[c] = x /\ \A d \in Consoles : d # c => con'[d] = con[d]
      BY <1>1, <1>3, <2>1, <2>3, SilentStep DEF TypeOK
    <2>5. Paced'
      <3> SUFFICES ASSUME NEW h \in Consoles, NEW j \in Consoles, Live(h, j)'
                   PROVE  InPace(h, j, con[h], con[j])'
        BY DEF Paced
      <3>1. Live(h, j) /\ con'[j].gn_src_port = con[j].gn_src_port
        BY <1>1, <2>1, <2>4 DEF Live, Paired
      <3>2. PICK q, a, b : /\ q = con[j].gn_src_port
                           /\ a = States(h, GAME_PORT, j, q) /\ b = States(j, q, h, GAME_PORT)
        OBVIOUS
      <3>3. a = States(h, GAME_PORT, j, q)' /\ b = States(j, q, h, GAME_PORT)'
        BY <1>1, <3>2 DEF States
      <3>4. InTurn(con[h], con[j], 0, a, b)
        BY <3>1, <3>2 DEF Paced, InPace
      <3>5. /\ h # j /\ con[h].gn_src_port = GAME_PORT /\ con[h].gn_remote_ip = j
            /\ con[j].gn_remote_ip = h /\ con[h].gn_remote_port = q
            /\ con[j].gn_remote_port = GAME_PORT
        BY <3>1, <3>2 DEF Live, Paired
      <3>6. PICK y, z : y = con[h] /\ z = con[j]
        OBVIOUS
      <3>7. CASE c = h
        <4>1. p \in b
          BY <1>1, <1>2, <1>4, <1>6, <3>2, <3>5, <3>7 DEF States
        <4>2. y = s
          BY <1>1, <3>6, <3>7
        <4>3. InTurn(x, z, 0, a, b)
          BY <1>6, <2>1, <3>4, <3>6, <4>1, <4>2, AcceptPace
        <4> QED
          BY <2>4, <3>1, <3>2, <3>3, <3>5, <3>6, <3>7, <4>3 DEF InPace
      <3>8. CASE c = j
        <4>1. p \in a
          BY <1>1, <1>2, <1>4, <1>6, <3>2, <3>5, <3>8 DEF States
        <4>2. z = s
          BY <1>1, <3>6, <3>8
        <4>3. InTurn(z, y, 4, b, a)
          <5>1. InTurn(z, y, 4 - 0, b, a)
            BY <3>4, <3>6, OtherEnd
          <5> QED
            BY <5>1
        <4>4. InTurn(x, y, 4, b, a)
          BY <1>6, <2>1, <4>1, <4>2, <4>3, AcceptPace
        <4>5. InTurn(y, x, 0, a, b)
          <5>1. InTurn(y, x, 4 - 4, a, b)
            BY <4>4, OtherEnd
          <5> QED
            BY <5>1
        <4> QED
          BY <2>4, <3>1, <3>2, <3>3, <3>5, <3>6, <3>8, <4>5 DEF InPace
      <3>9. CASE c # h /\ c # j
        BY <2>4, <3>2, <3>3, <3>4, <3>9 DEF InPace
      <3> QED
        BY <3>7, <3>8, <3>9
    <2> QED
      BY <2>4, <2>5
  <1> QED
    BY <1>2, <1>5, <1>6

(***************************************************************************)
(* The joiner enters a session that the host is not in yet: it has sent    *)
(* nothing from this port, and a host meets a joiner by what it has sent.  *)
(***************************************************************************)
LEMMA HandleAckInvariant ==
  ASSUME IInv, NEW c \in Consoles, HandleAck(c)
  PROVE  IInv'
  <1> USE DEF IInv
  <1>0. PICK p \in net, down \in BOOLEAN :
          /\ ForUs(c, p) /\ p.type = "ACK" /\ con[c].gn_state = "CONNECTING"
          /\ p.sport = con[c].gn_remote_port /\ p.dport = con[c].gn_src_port
          /\ Interrupted(down)
          /\ con' = [con EXCEPT ![c] =
                       [EnterSession(Seen(con[c], down), p, 1) EXCEPT !.stale = FALSE]]
          /\ net' = net /\ port' = port /\ met' = met
    BY DEF HandleAck
  <1>1. PICK s, r, e, x :
          /\ s = con[c] /\ r = Seen(s, down) /\ e = EnterSession(r, p, 1)
          /\ x = [e EXCEPT !.stale = FALSE] /\ con' = [con EXCEPT ![c] = x]
    BY <1>0
  <1>2. /\ s \in ConsoleStates /\ p \in Datagrams /\ Fine(c, s) /\ s.gn_src_port <= port
        /\ TypeOK /\ Honest(p)
    BY <1>1, <1>0 DEF Base, TypeOK, World
  <1>3. r \in ConsoleStates /\ r.menu = s.menu
    BY <1>1, <1>2, SeenFacts
  <1>4. /\ e \in ConsoleStates /\ e.menu = s.menu /\ e.gn_state = "CONNECTED"
        /\ e.gn_remote_ip = p.src /\ e.gn_remote_port = p.sport /\ e.gn_src_port = p.dport
        /\ e.gn_our_playernum = 1 /\ e.our = NoState /\ e.remote = NoState
    <2>1. e = EnterSession(r, p, 1) /\ p \in Datagrams /\ r \in ConsoleStates
      BY <1>1, <1>2, <1>3
    <2>2. 1 \in {0, 1}
      OBVIOUS
    <2>3. e.menu = r.menu
      BY <2>1, <2>2, EnterFacts
    <2> QED
      BY <1>3, <2>1, <2>2, <2>3, EnterFacts
  <1>5. /\ x \in ConsoleStates /\ x.menu = s.menu /\ x.gn_state = "CONNECTED"
        /\ x.gn_remote_ip = p.src /\ x.gn_remote_port = GAME_PORT
        /\ x.gn_src_port = s.gn_src_port /\ s.gn_src_port # GAME_PORT
        /\ x.gn_our_playernum = 1 /\ x.our = NoState /\ x.remote = NoState
    <2>1. s.gn_src_port # GAME_PORT /\ s.gn_remote_port = GAME_PORT
      BY <1>0, <1>1, <1>2 DEF Fine, Addressed
    <2> QED
      BY <1>0, <1>1, <1>4, <2>1 DEF ConsoleStates
  <1>6. Own(c, s.gn_src_port) = {}
    BY <1>0, <1>1, <1>2 DEF Fine, Unused
  <1>7. p.dst = c /\ p.src \in Consoles \ {c}
    BY <1>0, <1>2 DEF ForUs, Honest, Datagrams
  <1>8. Fine(c, x)
    <2>1. Placed(x)
      BY <1>0, <1>1, <1>2, <1>5 DEF Fine, Placed
    <2>2. Addressed(c, x) /\ Unused(c, x) /\ Told(c, x) /\ HostSide(c, x)
      BY <1>5, <1>7 DEF Addressed, Unused, Told, HostSide, Hosting
    <2>3. JoinSide(c, x)
      <3>1. Acked(x.gn_remote_ip, c, x.gn_src_port)
        BY <1>0, <1>1, <1>5, <1>7 DEF Acked
      <3>2. x.our.flags = {}
        BY <1>5 DEF NoState
      <3> QED
        BY <1>5, <1>6, <3>1, <3>2 DEF JoinSide
    <2> QED
      BY <2>1, <2>2, <2>3 DEF Fine
  <1>9. Fine(c, x)'
    BY <1>0, <1>5, <1>8, FineStable
  <1>10. count' \in [host : [Consoles -> 0 .. MaxHost], flap : 0 .. MaxFlap]
    BY <1>0, <1>2, InterruptedFacts
  <1>11. Base' /\ con'[c] = x /\ \A d \in Consoles : d # c => con'[d] = con[d]
    <2>1. met' \in [Consoles -> SUBSET (Consoles \X Ports)] /\ x.gn_src_port <= port
      BY <1>0, <1>2, <1>5 DEF TypeOK
    <2>2. /\ \A d \in Consoles : met[d] \subseteq met'[d]
          /\ \A d \in Consoles : \A y \in met'[d] \ met[d] : Met(d, y)'
      BY <1>0
    <2> QED
      BY <1>0, <1>1, <1>5, <1>9, <1>10, <2>1, <2>2, SilentStep
  <1>12. Paced'
    <2> SUFFICES ASSUME NEW h \in Consoles, NEW j \in Consoles, Live(h, j)'
                 PROVE  InPace(h, j, con[h], con[j])'
      BY DEF Paced
    <2>1. c # h
      BY <1>5, <1>11 DEF Live, Paired
    <2>2. c # j
      <3> SUFFICES ASSUME c = j PROVE FALSE
        OBVIOUS
      <3>1. /\ con[h].gn_state = "CONNECTED" /\ con[h].gn_src_port = GAME_PORT
            /\ con[h].gn_remote_ip = c /\ con[h].gn_remote_port = s.gn_src_port
        BY <1>5, <1>11, <2>1 DEF Live, Paired
      <3>2. <<c, s.gn_src_port>> \in met[h]
        BY <3>1 DEF Base, Fine, HostSide, Hosting
      <3>3. Met(h, <<c, s.gn_src_port>>)
        BY <3>2 DEF Base, World
      <3> QED
        BY <1>6, <3>3 DEF Met, Own, Kinds
    <2>3. con'[h] = con[h] /\ con'[j] = con[j]
      BY <1>11, <2>1, <2>2
    <2>4. Live(h, j)
      BY <2>3 DEF Live, Paired
    <2>5. PICK y, z : y = con[h] /\ z = con[j]
      OBVIOUS
    <2>6. InPace(h, j, y, z)
      BY <2>4, <2>5 DEF Paced
    <2>7. InPace(h, j, y, z)'
      BY <1>0, <2>6 DEF InPace, States
    <2> QED
      BY <2>3, <2>5, <2>7 DEF InPace
  <1> QED
    BY <1>11, <1>12

(***************************************************************************)
(* The host enters a session with the joiner's first state.  When it meets *)
(* the joiner's port for the first time, it has sent nothing there, and    *)
(* the joiner is Player 2 at rest, or has left.                            *)
(***************************************************************************)
LEMMA HandleFirstStateInvariant ==
  ASSUME IInv, NEW c \in Consoles, HandleFirstState(c)
  PROVE  IInv'
  <1> USE DEF IInv
  <1>0. PICK p \in net, down \in BOOLEAN :
          /\ ForUs(c, p) /\ p.type = "GAMESTATE" /\ con[c].gn_state = "HOSTING"
          /\ p.dport = GAME_PORT
          /\ Interrupted(down)
          /\ con' = [con EXCEPT ![c] =
                       [InSession(EnterSession(Seen(con[c], down), p, 0), p)
                          EXCEPT !.stale = <<p.src, p.sport>> \in met[c]]]
          /\ met' = [met EXCEPT ![c] = @ \cup {<<p.src, p.sport>>}]
          /\ net' = net /\ port' = port
    BY DEF HandleFirstState
  <1>1. PICK s, r, e, i, x, session :
          /\ s = con[c] /\ r = Seen(s, down) /\ e = EnterSession(r, p, 0)
          /\ i = InSession(e, p) /\ session = <<p.src, p.sport>>
          /\ x = [i EXCEPT !.stale = session \in met[c]] /\ con' = [con EXCEPT ![c] = x]
    BY <1>0
  <1>2. /\ s \in ConsoleStates /\ p \in Datagrams /\ Fine(c, s) /\ s.gn_src_port <= port
        /\ TypeOK /\ Honest(p) /\ port \in Nat
    BY <1>0, <1>1, PortsAreNumbers DEF Base, TypeOK, World
  <1>3. r \in ConsoleStates /\ r.menu = s.menu
    BY <1>1, <1>2, SeenFacts
  <1>4. /\ e \in ConsoleStates /\ e.menu = s.menu /\ e.gn_state = "CONNECTED"
        /\ e.gn_remote_ip = p.src /\ e.gn_remote_port = p.sport /\ e.gn_src_port = p.dport
        /\ e.gn_our_playernum = 0 /\ e.our = NoState /\ e.remote = NoState
    <2>1. e = EnterSession(r, p, 0) /\ p \in Datagrams /\ r \in ConsoleStates
      BY <1>1, <1>2, <1>3
    <2>2. 0 \in {0, 1}
      OBVIOUS
    <2>3. e.menu = r.menu
      BY <2>1, <2>2, EnterFacts
    <2> QED
      BY <1>3, <2>1, <2>2, <2>3, EnterFacts
  <1>5. i = [e EXCEPT !.remote = p.state] \/ i = e
    BY <1>0, <1>1 DEF InSession
  <1>6. /\ i \in ConsoleStates /\ i.menu = s.menu /\ i.gn_state = "CONNECTED"
        /\ i.gn_remote_ip = p.src /\ i.gn_remote_port = p.sport /\ i.gn_src_port = GAME_PORT
        /\ i.gn_our_playernum = 0 /\ i.our = NoState /\ i.remote \in {p.state, NoState}
    <2>1. p.state \in StateOf
      BY <1>2 DEF Datagrams
    <2>2. CASE i = e
      BY <1>0, <1>4, <2>2
    <2>3. CASE i = [e EXCEPT !.remote = p.state]
      BY <1>0, <1>4, <2>1, <2>3 DEF ConsoleStates
    <2> QED
      BY <1>5, <2>2, <2>3
  <1>7. /\ x \in ConsoleStates /\ x.menu = s.menu /\ x.gn_state = "CONNECTED"
        /\ x.gn_remote_ip = p.src /\ x.gn_remote_port = p.sport /\ x.gn_src_port = GAME_PORT
        /\ x.gn_our_playernum = 0 /\ x.our = NoState /\ x.remote \in {p.state, NoState}
        /\ x.stale = (session \in met[c])
    <2>1. (session \in met[c]) \in BOOLEAN
      OBVIOUS
    <2>2. PICK old \in BOOLEAN : old = (session \in met[c])
      BY <2>1
    <2>3. x = [i EXCEPT !.stale = old]
      BY <1>1, <2>2
    <2>4. /\ x \in ConsoleStates /\ x.stale = old
          /\ x.menu = i.menu /\ x.gn_state = i.gn_state /\ x.gn_remote_ip = i.gn_remote_ip
          /\ x.gn_remote_port = i.gn_remote_port /\ x.gn_src_port = i.gn_src_port
          /\ x.gn_our_playernum = i.gn_our_playernum /\ x.our = i.our /\ x.remote = i.remote
      BY <1>6, <2>3 DEF ConsoleStates
    <2> QED
      BY <1>6, <2>2, <2>4
  <1>8. p.dst = c /\ p.src \in Consoles \ {c} /\ p.sport # GAME_PORT /\ p.sport \in Ports
    BY <1>0, <1>2 DEF ForUs, Honest, Datagrams, Kinds
  <1>9. /\ session \in met'[c] /\ session \in Consoles \X Ports
        /\ met' \in [Consoles -> SUBSET (Consoles \X Ports)]
        /\ \A d \in Consoles : met[d] \subseteq met'[d]
        /\ \A d \in Consoles : \A y \in met'[d] \ met[d] : d = c /\ y = session
    BY <1>0, <1>1, <1>2, <1>8 DEF TypeOK
  <1>10. Met(c, session)'
    BY <1>0, <1>1, <1>8 DEF Met
  <1>11. session \notin met[c] => \A o \in net :
           ~(o.type \in Kinds /\ o.src = c /\ o.sport = GAME_PORT
               /\ o.dst = p.src /\ o.dport = p.sport)
    BY <1>1 DEF Base, World, Honest
  <1>12. Fine(c, x)'
    <2>1. Placed(x)'
      BY <1>0, <1>1, <1>2, <1>7 DEF Fine, Placed
    <2>2. Addressed(c, x)' /\ Unused(c, x)' /\ JoinSide(c, x)'
      BY <1>7, <1>8 DEF Addressed, Unused, JoinSide, Joined
    <2>3. Told(c, x)'
      BY <1>0, <1>7, <1>8 DEF Told
    <2>4. HostSide(c, x)'
      <3>1. x.stale \/ \A o \in net :
              ~(o.type \in Kinds /\ o.src = c /\ o.sport = GAME_PORT
                  /\ o.dst = p.src /\ o.dport = p.sport)
        BY <1>7, <1>11
      <3>2. <<x.gn_remote_ip, x.gn_remote_port>> \in met'[c]
        BY <1>1, <1>7, <1>9
      <3>3. net' = net
        BY <1>0
      <3> QED
        BY <1>7, <3>1, <3>2, <3>3 DEF HostSide, Own
    <2> QED
      BY <2>1, <2>2, <2>3, <2>4 DEF Fine
  <1>13. count' \in [host : [Consoles -> 0 .. MaxHost], flap : 0 .. MaxFlap]
    BY <1>0, <1>2, InterruptedFacts
  <1>14. Base' /\ con'[c] = x /\ \A d \in Consoles : d # c => con'[d] = con[d]
    <2>1. x.gn_src_port <= port
      BY <1>2, <1>7 DEF GAME_PORT
    <2>2. \A d \in Consoles : \A y \in met'[d] \ met[d] : Met(d, y)'
      BY <1>9, <1>10
    <2>3. net' = net /\ port' = port /\ con' = [con EXCEPT ![c] = x] /\ x \in ConsoleStates
      BY <1>0, <1>1, <1>7
    <2>4. /\ met' \in [Consoles -> SUBSET (Consoles \X Ports)]
          /\ \A d \in Consoles : met[d] \subseteq met'[d]
      BY <1>9
    <2> QED
      BY <1>12, <1>13, <2>1, <2>2, <2>3, <2>4, SilentStep
  <1>15. Paced'
    <2> SUFFICES ASSUME NEW h \in Consoles, NEW j \in Consoles, Live(h, j)'
                 PROVE  InPace(h, j, con[h], con[j])'
      BY DEF Paced
    <2>1. c # j
      BY <1>7, <1>8, <1>14 DEF Live, Paired
    <2>2. CASE c = h
      <3>1. PICK z, q, a, b :
              /\ z = con[j] /\ q = z.gn_src_port
              /\ a = States(h, GAME_PORT, j, q) /\ b = States(j, q, h, GAME_PORT)
        OBVIOUS
      <3>2. /\ con'[j] = z /\ z.gn_state = "CONNECTED" /\ z.gn_remote_ip = c
            /\ p.src = j /\ p.sport = q /\ q # GAME_PORT /\ ~x.stale
        BY <1>7, <1>8, <1>14, <2>1, <2>2, <3>1 DEF Live, Paired
      <3>3. <<j, q>> \notin met[c]
        BY <1>1, <1>7, <3>2
      <3>4. /\ z.our.flags = {} /\ z.gn_our_playernum = 1
            /\ \A o \in Own(j, q) : o.state.flags = {}
        BY <3>1, <3>2, <3>3 DEF Base, Fine, JoinSide, Joined
      <3>5. z.remote = NoState
        BY <3>1, <3>2, <3>3, UnmetHasHeardNothing DEF Base, TypeOK, Fine, Joined
      <3>6. a = {}
        BY <1>1, <1>11, <2>2, <3>1, <3>2, <3>3 DEF States, Kinds
      <3>7. \A o \in b : o.state.flags = {}
        BY <3>1, <3>4 DEF States, Own, Kinds
      <3>8. p \in Own(j, q)
        BY <1>0, <3>2 DEF Own, Kinds
      <3>9. x.our.flags = {} /\ x.remote.flags = {} /\ z.remote.flags = {}
        BY <1>7, <3>4, <3>5, <3>8 DEF NoState
      <3>10. InTurn(x, z, 0, a, b)
        <4>1. InTurn(x, z, 0, {}, b)
          BY <1>7, <3>4, <3>7, <3>9, FirstPace
        <4> QED
          BY <3>6, <4>1
      <3>11. a = States(h, GAME_PORT, j, q)' /\ b = States(j, q, h, GAME_PORT)'
        BY <1>0, <3>1 DEF States
      <3> QED
        BY <1>14, <2>2, <3>1, <3>2, <3>10, <3>11 DEF InPace
    <2>3. CASE c # h
      <3>1. con'[h] = con[h] /\ con'[j] = con[j]
        BY <1>14, <2>1, <2>3
      <3>2. Live(h, j)
        BY <3>1 DEF Live, Paired
      <3>3. PICK y, z : y = con[h] /\ z = con[j]
        OBVIOUS
      <3>4. InPace(h, j, y, z)
        BY <3>2, <3>3 DEF Paced
      <3>5. InPace(h, j, y, z)'
        BY <1>0, <3>4 DEF InPace, States
      <3> QED
        BY <3>1, <3>3, <3>5 DEF InPace
    <2> QED
      BY <2>2, <2>3
  <1> QED
    BY <1>14, <1>15

-----------------------------------------------------------------------------
\* Nothing has been sent yet.
LEMMA InitInvariant == Init => IInv
  <1> SUFFICES ASSUME Init PROVE IInv
    OBVIOUS
  <1>1. TypeOK
    <2>1. /\ 0 \in 0 .. MaxHost /\ 0 \in 0 .. MaxFlap
      BY BoundAssumption
    <2>2. \A c \in Consoles : con[c] \in ConsoleStates
      BY NoStateFits DEF Init, ConsoleStates, GAME_PORT, Menus, MenuScreens, GnStates
    <2>3. con \in [Consoles -> ConsoleStates]
      BY <2>2 DEF Init
    <2> QED
      BY <2>1, <2>3, NoStateFits DEF Init, TypeOK
  <1>2. \A c \in Consoles : con[c].gn_state = "IDLE" /\ con[c].gn_src_port = 0
    BY DEF Init, GAME_PORT
  <1>3. World
    BY <1>2 DEF Init, World
  <1>4. \A c \in Consoles : Fine(c, con[c])
    BY <1>2, IdleFine
  <1>5. Paced
    BY <1>2 DEF Paced, Live, Paired
  <1> QED
    BY <1>1, <1>3, <1>4, <1>5 DEF IInv, Base

\* Every frame of the menu, by what its screen does.
LEMMA MenuStepInvariant ==
  ASSUME IInv, NEW c \in Consoles, MenuStep(c)
  PROVE  IInv'
  <1> DEFINE to(m) == [con[c] EXCEPT !.menu = m]
             gaveUp(m) == [con[c] EXCEPT !.menu = m, !.gn_state = "IDLE"]
  <1>1. PICK o : o = con[c]
    OBVIOUS
  <1>2. o \in ConsoleStates /\ Placed(o)
    BY <1>1 DEF IInv, Base, TypeOK, Fine
  <1>3. \A m \in Menus : to(m).menu = m /\ to(m).gn_state = o.gn_state
    BY <1>1, <1>2 DEF ConsoleStates
  <1>4. to(o.menu) = o /\ o.menu \in Menus
    BY <1>1, <1>2 DEF ConsoleStates
  <1>5. /\ {OUT, MPTYPE, HOST, JOIN, JOINING, SONG_SCREEN} \subseteq Menus
        /\ MenuScreens \subseteq Menus /\ SONG_SCREEN \in MenuScreens
    BY DEF Menus, MenuScreens
  <1>6. ASSUME NEW m \in Menus, m \in MenuScreens \cup {MPTYPE, JOIN}, o.gn_state = "IDLE"
        PROVE  Placed(to(m))
    BY <1>3, <1>6 DEF Placed
  <1>7. ASSUME NEW m \in MenuScreens, o.gn_state \in {"IDLE", "CONNECTED"}
        PROVE  Placed(to(m))
    BY <1>3, <1>5, <1>7
       DEF Placed, OUT, MPTYPE, HOST, JOIN, JOINING, MenuScreens, SONG_SCREEN, LAST_SCREEN
  <1> HIDE DEF to, gaveUp
  <1>8. ASSUME NEW m \in Menus, Placed(to(m)), Frame(c, to(m)), UNCHANGED <<port, count>>
        PROVE  IInv'
    BY <1>8, ScreenInvariant DEF to
  <1>9. ASSUME NEW m \in Menus, Frame(c, gaveUp(m)), UNCHANGED <<port, count>>
        PROVE  IInv'
    BY <1>9, CancelInvariant DEF gaveUp
  <1>10. CASE EnterMenu(c)
    <2>1. o.gn_state = "IDLE" /\ Frame(c, to(MPTYPE)) /\ UNCHANGED <<port, count>>
      BY <1>1, <1>2, <1>10 DEF EnterMenu, Placed, to
    <2> QED
      BY <1>5, <1>6, <1>8, <2>1
  <1>11. CASE ChooseHost(c)
    BY <1>11, ChooseHostInvariant
  <1>12. CASE ChooseJoin(c)
    <2>1. o.gn_state = "IDLE" /\ Frame(c, to(JOIN)) /\ UNCHANGED <<port, count>>
      BY <1>1, <1>2, <1>12 DEF ChooseJoin, Placed, to
    <2> QED
      BY <1>5, <1>6, <1>8, <2>1
  <1>13. CASE ChooseCouch(c)
    <2>1. o.gn_state = "IDLE" /\ Frame(c, to(SONG_SCREEN)) /\ UNCHANGED <<port, count>>
      BY <1>1, <1>2, <1>13 DEF ChooseCouch, Placed, to
    <2> QED
      BY <1>5, <1>6, <1>8, <2>1
  <1>14. CASE HostFrame(c) \/ JoiningFrame(c)
    <2>1. /\ UNCHANGED <<port, count>>
          /\ \/ o.gn_state = "CONNECTED" /\ Frame(c, to(SONG_SCREEN))
             \/ Frame(c, o)
      BY <1>1, <1>14 DEF HostFrame, JoiningFrame, to
    <2>2. CASE o.gn_state = "CONNECTED" /\ Frame(c, to(SONG_SCREEN))
      BY <1>5, <1>7, <1>8, <2>1, <2>2
    <2>3. CASE Frame(c, o)
      BY <1>2, <1>4, <1>8, <2>1, <2>3
    <2> QED
      BY <2>1, <2>2, <2>3
  <1>15. CASE HostCancel(c)
    <2>1. Frame(c, gaveUp(MPTYPE)) /\ UNCHANGED <<port, count>>
      BY <1>15 DEF HostCancel, gaveUp
    <2> QED
      BY <1>5, <1>9, <2>1
  <1>16. CASE JoinConnect(c)
    BY <1>16, JoinConnectInvariant
  <1>17. CASE JoinBack(c)
    <2>1. o.gn_state = "IDLE" /\ Frame(c, to(MPTYPE)) /\ UNCHANGED <<port, count>>
      BY <1>1, <1>2, <1>17 DEF JoinBack, Placed, to
    <2> QED
      BY <1>5, <1>6, <1>8, <2>1
  <1>18. CASE JoiningCancel(c)
    <2>1. Frame(c, gaveUp(JOIN)) /\ UNCHANGED <<port, count>>
      BY <1>18 DEF JoiningCancel, gaveUp
    <2> QED
      BY <1>5, <1>9, <2>1
  <1>19. CASE SelectFrame(c)
    <2>1. PICK m \in MenuScreens : Frame(c, to(m)) /\ UNCHANGED <<port, count>>
      BY <1>19 DEF SelectFrame, to
    <2>2. o.gn_state \in {"IDLE", "CONNECTED"}
      BY <1>1, <1>2, <1>19 DEF SelectFrame, Placed
    <2> QED
      BY <1>5, <1>7, <1>8, <2>1, <2>2
  <1>20. CASE LeaveMenu(c)
    BY <1>20, LeaveMenuInvariant
  <1> QED
    BY <1>10, <1>11, <1>12, <1>13, <1>14, <1>15, <1>16, <1>17, <1>18, <1>19, <1>20 DEF MenuStep

\* Every step, by who takes it.
LEMMA NextInvariant == IInv /\ [Next]_vars => IInv'
  <1> SUFFICES ASSUME IInv, [Next]_vars PROVE IInv'
    OBVIOUS
  <1>1. ASSUME NEW c \in Consoles, MenuStep(c) PROVE IInv'
    BY <1>1, MenuStepInvariant
  <1>2. ASSUME NEW c \in Consoles, Handle(c) PROVE IInv'
    BY <1>2, HandleConnectInvariant, HandleFirstStateInvariant, HandleAckInvariant,
       HandleInSessionInvariant, HandleArpRequestInvariant, HandleArpReplyInvariant
       DEF Handle
  <1>3. ASSUME NEW c \in Consoles, LinkStateDown(c) \/ LinkStateUp(c) PROVE IInv'
    BY <1>3, LinkInvariant
  <1>4. CASE UNCHANGED vars
    <2>1. con' = con /\ net' = net /\ port' = port /\ count' = count /\ met' = met
      BY <1>4 DEF vars
    <2>2. TypeOK' /\ World'
      <3>1. TypeOK'
        BY <2>1 DEF IInv, Base, TypeOK
      <3>2. port \in Nat /\ port' \in Nat /\ port <= port'
        BY <2>1, PortsAreNumbers DEF IInv, Base, TypeOK
      <3>3. /\ \A p \in net : Honest(p)'
            /\ \A h \in Consoles : \A x \in met[h] : Met(h, x)'
        BY <2>1, <3>2, WorldStable DEF IInv, Base
      <3> QED
        BY <2>1, <3>1, <3>3 DEF IInv, Base, World
    <2>3. ASSUME NEW c \in Consoles PROVE Fine(c, con[c])'
      BY <2>1 DEF IInv, Base, Fine, Placed, Addressed, Unused, Told, HostSide, JoinSide,
                  Hosting, Joined, Own, Acked
    <2>4. Paced'
      <3> SUFFICES ASSUME NEW h \in Consoles, NEW j \in Consoles, Live(h, j)'
                   PROVE  InPace(h, j, con[h], con[j])'
        BY DEF Paced
      <3>1. Live(h, j)
        BY <2>1 DEF Live, Paired
      <3>2. InPace(h, j, con[h], con[j])
        BY <3>1 DEF IInv, Paced
      <3> QED
        BY <2>1, <3>2 DEF InPace, States
    <2> QED
      BY <2>2, <2>3, <2>4 DEF IInv, Base
  <1> QED
    BY <1>1, <1>2, <1>3, <1>4 DEF Next

(***************************************************************************)
(* The inductive invariant of sessions (GameNet), for every set of         *)
(* consoles and every bound: each console's part of it, what is under way, *)
(* and the turns of the sessions both ends are in for the first time.      *)
(***************************************************************************)
THEOREM SessionInvariance == Spec => []IInv
  <1>1. Init => IInv
    BY InitInvariant
  <1>2. IInv /\ [Next]_vars => IInv'
    BY NextInvariant
  <1> QED
    BY <1>1, <1>2, PTL DEF Spec

\* The type invariant of the session state machine (gn_state and its globals).
THEOREM SessionTypeCorrect == Spec => []TypeOK
  <1>1. IInv => TypeOK
    BY DEF IInv, Base
  <1> QED
    BY <1>1, SessionInvariance, PTL

(***************************************************************************)
(* A session its host has entered for the first time has at most one       *)
(* Player 1 (reset_game_net and send_game_state on both sides), whatever   *)
(* is lost, late or doubled, and however the attempts before it ended.     *)
(***************************************************************************)
THEOREM OneMasterPerSession == Spec => []OneMaster
  <1>1. IInv => OneMaster
    <2> SUFFICES ASSUME IInv, NEW h \in Consoles, NEW j \in Consoles,
                        Paired(h, j), ~con[h].stale
                 PROVE  ~(con[h].gn_our_playernum = 0 /\ con[j].gn_our_playernum = 0)
      BY DEF OneMaster
    <2>1. InPace(h, j, con[h], con[j])
      BY DEF IInv, Paced, Live
    <2> QED
      BY <2>1, PaceMaster DEF InPace
  <1> QED
    BY <1>1, SessionInvariance, PTL

(***************************************************************************)
(* In such a session no console has accepted a state newer than any its    *)
(* peer has sent, so the test of seq_num in HandleUdpGameNet lets the      *)
(* peer's next state in.                                                   *)
(***************************************************************************)
THEOREM StatesStayInSync == Spec => []SeqInSync
  <1>1. IInv => SeqInSync
    <2> SUFFICES ASSUME IInv, NEW h \in Consoles, NEW j \in Consoles,
                        Paired(h, j), ~con[h].stale
                 PROVE  /\ con[h].remote.seq <= con[j].our.seq
                        /\ con[j].remote.seq <= con[h].our.seq
      BY DEF SeqInSync
    <2>1. Fine(h, con[h]) /\ Fine(j, con[j])
      BY DEF IInv, Base
    <2>2. con[h].our.seq \in Nat /\ con[j].our.seq \in Nat /\ NoState.seq = 0
      BY MaxSeqAssumption DEF IInv, Base, TypeOK, ConsoleStates, StateOf, NoState
    <2>3. /\ con[h].gn_state = "CONNECTED" /\ con[j].gn_state = "CONNECTED"
          /\ con[h].gn_remote_ip = j /\ con[j].gn_remote_ip = h
          /\ con[h].gn_remote_port = con[j].gn_src_port
          /\ con[h].gn_src_port = GAME_PORT /\ con[j].gn_remote_port = GAME_PORT
          /\ con[j].gn_src_port # GAME_PORT
      BY <2>1 DEF Paired, Fine, Addressed
    <2>4. con[h].remote.seq <= con[j].our.seq
      <3>1. CASE con[h].remote = NoState
        BY <2>2, <3>1
      <3>2. CASE con[h].remote # NoState
        <4>1. PICK p \in net : /\ p.type = "GAMESTATE" /\ p.src = j
                               /\ p.sport = con[j].gn_src_port /\ p.state = con[h].remote
          BY <2>1, <2>3, <3>2 DEF Fine, Told
        <4>2. p \in Own(j, con[j].gn_src_port)
          BY <4>1 DEF Own, Kinds
        <4> QED
          BY <2>1, <2>3, <4>1, <4>2 DEF Fine, JoinSide, Joined
      <3> QED
        BY <3>1, <3>2
    <2>5. con[j].remote.seq <= con[h].our.seq
      <3>1. CASE con[j].remote = NoState
        BY <2>2, <3>1
      <3>2. CASE con[j].remote # NoState
        <4>1. PICK p \in net : /\ p.type = "GAMESTATE" /\ p.src = h /\ p.dst = j
                               /\ p.sport = GAME_PORT /\ p.dport = con[j].gn_src_port
                               /\ p.state = con[j].remote
          BY <2>1, <2>3, <3>2 DEF Fine, Told
        <4>2. p \in Own(h, GAME_PORT)
          BY <4>1 DEF Own, Kinds
        <4> QED
          BY <2>1, <2>3, <4>1, <4>2 DEF Fine, HostSide, Hosting
      <3> QED
        BY <3>1, <3>2
    <2> QED
      BY <2>4, <2>5
  <1> QED
    BY <1>1, SessionInvariance, PTL

(***************************************************************************)
(* A host is in no session with a port it has not sent an ACK to           *)
(* (HandleUdpGameNet): a state of the joiner comes after the joiner's      *)
(* session, and that comes after the ACK.                                  *)
(***************************************************************************)
THEOREM HostsAcknowledge == Spec => []SessionWasAcked
  <1>1. IInv => SessionWasAcked
    <2> SUFFICES ASSUME IInv, NEW h \in Consoles,
                        con[h].gn_state = "CONNECTED", con[h].gn_src_port = GAME_PORT
                 PROVE  \E p \in net : /\ p.type = "ACK" /\ p.src = h
                                       /\ p.dst = con[h].gn_remote_ip
                                       /\ p.dport = con[h].gn_remote_port
      BY DEF SessionWasAcked
    <2>1. <<con[h].gn_remote_ip, con[h].gn_remote_port>> \in met[h]
      BY DEF IInv, Base, Fine, HostSide, Hosting
    <2>2. PICK p \in net : /\ p.type = "GAMESTATE" /\ p.src = con[h].gn_remote_ip
                           /\ p.sport = con[h].gn_remote_port /\ p.dst = h
                           /\ p.sport # GAME_PORT
      BY <2>1 DEF IInv, Base, World, Met
    <2>3. Acked(h, con[h].gn_remote_ip, con[h].gn_remote_port)
      BY <2>2 DEF IInv, Base, World, Honest, Kinds
    <2> QED
      BY <2>3 DEF Acked
  <1> QED
    BY <1>1, SessionInvariance, PTL
=============================================================================
