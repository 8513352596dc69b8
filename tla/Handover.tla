------------------------------ MODULE Handover ------------------------------
(***************************************************************************)
(* Two consoles in an established session (gn_state = GN_CONNECTED on      *)
(* both) telling each other their game state once a frame, over a network  *)
(* that loses, duplicates and reorders datagrams, and handing the role of  *)
(* Player 1 back and forth with two flag bits in those states              *)
(* (src/src/game_net.c: send_game_state, HandleUdpGameNet).                *)
(*                                                                         *)
(* A datagram once sent stays in `datagrams': receiving it twice, late, or *)
(* never are all behaviours of the specification.                          *)
(***************************************************************************)
EXTENDS GameState

CONSTANTS Host, Joiner,   \* the console that hosted, the one that joined
          MaxStates       \* bound of the model: game states each of them sends

ASSUME ConsolesAssumption == Host # Joiner

Both == {Host, Joiner}
Peer(c) == IF c = Host THEN Joiner ELSE Host

VARIABLES
  our,                \* our_game_state: seq_num and flags
  remote,             \* remote_game_state: the newest state accepted
  gn_our_playernum,   \* 0 is Player 1, who drives the menus of both
  mm_screen,          \* our_game_state.mm_screen
  gn_ingame,          \* inside hMultiPlayerGame
  datagrams,          \* every datagram sent so far
  turn                \* history: changes of our hand-over flags (no action reads it)

handVars == <<our, remote, gn_our_playernum, mm_screen, gn_ingame, datagrams, turn>>

\* A game state as it travels; `turn' is the sender's history variable.
Snapshots == [seq : Nat, flags : Flags, turn : Nat]

HandTypeOK ==
  /\ our \in [Both -> [seq : Nat, flags : Flags]]
  /\ remote \in [Both -> Snapshots]
  /\ gn_our_playernum \in [Both -> {0, 1}]
  /\ mm_screen \in [Both -> MenuScreens]
  /\ gn_ingame \in [Both -> BOOLEAN]
  /\ datagrams \subseteq [src : Both, state : Snapshots]
  /\ turn \in [Both -> Nat]

\* The host enters the session as Player 1, the joiner as Player 2.
FirstTurn(c) == IF c = Host THEN 0 ELSE 2

\* reset_game_net, on both sides of a session that was just established.
HandInit ==
  /\ our = [c \in Both |-> [seq |-> 0, flags |-> {}]]
  /\ remote = [c \in Both |->
                 [seq |-> 0, flags |-> {}, turn |-> FirstTurn(Peer(c))]]
  /\ gn_our_playernum = [c \in Both |-> IF c = Host THEN 0 ELSE 1]
  /\ mm_screen = [c \in Both |-> SONG_SCREEN]
  /\ gn_ingame = [c \in Both |-> FALSE]
  /\ datagrams = {}
  /\ turn = [c \in Both |-> FirstTurn(c)]

\* Flags go through SettledFlags first, so one frame may count two turns.
Turns(flags, seen, newFlags) ==
  LET settled == SettledFlags(flags, seen)
  IN  (IF settled = flags THEN 0 ELSE 1) + (IF newFlags = settled THEN 0 ELSE 1)

(***************************************************************************)
(* send_game_state with `screen' and `ingame' the values its caller has    *)
(* just stored.  `pressed': both shoulder buttons are held and one was     *)
(* pressed in this frame.  `sent': MakeUdpPacket found a buffer; when it   *)
(* did not, the flags have changed all the same.                           *)
(***************************************************************************)
SendState(c, screen, ingame, pressed, sent) ==
  LET seen   == remote[c].flags
      open   == ~ingame /\ screen = SONG_SCREEN
      player == gn_our_playernum[c]
      flags  == FrameFlags(our[c].flags, seen, player, open, pressed)
      turns  == turn[c] + Turns(our[c].flags, seen, flags)
      seq    == our[c].seq + 1
  IN  /\ mm_screen' = [mm_screen EXCEPT ![c] = screen]
      /\ gn_ingame' = [gn_ingame EXCEPT ![c] = ingame]
      /\ gn_our_playernum' =
           [gn_our_playernum EXCEPT ![c] = FramePlayer(seen, player, open, pressed)]
      /\ turn' = [turn EXCEPT ![c] = turns]
      /\ \/ /\ sent /\ seq <= MaxStates
            /\ our' = [our EXCEPT ![c] = [seq |-> seq, flags |-> flags]]
            /\ datagrams' = datagrams \cup {[src |-> c, state |->
                                  [seq |-> seq, flags |-> flags, turn |-> turns]]}
         \/ /\ ~sent
            /\ our' = [our EXCEPT ![c].flags = flags]
            /\ UNCHANGED datagrams
      /\ UNCHANGED remote

\* One call of hMultiMenuHandleScreen on the screen the game shows.
MenuFrame(c) ==
  /\ ~gn_ingame[c]
  /\ \E screen \in MenuScreens, pressed \in BOOLEAN, sent \in BOOLEAN :
       SendState(c, screen, FALSE, pressed, sent)

\* hMultiPlayerGame up to the call of the game: the stage is entered from
\* the last menu screen.
StartStage(c) ==
  /\ ~gn_ingame[c]
  /\ mm_screen[c] = LAST_SCREEN
  /\ \E sent \in BOOLEAN : SendState(c, mm_screen[c], TRUE, FALSE, sent)

\* hFrameWait inside the stage.
StageFrame(c) ==
  /\ gn_ingame[c]
  /\ \E sent \in BOOLEAN : SendState(c, mm_screen[c], TRUE, FALSE, sent)

\* hMultiPlayerGame after the game returns: nothing is sent here.
LeaveStage(c) ==
  /\ gn_ingame[c]
  /\ gn_ingame' = [gn_ingame EXCEPT ![c] = FALSE]
  /\ mm_screen' = [mm_screen EXCEPT ![c] = SONG_SCREEN]
  /\ UNCHANGED <<our, remote, gn_our_playernum, datagrams, turn>>

\* Mutant of Receive: any state replaces the one we have.
ReceiveAny(c) ==
  \E p \in datagrams :
    /\ p.src = Peer(c)
    /\ remote' = [remote EXCEPT ![c] = p.state]
    /\ UNCHANGED <<our, gn_our_playernum, mm_screen, gn_ingame, datagrams, turn>>

\* HandleUdpGameNet, GN_PACKETID_GAMESTATE in GN_CONNECTED: only a newer
\* state replaces the one we have.
Receive(c) ==
  \E p \in datagrams :
    /\ p.src = Peer(c)
    /\ p.state.seq > remote[c].seq
    /\ remote' = [remote EXCEPT ![c] = p.state]
    /\ UNCHANGED <<our, gn_our_playernum, mm_screen, gn_ingame, datagrams, turn>>

HandNext ==
  \E c \in Both :
    MenuFrame(c) \/ StartStage(c) \/ StageFrame(c) \/ LeaveStage(c) \/ Receive(c)

HandSpec == HandInit /\ [][HandNext]_handVars

-----------------------------------------------------------------------------
(***************************************************************************)
(* There are never two Player 1s: whatever the network does, and with both *)
(* sides offering and accepting on their own clock, at most one console    *)
(* drives the menus (gn_our_playernum of send_game_state).                 *)
(***************************************************************************)
OnePlayerOne == ~(gn_our_playernum[Host] = 0 /\ gn_our_playernum[Joiner] = 0)

(***************************************************************************)
(* The role of Player 1 cannot be lost: when neither console has it, the   *)
(* offer is still standing and will be accepted by a console that sees it, *)
(* because exactly one of the two is the one that has offered.             *)
(***************************************************************************)
RoleNotLost ==
  gn_our_playernum[Host] = 1 /\ gn_our_playernum[Joiner] = 1 =>
    \E c \in Both : /\ HANDOVER \in our[c].flags
                        /\ our[Peer(c)].flags = {}
                        /\ HANDOVER_ACK \notin remote[c].flags

(***************************************************************************)
(* The hand-over implements the token of PlayerOne.  When neither is       *)
(* Player 1 the token is on its way to the console that has not offered.   *)
(***************************************************************************)
Holder ==
  IF gn_our_playernum[Host] = 0 THEN Host
  ELSE IF gn_our_playernum[Joiner] = 0 THEN Joiner
  ELSE IF HANDOVER \in our[Host].flags THEN Joiner ELSE Host
Moving == gn_our_playernum[Host] = 1 /\ gn_our_playernum[Joiner] = 1

Token == INSTANCE PlayerOne WITH holder <- Holder, moving <- Moving

ImplementsToken == Token!TokenSpec

-----------------------------------------------------------------------------
(***************************************************************************)
(* The inductive invariant.  The turns of a console repeat with period 4:  *)
(* Player 1 at rest, offering, Player 2 at rest, Player 1 acknowledging.   *)
(***************************************************************************)
FlagsAt(t) == CASE t % 4 = 1 -> {HANDOVER}
                [] t % 4 = 3 -> {HANDOVER_ACK}
                [] OTHER     -> {}

PlayerAt(t) == IF t % 4 \in {0, 3} THEN 0 ELSE 1

TurnsCount ==
  \A c \in Both : /\ our[c].flags = FlagsAt(turn[c])
                      /\ gn_our_playernum[c] = PlayerAt(turn[c])
                      /\ remote[c].flags = FlagsAt(remote[c].turn)

NetFlags == \A p \in datagrams : p.state.flags = FlagsAt(p.state.turn)

\* What travels and what was accepted is old, and newer is later.
Monotone ==
  /\ \A p \in datagrams : /\ p.state.seq <= our[p.src].seq
                    /\ p.state.turn <= turn[p.src]
  /\ \A c \in Both : /\ remote[c].seq <= our[Peer(c)].seq
                         /\ remote[c].turn <= turn[Peer(c)]
  /\ \A p \in datagrams :
       p.state.seq > remote[Peer(p.src)].seq
         => p.state.turn >= remote[Peer(p.src)].turn
  /\ \A p, q \in datagrams :
       p.src = q.src /\ p.state.seq < q.state.seq => p.state.turn <= q.state.turn

\* A console takes a turn only on evidence that the peer took its own.
Lead(c) == IF c = Host THEN 0 ELSE 4
Need(t) == t + (IF PlayerAt(t) = 0 THEN 2 ELSE 1)
Evidence == \A c \in Both : remote[c].turn + Lead(c) >= Need(turn[c])

HandIInv == HandTypeOK /\ TurnsCount /\ NetFlags /\ Monotone /\ Evidence
=============================================================================
