----------------------------- MODULE GameRound -----------------------------
(***************************************************************************)
(* A stage played in a session (src/src/game_net.c): both consoles load    *)
(* it, wait for each other, play, and decide on the try-again screen       *)
(* whether to play it again.  They only have in_game of the last state     *)
(* they received to go by.  Player 1 decides; the console of Player 2 has  *)
(* a FakePad that presses what Player 1 has chosen.                        *)
(*                                                                         *)
(* seq_num makes the state a console holds of its peer newer with every    *)
(* datagram it accepts, so what is under way is, for each direction, the   *)
(* queue of different states sent since: some may never arrive.            *)
(*                                                                         *)
(* The game itself is external: oMultiPlayerGame loads and plays a stage,  *)
(* a stage ends on the try-again screen, and that screen, like the menus,  *)
(* obeys the pad of Player 1, a direction before the X of the same frame.  *)
(***************************************************************************)
EXTENDS Naturals, SequencesExt

CONSTANTS MaxRounds,   \* bounds of the model: stages entered,
          MaxTries,    \*   times a stage is played again,
          MaxUnderWay  \*   different states under way; more are lost

ASSUME BoundsAssumption == {MaxRounds, MaxTries, MaxUnderWay} \subseteq Nat

\* gn_our_playernum.  Nothing hands Player 1 over while gn_ingame is set.
Players == {0, 1}
Peer(p) == 1 - p

\* in_game.
MENU    == 0
LOADING == 1
LOADED  == 2
IN_GAME == 3
BACK    == 4
RETRY   == 5
ACKED   == 6

\* struct game_state; mm_ready says whether it is 4, and is only read of Player 2.
States == [in_game : 0 .. 6, mm_ready : BOOLEAN]

VARIABLES
  where,    \* what runs on each console
  our,      \* our_game_state
  remote,   \* remote_game_state
  underway, \* different states sent by each console, newer than its peer's remote
  cursor,   \* try_again_mainsprite: NONE, or what it offers
  round,    \* history: stages this console has entered
  try       \* history: times it has played the current one again

vars == <<where, our, remote, underway, cursor, round, try>>

TypeOK ==
  /\ where \in [Players -> {"menu", "load", "barrier", "play", "tryagain", "leave"}]
  /\ our \in [Players -> States]
  /\ remote \in [Players -> States]
  /\ underway \in [Players -> Seq(States)]
  /\ cursor \in [Players -> {"NONE", "BACK", "RETRY"}]
  /\ round \in [Players -> 0 .. MaxRounds]
  /\ try \in [Players -> 0 .. MaxTries]
  /\ \A p \in Players :
       our[p].in_game \in {BACK, RETRY} \/ cursor[p] # "NONE" => where[p] = "tryagain"

\* reset_game_net, which leaves mm_ready of an earlier session alone; the menus are open.
Init ==
  /\ where = [p \in Players |-> "menu"]
  /\ our = [p \in Players |-> [in_game |-> MENU, mm_ready |-> FALSE]]
  /\ \E ready \in BOOLEAN : remote = [our EXCEPT ![0].mm_ready = ready]
  /\ underway = [p \in Players |-> <<>>]
  /\ cursor = [p \in Players |-> "NONE"]
  /\ round = [p \in Players |-> 0]
  /\ try = [p \in Players |-> 0]

-----------------------------------------------------------------------------
Latest(p) == IF underway[p] = <<>> THEN remote[Peer(p)] ELSE Last(underway[p])

\* send_game_state while gn_ingame is set: the cursor, and in game + ack.
Shown(s, c) ==
  IF c = "NONE" THEN s
  ELSE [s EXCEPT !.in_game = IF c = "RETRY" THEN RETRY ELSE BACK]
Acknowledged(p, s) ==
  IF s.in_game = IN_GAME /\ remote[p].in_game \in {IN_GAME, ACKED}
  THEN [s EXCEPT !.in_game = ACKED] ELSE s

\* The state t is our_game_state, and is sent, unless no buffer is free.
Send(p, t) ==
  /\ our' = [our EXCEPT ![p] = t]
  /\ \/ UNCHANGED underway
     \/ /\ t # Latest(p) /\ Len(underway[p]) < MaxUnderWay
        /\ underway' = [underway EXCEPT ![p] = Append(@, t)]

\* hFrameWait sends a state with every frame of a stage.
Frame(p) ==
  /\ where[p] \in {"load", "play", "leave"} \/ (where[p] = "tryagain" /\ cursor[p] = "NONE")
  /\ Send(p, Acknowledged(p, our[p]))
  /\ UNCHANGED <<where, remote, cursor, round, try>>

\* hMultiMenuHandleScreen: Player 2 may get ready, or change his mind.
MenuFrame(p) ==
  /\ where[p] = "menu"
  /\ \E ready \in BOOLEAN :
       /\ ready => p = 1
       /\ Send(p, [in_game |-> MENU, mm_ready |-> ready])
  /\ UNCHANGED <<where, remote, cursor, round, try>>

(***************************************************************************)
(* Player 1 starts the stage when Player 2 is ready, Player 2 when Player  *)
(* 1 has left the menus: all pads press X.                                 *)
(***************************************************************************)
MayStart(p) == IF p = 0 THEN remote[p].mm_ready ELSE remote[p].in_game > MENU

\* hMultiPlayerGame.
StartStage(p) ==
  /\ where[p] = "menu" /\ round[p] < MaxRounds
  /\ MayStart(p)
  /\ Send(p, [our[p] EXCEPT !.in_game = LOADING])
  /\ where' = [where EXCEPT ![p] = "load"]
  /\ round' = [round EXCEPT ![p] = @ + 1]
  /\ try' = [try EXCEPT ![p] = 0]
  /\ UNCHANGED <<remote, cursor>>

\* hFinishLoading, up to its loop.
FinishLoading(p) ==
  /\ where[p] = "load"
  /\ Send(p, [our[p] EXCEPT !.in_game = LOADED])
  /\ where' = [where EXCEPT ![p] = "barrier"]
  /\ UNCHANGED <<remote, cursor, round, try>>

\* Mutant: the loop only sleeps.
WaitQuietly(p) == FALSE

\* Every 60th wakeup the loop sends the state again.
Wait(p) ==
  /\ where[p] = "barrier" /\ remote[p].in_game < LOADED
  /\ Send(p, our[p])
  /\ UNCHANGED <<where, remote, cursor, round, try>>

\* Mutant: the console that is loading is waited for, not the one that has loaded.
PassBarrierEarly(p) ==
  /\ where[p] = "barrier" /\ remote[p].in_game >= LOADING
  /\ Send(p, Acknowledged(p, [our[p] EXCEPT !.in_game = IN_GAME]))
  /\ where' = [where EXCEPT ![p] = "play"]
  /\ UNCHANGED <<remote, cursor, round, try>>

\* The peer has loaded: hFinishLoading returns to the game.
PassBarrier(p) ==
  /\ where[p] = "barrier" /\ remote[p].in_game >= LOADED
  /\ Send(p, Acknowledged(p, [our[p] EXCEPT !.in_game = IN_GAME]))
  /\ where' = [where EXCEPT ![p] = "play"]
  /\ UNCHANGED <<remote, cursor, round, try>>

-----------------------------------------------------------------------------
(***************************************************************************)
(* The song ends, and hTryAgainScreen begins.  A song lasts for minutes,   *)
(* with a state every frame: the states with which both consoles started   *)
(* it have arrived in the meantime.                                        *)
(***************************************************************************)
StageEnds(p) ==
  /\ where[p] = "play"
  /\ our[p].in_game = ACKED /\ remote[Peer(p)] = our[p]
  /\ remote[p].in_game # IN_GAME
  /\ where' = [where EXCEPT ![p] = "tryagain"]
  /\ UNCHANGED <<our, remote, underway, cursor, round, try>>

\* Mutant of Pointed: the fake pad follows the cursor only.
PointedByCursor(p) ==
  CASE remote[p].in_game = BACK  -> "BACK"
    [] remote[p].in_game = RETRY -> "RETRY"
    [] OTHER                     -> cursor[p]

\* FakePadGetButton: LEFT and RIGHT of the pad of Player 1, on the other console.
Pointed(p) ==
  CASE remote[p].in_game \in {MENU, BACK}     -> "BACK"
    [] remote[p].in_game \in {IN_GAME, RETRY} -> "RETRY"
    [] OTHER                                  -> cursor[p]

\* Where the cursor is after the directions of this frame.
Cursor(p) ==
  IF p = 1 /\ Pointed(p) # "NONE" THEN {Pointed(p)} ELSE {"BACK", "RETRY"}

\* A frame of the screen; with the first, the sprite is created.
TryAgainFrame(p) ==
  /\ where[p] = "tryagain"
  /\ \E c \in Cursor(p) :
       /\ cursor' = [cursor EXCEPT ![p] = c]
       /\ Send(p, Shown(our[p], c))
  /\ UNCHANGED <<where, remote, round, try>>

\* Mutant of Confirms: the fake pad presses X whatever the peer does.
ConfirmsAlways(p) == TRUE

\* X of the pad of Player 1.
Confirms(p) == p = 0 \/ remote[p].in_game < BACK

\* hTryAgainScreen returns 1: the stage is played again.
PlayAgain(p) ==
  /\ where[p] = "tryagain" /\ cursor[p] # "NONE" /\ Confirms(p) /\ try[p] < MaxTries
  /\ "RETRY" \in Cursor(p)
  /\ where' = [where EXCEPT ![p] = "play"]
  /\ our' = [our EXCEPT ![p].in_game = IN_GAME]
  /\ cursor' = [cursor EXCEPT ![p] = "NONE"]
  /\ try' = [try EXCEPT ![p] = @ + 1]
  /\ UNCHANGED <<remote, underway, round>>

\* Mutant of GoBack: try_again_mainsprite still points to the closed screen's sprite.
GoBackWithSprite(p) ==
  /\ where[p] = "tryagain" /\ cursor[p] # "NONE" /\ Confirms(p)
  /\ "BACK" \in Cursor(p)
  /\ where' = [where EXCEPT ![p] = "leave"]
  /\ our' = [our EXCEPT ![p].in_game = MENU]
  /\ UNCHANGED <<remote, underway, cursor, round, try>>

\* hTryAgainScreen returns 0: back to the menus.
GoBack(p) ==
  /\ where[p] = "tryagain" /\ cursor[p] # "NONE" /\ Confirms(p)
  /\ "BACK" \in Cursor(p)
  /\ where' = [where EXCEPT ![p] = "leave"]
  /\ our' = [our EXCEPT ![p].in_game = MENU]
  /\ cursor' = [cursor EXCEPT ![p] = "NONE"]
  /\ UNCHANGED <<remote, underway, round, try>>

\* oMultiPlayerGame returns.
LeaveStage(p) ==
  /\ where[p] = "leave"
  /\ where' = [where EXCEPT ![p] = "menu"]
  /\ our' = [our EXCEPT ![p] = [in_game |-> MENU, mm_ready |-> FALSE]]
  /\ UNCHANGED <<remote, underway, cursor, round, try>>

-----------------------------------------------------------------------------
\* HandleUdpGameNet: a newer state; the ones sent before it are not accepted.
Receive(p) ==
  \E i \in DOMAIN underway[Peer(p)] :
    /\ remote' = [remote EXCEPT ![p] = underway[Peer(p)][i]]
    /\ underway' = [underway EXCEPT ![Peer(p)] = SubSeq(@, i + 1, Len(@))]
    /\ UNCHANGED <<where, our, cursor, round, try>>

-----------------------------------------------------------------------------
Next == \E p \in Players :
  \/ Frame(p) \/ MenuFrame(p) \/ StartStage(p)
  \/ FinishLoading(p) \/ Wait(p) \/ PassBarrier(p)
  \/ StageEnds(p) \/ TryAgainFrame(p) \/ PlayAgain(p) \/ GoBack(p) \/ LeaveStage(p)
  \/ Receive(p)

Spec == Init /\ [][Next]_vars

(***************************************************************************)
(* A stage that is being loaded is loaded; frames go on and find a buffer  *)
(* again and again; of the states sent again and again one arrives; the    *)
(* console of Player 2 presses what its FakePad tells it, and gets to the  *)
(* screens on which it counts.  Nothing is assumed of the players.         *)
(***************************************************************************)
FairSpec == Spec /\ \A p \in Players :
  /\ WF_vars(FinishLoading(p)) /\ WF_vars(PassBarrier(p))
  /\ WF_vars((Frame(p) \/ MenuFrame(p) \/ Wait(p) \/ TryAgainFrame(p)) /\ underway' # underway)
  /\ WF_vars(Frame(p) /\ our' # our)
  /\ WF_vars(Receive(p)) /\ WF_vars(LeaveStage(p))
  /\ WF_vars(StartStage(1))
  /\ WF_vars(PlayAgain(1)) /\ WF_vars(GoBack(1))
  /\ WF_vars(TryAgainFrame(1) /\ cursor' # cursor)

-----------------------------------------------------------------------------
(***************************************************************************)
(* Player 2 is never ahead: his console enters a stage, and plays it       *)
(* again, only after Player 1's has, however late the states arrive.       *)
(***************************************************************************)
FollowsPlayerOne ==
  /\ round[1] <= round[0]
  /\ round[1] = round[0] => try[1] <= try[0]

(***************************************************************************)
(* In the first stage of a session no console plays before its peer has    *)
(* loaded.  (In a later one in_game of the last stage may stand in for     *)
(* that of this one.)                                                      *)
(***************************************************************************)
BarrierHolds ==
  \A p \in Players : round[p] = 1 /\ where[p] = "play" =>
    round[Peer(p)] > 0 /\ ~(round[Peer(p)] = 1 /\ where[Peer(p)] = "load")

(***************************************************************************)
(* A console that has loaded does not wait for ever, whatever is lost.     *)
(* Player 1 never does (in the model he may have to wait for a Player 2    *)
(* who has used up MaxRounds).  Player 2 does not in the first stage of a  *)
(* session; in a later one Player 1 may have passed the barrier on what is *)
(* left of the last stage, and be back in the menus already: then Player 2 *)
(* waits until he starts another one.                                      *)
(***************************************************************************)
LoadingEnds ==
  /\ (where[0] = "barrier") ~>
       (where[0] = "play" \/ (round[1] = MaxRounds /\ where[1] = "menu"))
  /\ (where[1] = "barrier") ~>
       (where[1] = "play" \/ (round[1] > 1 /\ where[0] = "menu"))

(***************************************************************************)
(* In the first stage of a session: when Player 1 chooses to play again    *)
(* after having seen Player 2 on the try-again screen, Player 2 plays      *)
(* again too, although what he sees of this choice is only in_game = 3.    *)
(***************************************************************************)
RetryTogether ==
  (/\ round = [p \in Players |-> 1]
   /\ where[0] = "play" /\ our[0].in_game = IN_GAME
   /\ where[1] = "tryagain" /\ remote[0].in_game \in {BACK, RETRY})
    ~> (where[1] = "play" /\ round[1] = 1)
=============================================================================
