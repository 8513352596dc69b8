----------------------------- MODULE GameState -----------------------------
(***************************************************************************)
(* What the two consoles of a session tell each other about who is Player  *)
(* 1 (player number 0), as far as one call of send_game_state              *)
(* (src/src/game_net.c) changes it.  The other fields of struct game_state *)
(* are payload to this part and are left to the modules that need them.    *)
(***************************************************************************)

EXTENDS Integers

HANDOVER     == "GN_FLAG_HANDOVER"
HANDOVER_ACK == "GN_FLAG_HANDOVER_ACK"

\* The bits of game_state.flags that the hand-over of Player 1 uses.
Flags == SUBSET {HANDOVER, HANDOVER_ACK}

\* The menu screens of the game that both consoles walk through together.  The
\* one between the two behaves as the last, except that no stage starts there.
SONG_SCREEN == 2
LAST_SCREEN == 4
MenuScreens == {SONG_SCREEN, LAST_SCREEN}

\* Mutant of SettledFlags: the offer is withdrawn in the frame after it was
\* made.
SettledFlagsOnce(flags, seen) ==
  {f \in flags : f # HANDOVER /\ HANDOVER \in seen}

(***************************************************************************)
(* Our flags after the two unconditional assignments: an acknowledged      *)
(* offer is withdrawn, and so is the acknowledgement of an offer that is   *)
(* no longer made.  `seen' is what the last accepted state of the peer     *)
(* says.                                                                   *)
(***************************************************************************)
SettledFlags(flags, seen) ==
  {f \in flags : IF f = HANDOVER THEN HANDOVER_ACK \notin seen
                                 ELSE HANDOVER \in seen}

\* Mutant of Offers: Player 2 may press the buttons as well.
OffersAnyone(seen, player, pressed) == pressed /\ HANDOVER \notin seen

\* Player 1 presses both shoulder buttons: the offer is made, unless an
\* offer of the peer has been seen.
Offers(seen, player, pressed) ==
  pressed /\ HANDOVER \notin seen /\ player = 0

\* On the song screen, outside a stage (`open'), an offer may be made and
\* an offer that has been seen is accepted.
FrameFlags(flags, seen, player, open, pressed) ==
  SettledFlags(flags, seen)
    \cup (IF open /\ Offers(seen, player, pressed) THEN {HANDOVER} ELSE {})
    \cup (IF open /\ HANDOVER \in seen THEN {HANDOVER_ACK} ELSE {})

FramePlayer(seen, player, open, pressed) ==
  CASE open /\ HANDOVER \in seen              -> 0
    [] open /\ Offers(seen, player, pressed)  -> 1
    [] OTHER                                  -> player
=============================================================================
