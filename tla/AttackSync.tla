----------------------------- MODULE AttackSync -----------------------------
(***************************************************************************)
(* Hits, attacks and health of two consoles during a stage (game_net.c:    *)
(* hUpdatePlayerStatus).  Each console evaluates its own player's cues     *)
(* with the game's own UpdatePlayerStatus, counts the hits and sums up the *)
(* damage its attacks do in our_game_state, and follows the other player   *)
(* from the states that arrive: it never lets its own evaluation of the    *)
(* other player's cues count.                                              *)
(*                                                                         *)
(* Counters travel modulo their width.  The histories `made' and `shown'   *)
(* are the numbers they stand for.  Health and damage are floats in the    *)
(* code and integers here; the levels at which a stage ends are not        *)
(* reached.  The game thread runs while the receive thread waits, so an    *)
(* update and the arrival of a state do not overlap.                       *)
(***************************************************************************)
EXTENDS Integers, Sequences

CONSTANTS A, B,       \* the two consoles
          Kinds,      \* kinds of hits: "miss", "ok", "good", "great"
          Width,      \* what a counter can count: 256
          Start,      \* health at the beginning
          MaxHits     \* bound of the model: hits of the two players

ASSUME ConsolesAssumption == A # B
ASSUME KindsAssumption == Kinds \subseteq {"miss", "ok", "good", "great"}
ASSUME NumbersAssumption ==
  Width \in Nat \ {0} /\ Start \in Int /\ MaxHits \in Nat

Consoles == {A, B}
Peer(c) == IF c = A THEN B ELSE A

VARIABLES
  made,     \* our_game_state.ctr_*, not reduced
  dealt,    \* our_game_state.attack_accum
  health,   \* of the console's own player
  news,     \* the state the peer has of this console, and the newer ones sent since
  shown,    \* gn_last_*_ctr, not reduced: the hits of the peer shown here
  taken,    \* gn_last_attack_accum
  view,     \* health of the peer's player, as it is shown here
  gained,   \* history: what the own hits have done to the own health
  hits      \* number of hits, for the bound

vars == <<made, dealt, health, news, shown, taken, view, gained, hits>>

Counts == [Kinds -> Nat]
States == [made : Counts, acc : Nat, health : Int]

TypeOK ==
  /\ made \in [Consoles -> Counts] /\ shown \in [Consoles -> Counts]
  /\ dealt \in [Consoles -> Nat] /\ taken \in [Consoles -> Nat]
  /\ health \in [Consoles -> Int] /\ view \in [Consoles -> Int]
  /\ news \in [Consoles -> Seq(States) \ {<<>>}]
  /\ gained \in [Consoles -> Int]
  /\ hits \in 0 .. MaxHits

None == [k \in Kinds |-> 0]

\* reset_game_net, and the players' health at the beginning of the stage.
Init ==
  /\ made = [c \in Consoles |-> None] /\ shown = [c \in Consoles |-> None]
  /\ dealt = [c \in Consoles |-> 0] /\ taken = [c \in Consoles |-> 0]
  /\ health = [c \in Consoles |-> Start] /\ view = [c \in Consoles |-> Start]
  /\ news = [c \in Consoles |-> <<[made |-> None, acc |-> 0, health |-> Start]>>]
  /\ gained = [c \in Consoles |-> 0]
  /\ hits = 0

remote(c) == Head(news[Peer(c)])   \* remote_game_state

-----------------------------------------------------------------------------
(***************************************************************************)
(* The own player.  The game's UpdatePlayerStatus evaluates a cue: a hit   *)
(* of some kind hurts the other player, or costs or earns health.          *)
(***************************************************************************)
Effects == {e \in [kind : Kinds, dealt : 0 .. 1, gained : -1 .. 1] :
              (e.dealt = 0) # (e.gained = 0)}

TakeDamage(c, gain) ==
  /\ health' = [health EXCEPT ![c] = @ - (remote(c).acc - taken[c]) + gain]
  /\ taken' = [taken EXCEPT ![c] = remote(c).acc]

UpdateOwnHit(c, e) ==
  /\ hits < MaxHits
  /\ TakeDamage(c, e.gained)
  /\ gained' = [gained EXCEPT ![c] = @ + e.gained]
  /\ dealt' = [dealt EXCEPT ![c] = @ + e.dealt]
  /\ view' = [view EXCEPT ![c] = @ - e.dealt]
  /\ made' = [made EXCEPT ![c][e.kind] = @ + 1]
  /\ hits' = hits + 1
  /\ UNCHANGED <<news, shown>>

\* No cue is evaluated.
UpdateOwn(c) ==
  /\ TakeDamage(c, 0)
  /\ UNCHANGED <<made, dealt, news, shown, view, gained, hits>>

-----------------------------------------------------------------------------
(***************************************************************************)
(* The other player.  Whatever UpdatePlayerStatus does to the health of    *)
(* the two is undone; one hit is shown, of the first kind in the order of  *)
(* the tests whose counter has moved on; the health is set to the peer's.  *)
(***************************************************************************)
Rank == [miss |-> 0, ok |-> 1, good |-> 2, great |-> 3]

Due(c) == {k \in Kinds : remote(c).made[k] % Width # shown[c][k] % Width}

ShowHit(c) ==
  \/ /\ Due(c) = {}
     /\ UNCHANGED shown
  \/ \E k \in Due(c) :
       /\ \A j \in Due(c) : Rank[k] <= Rank[j]
       /\ shown' = [shown EXCEPT ![c][k] = @ + 1]

\* Mutant: the attack is also evaluated here.
UpdateRemoteTwice(c) ==
  /\ ShowHit(c)
  /\ view' = [view EXCEPT ![c] = remote(c).health]
  /\ \E d \in 0 .. 1 : health' = [health EXCEPT ![c] = @ - d]
  /\ UNCHANGED <<made, dealt, news, taken, gained, hits>>

\* Mutant: the health of the other player only ever falls.
UpdateRemoteBelow(c) ==
  /\ ShowHit(c)
  /\ view' = [view EXCEPT ![c] = IF remote(c).health < @ THEN remote(c).health ELSE @]
  /\ UNCHANGED <<made, dealt, health, news, taken, gained, hits>>

UpdateRemote(c) ==
  /\ ShowHit(c)
  /\ view' = [view EXCEPT ![c] = remote(c).health]
  /\ UNCHANGED <<made, dealt, health, news, taken, gained, hits>>

-----------------------------------------------------------------------------
(***************************************************************************)
(* send_game_state sends a state every frame; a state that repeats the     *)
(* last one but for its number is not told apart from it.  States are      *)
(* lost, repeated and reordered; only a newer one is accepted, and what is *)
(* older than that is no longer of any use.                                *)
(***************************************************************************)
Current(c) == [made |-> made[c], acc |-> dealt[c], health |-> health[c]]

Send(c) ==
  /\ Current(c) # news[c][Len(news[c])]
  /\ news' = [news EXCEPT ![c] = Append(@, Current(c))]
  /\ UNCHANGED <<made, dealt, health, shown, taken, view, gained, hits>>

\* Mutant: a state that arrives late replaces the newer one.
ReceiveAny(c, n) ==
  /\ news' = [news EXCEPT ![Peer(c)] = <<@[n]>> \o Tail(@)]
  /\ UNCHANGED <<made, dealt, health, shown, taken, view, gained, hits>>

Receive(c, n) ==
  /\ news' = [news EXCEPT ![Peer(c)] = SubSeq(@, n, Len(@))]
  /\ UNCHANGED <<made, dealt, health, shown, taken, view, gained, hits>>

Next ==
  \E c \in Consoles :
    \/ \E e \in Effects : UpdateOwnHit(c, e)
    \/ UpdateOwn(c) \/ UpdateRemote(c) \/ Send(c)
    \/ \E n \in 2 .. Len(news[Peer(c)]) : Receive(c, n)

Spec == Init /\ [][Next]_vars

(***************************************************************************)
(* The game updates both players and sends a state every frame, and of the *)
(* states that repeat the last one some arrives.  Nobody need hit a cue.   *)
(***************************************************************************)
Fairness ==
  \A c \in Consoles :
    /\ WF_vars(UpdateOwn(c)) /\ WF_vars(UpdateRemote(c)) /\ WF_vars(Send(c))
    /\ WF_vars(Len(news[Peer(c)]) > 1 /\ Receive(c, Len(news[Peer(c)])))

FairSpec == Spec /\ Fairness

-----------------------------------------------------------------------------
(***************************************************************************)
(* What a player has lost beyond the own doing is exactly the damage the   *)
(* peer has reported, each attack once, however often and in whatever      *)
(* order the reports come ("Fixes players doing double-damage with         *)
(* attacks").                                                              *)
(***************************************************************************)
DamageOnce ==
  \A c \in Consoles :
    /\ health[c] = Start + gained[c] - taken[c]
    /\ taken[c] <= dealt[Peer(c)]

(***************************************************************************)
(* No console shows a hit of the other player that was not made, although  *)
(* the counters are compared for equality only, and count up until equal.  *)
(***************************************************************************)
NoPhantomHits ==
  \A c \in Consoles, k \in Kinds : shown[c][k] <= made[Peer(c)][k]

(***************************************************************************)
(* Once no more cues are hit, each console has taken all the damage dealt  *)
(* to it, shows the peer's health, and its counters agree with the peer's, *)
(* from then on: nothing is left behind by lost states.                    *)
(***************************************************************************)
Agrees(c) ==
  /\ taken[c] = dealt[Peer(c)] /\ view[c] = health[Peer(c)]
  /\ \A k \in Kinds : shown[c][k] % Width = made[Peer(c)][k] % Width

CatchesUp == <>[](\A c \in Consoles : Agrees(c))
=============================================================================
