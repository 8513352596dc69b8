----------------------------- MODULE PlayerOne -----------------------------
(***************************************************************************)
(* What the hand-over promises: the role of Player 1 is a token.  Exactly  *)
(* one console holds it, or it is on its way from one to the other; the    *)
(* holder alone can send it off, and it only arrives where it was sent.    *)
(***************************************************************************)
CONSTANTS Host, Joiner

VARIABLES holder,   \* the console that is Player 1, or the one it is given to
          moving    \* the token is on its way to `holder'

tokenVars == <<holder, moving>>

Consoles == {Host, Joiner}
Peer(c) == IF c = Host THEN Joiner ELSE Host

\* netgitaroo-patcher.html: the hosting person gets Player 1.
TokenInit == holder = Host /\ moving = FALSE

Give(c) == /\ holder = c /\ ~moving
           /\ holder' = Peer(c)
           /\ moving' = TRUE

Take(c) == /\ holder = c /\ moving
           /\ moving' = FALSE
           /\ UNCHANGED holder

TokenNext == \E c \in Consoles : Give(c) \/ Take(c)

TokenSpec == TokenInit /\ [][TokenNext]_tokenVars
=============================================================================
