----------------------------- MODULE MCSessions -----------------------------
(***************************************************************************)
(* Sessions and the hand-over in them: either the two consoles find each   *)
(* other, any number of times within the bounds (GameNet), or they are in  *)
(* a session already, and stay in it for long (Handover).  The two modules *)
(* share no variable, and only one of them has left its initial state.     *)
(***************************************************************************)
EXTENDS MCGameNet, Handover

SessionsInit == Init /\ HandInit

SessionsNext ==
  \/ HandInit /\ Next /\ UNCHANGED handVars
  \/ Init /\ HandNext /\ UNCHANGED vars

SessionsSpec ==
  SessionsInit /\ [][SessionsNext]_<<vars, handVars>> /\ Fairness
=============================================================================
