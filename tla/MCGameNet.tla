----------------------------- MODULE MCGameNet -----------------------------
(***************************************************************************)
(* GameNet on two consoles, one of which hosts and one of which joins.     *)
(***************************************************************************)
EXTENDS GameNet

CONSTANTS A, B
OneHost   == {A}
OneJoiner == {B}
=============================================================================
