------------------------------ MODULE MCRings ------------------------------
(***************************************************************************)
(* The two rings of a console.  They share no variable: what the interrupt *)
(* of one does to the other is RxRing's OtherSifEvent.  So that each can   *)
(* be explored to a useful size, frames go in one direction at a time.     *)
(***************************************************************************)
EXTENDS TxRing, RxRing

ToIopIsAtRest == txpc = "sleep" /\ sent = 0
ToEEIsAtRest  == received = 0 /\ given = 0 /\ ~irq

RingsInit == Init /\ RxInit

RingsNext ==
  /\ (Next /\ UNCHANGED rxVars) \/ (RxNext /\ UNCHANGED vars)
  /\ (ToIopIsAtRest \/ ToEEIsAtRest)'

RingsSpec ==
  /\ RingsInit /\ [][RingsNext]_<<vars, rxVars>>
  /\ TxFairness /\ RxFairness
=============================================================================
