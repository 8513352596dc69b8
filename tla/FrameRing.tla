----------------------------- MODULE FrameRing -----------------------------
(***************************************************************************)
(* What the two rings of frame slots between the EE and the IOP have in    *)
(* common (rpc_client.c and rpc_server.c of src/netman and of              *)
(* src/netman_iop): the same number of slots, walked through by pointers   *)
(* that wrap around, and frames collected in groups.                       *)
(***************************************************************************)
EXTENDS Naturals

CONSTANTS Slots,      \* NETMAN_RPC_BLOCK_SIZE_LESSER
          GroupSize,  \* NETMAN_FRAME_GROUP_SIZE
          MaxFrames   \* bound of the models: frames handed over

ASSUME SlotsAssumption == Slots \in Nat \ {0}
ASSUME GroupSizeAssumption == GroupSize \in Nat \ {0}
ASSUME MaxFramesAssumption == MaxFrames \in Nat

Slot == 0 .. Slots - 1
After(s) == (s + 1) % Slots
=============================================================================
