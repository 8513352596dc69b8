------------------------------- MODULE NetIf -------------------------------
(***************************************************************************)
(* The registry of network interfaces on the IOP (netman_iop/src/netman.c) *)
(* and the way of the link state from an interface to the packet stack on  *)
(* the EE (netman/src/netman.c, src/networking.c InitConnection).          *)
(*                                                                         *)
(* What the threads of the IOP do runs under NetManIOSemaID, which stays   *)
(* taken while a driver is unregistered and during the RPC that tells the  *)
(* EE the link state (`leaving', `call').  NetManNetIFXmit does not ask    *)
(* for it: the interrupt of HandleRxEvent (rpc_server.c) reads MainNetIF   *)
(* at any moment.  On the EE the RPC thread may come between any two steps *)
(* of the thread that boots.  The drivers are not part of the repository:  *)
(* they register, unregister and report at any time, also with the number  *)
(* of an earlier registration.                                             *)
(***************************************************************************)
EXTENDS Naturals, FiniteSets

CONSTANTS Slots,      \* 0 .. NETMAN_MAX_NETIF_COUNT - 1
          Names,      \* names of the drivers' interfaces
          NULL,
          MaxId,      \* bounds of the model: registrations (256 of them reuse an id),
          MaxEvents   \*   reports of the link state

ASSUME NullAssumption == NULL \notin Slots
ASSUME SlotsAssumption ==
  \A S \in SUBSET Slots : S # {} => \E i \in S : \A j \in S : i <= j
ASSUME BoundAssumption == MaxId \in Nat /\ MaxEvents \in Nat

VARIABLES
  NetIFs,         \* the interfaces: [used, name, id, up] of each slot
  MainNetIF,      \* a slot or NULL
  NextNetIFID,
  leaving,        \* the slot whose driver NetManUnregisterNetIF has deinitialised, or NULL
  IsInitialized,  \* of the IOP: the EE's stack is registered
  call,           \* the RPC to the EE: what it reports, and for whom while it lasts
  waiting,        \* the slot NetManSetLinkMode waits for to go down, or NULL
  boot,           \* InitConnection on the EE
  NIFLinkState,   \* of the EE
  link_up,        \* of the packet stack
  found,          \* NIFLinkState as the boot thread has read it
  raced,          \* history: the boot thread stored an outdated state last
  reports,        \* history: the last report made for each registration
  events          \* number of reports, for the bound

registry == <<NetIFs, MainNetIF, NextNetIFID>>
ee == <<NIFLinkState, link_up, raced>>
vars == <<registry, leaving, IsInitialized, call, waiting, boot, ee, found, reports, events>>

Ids == Slots \X (0 .. MaxId)   \* (NextNetIFID << 8) | i
Idle == [state |-> FALSE, for |-> "nobody"]
Unused == [used |-> FALSE, up |-> FALSE, name |-> NULL, id |-> NULL]

TypeOK ==
  /\ NetIFs \in [Slots -> [used : BOOLEAN, up : BOOLEAN, name : Names \cup {NULL},
                           id : Ids \cup {NULL}]]
  /\ MainNetIF \in Slots \cup {NULL}
  /\ NextNetIFID \in 0 .. MaxId
  /\ leaving \in Slots \cup {NULL}
  /\ IsInitialized \in BOOLEAN
  /\ call \in [state : BOOLEAN, for : {"driver", "stack", "nobody"}]
  /\ waiting \in Slots \cup {NULL}
  /\ boot \in {"linkmode", "register", "calling", "returning", "update", "store", "up"}
  /\ NIFLinkState \in BOOLEAN /\ link_up \in BOOLEAN /\ raced \in BOOLEAN
  /\ found \in BOOLEAN
  /\ DOMAIN reports \subseteq Ids /\ reports \in [DOMAIN reports -> BOOLEAN]
  /\ events \in 0 .. MaxEvents

Init ==
  /\ NetIFs = [i \in Slots |-> Unused]
  /\ MainNetIF = NULL /\ NextNetIFID = 0 /\ leaving = NULL
  /\ IsInitialized = FALSE /\ call = Idle /\ waiting = NULL
  /\ boot = "linkmode" /\ found = FALSE
  /\ NIFLinkState = FALSE /\ link_up = FALSE /\ raced = FALSE
  /\ reports = [id \in {} |-> FALSE] /\ events = 0

Used == {i \in Slots : NetIFs[i].used}
Lowest(S) == CHOOSE i \in S : \A j \in S : i <= j

Calling == call.for # "nobody"

\* NetManIOSemaID is taken.
Busy == Calling \/ leaving # NULL

\* The slot whose driver NetManNetIFXmit hands a packet to, NULL if to none.
NetManNetIFXmit == MainNetIF

\* The state of the main interface, which NIFLinkState of the IOP copies.
MainIsUp == MainNetIF # NULL /\ NetIFs[MainNetIF].up

-----------------------------------------------------------------------------
(***************************************************************************)
(* UpdateNetIFStatus after NetIFs has changed.  Its first test reads the   *)
(* flags of MainNetIF also when that is NULL, to no effect.                *)
(***************************************************************************)
\* Mutant: the main interface stays until another one is wanted.
UpdateNetIFStatusOfMain ==
  LET used == {i \in Slots : NetIFs'[i].used}
  IN  /\ MainNetIF' = IF MainNetIF # NULL THEN MainNetIF
                      ELSE IF used = {} THEN NULL ELSE Lowest(used)
      /\ call' = IF IsInitialized
                 THEN [state |-> MainNetIF' # NULL /\ NetIFs'[MainNetIF'].up, for |-> "driver"]
                 ELSE call

UpdateNetIFStatus ==
  LET used == {i \in Slots : NetIFs'[i].used}
  IN  /\ MainNetIF' = IF MainNetIF \in used THEN MainNetIF
                      ELSE IF used = {} THEN NULL ELSE Lowest(used)
      /\ call' = IF IsInitialized
                 THEN [state |-> MainNetIF' # NULL /\ NetIFs'[MainNetIF'].up, for |-> "driver"]
                 ELSE call

NetManRegisterNetIF(name) ==
  /\ ~Busy /\ NextNetIFID < MaxId
  /\ Used # Slots
  /\ LET i  == Lowest(Slots \ Used)
         id == <<i, NextNetIFID>>
     IN  /\ NetIFs' = [NetIFs EXCEPT ![i] = [used |-> TRUE, up |-> FALSE, name |-> name,
                                             id |-> id]]
         /\ reports' = [r \in DOMAIN reports \cup {id} |->
                          IF r = id THEN FALSE ELSE reports[r]]
  /\ UpdateNetIFStatus
  /\ NextNetIFID' = NextNetIFID + 1
  /\ UNCHANGED <<leaving, IsInitialized, waiting, boot, ee, found, events>>

Named(name) == {i \in Used : NetIFs[i].name = name}

\* The flags are cleared, and the driver is deinitialised.
NetManUnregisterNetIF(name) ==
  /\ ~Busy
  /\ Named(name) # {}
  /\ leaving' = Lowest(Named(name))
  /\ NetIFs' = [NetIFs EXCEPT ![leaving'].used = FALSE, ![leaving'].up = FALSE]
  /\ UNCHANGED <<MainNetIF, NextNetIFID, IsInitialized, call, waiting, boot, ee, found,
                 reports, events>>

\* Mutant: whoever waits for the event flag is left waiting.
InterfaceIsGoneKeepFlag ==
  /\ leaving # NULL
  /\ leaving' = NULL
  /\ UNCHANGED NetIFs /\ UpdateNetIFStatus
  /\ UNCHANGED <<NextNetIFID, IsInitialized, waiting, boot, ee, found, reports, events>>

(***************************************************************************)
(* Then DeleteEventFlag ends the wait of NetManSetLinkMode, and            *)
(* UpdateNetIFStatus looks for another main interface: on MainNetIF = NULL *)
(* in the middle of it NetManNetIFXmit does nothing.                       *)
(***************************************************************************)
InterfaceIsGone ==
  /\ leaving # NULL
  /\ leaving' = NULL
  /\ waiting' = IF waiting = leaving THEN NULL ELSE waiting
  /\ UNCHANGED NetIFs /\ UpdateNetIFStatus
  /\ UNCHANGED <<NextNetIFID, IsInitialized, boot, ee, found, reports, events>>

\* Mutant: the upper byte of the number is not compared.
CurrentSlot(id) == NetIFs[id[1]].used

Current(id) == NetIFs[id[1]].used /\ NetIFs[id[1]].id = id

NetManToggleNetIFLinkState(id, state) ==
  /\ ~Busy /\ events < MaxEvents
  /\ events' = events + 1
  /\ reports' = [reports EXCEPT ![id] = state]
  /\ UNCHANGED <<NextNetIFID, leaving, IsInitialized, boot, ee, found>>
  /\ \/ /\ Current(id)
        /\ NetIFs' = [NetIFs EXCEPT ![id[1]].up = state]
        /\ waiting' = IF waiting = id[1] /\ ~state THEN NULL ELSE waiting
        /\ UpdateNetIFStatus
     \/ /\ ~Current(id)
        /\ UNCHANGED <<NetIFs, MainNetIF, waiting, call>>

-----------------------------------------------------------------------------
(***************************************************************************)
(* InitConnection: the link mode is set, and the call returns when the     *)
(* interface has gone down (RPC threads are more urgent than the driver,   *)
(* which cannot come between SignalSema and WaitEventFlag); then the stack *)
(* is registered, first on the IOP and then on the EE.                     *)
(***************************************************************************)
NetManSetLinkMode ==
  /\ boot = "linkmode" /\ ~Busy
  /\ boot' = "register"
  /\ waiting' \in {NULL, MainNetIF}   \* the driver's ioctl fails, or not
  /\ UNCHANGED <<registry, leaving, IsInitialized, call, ee, found, reports, events>>

NetManRegisterNetworkStack ==
  /\ boot = "register" /\ waiting = NULL /\ ~Busy
  /\ boot' = "calling"
  /\ IsInitialized' = TRUE
  /\ call' = [state |-> MainIsUp, for |-> "stack"]
  /\ UNCHANGED <<registry, leaving, waiting, ee, found, reports, events>>

\* IsNetStackInitialized of the EE.
StackInitialized == boot \in {"update", "store", "up"}

\* The call has returned; the buffers of the receive ring, of which there are
\* enough, do not concern the link.
StackIsRegistered ==
  /\ boot = "returning"
  /\ boot' = "update"
  /\ UNCHANGED <<registry, leaving, IsInitialized, call, waiting, ee, found, reports, events>>

\* NetManUpdateStackNIFLinkState on the boot thread.
ReadLinkState ==
  /\ boot = "update"
  /\ boot' = "store" /\ found' = NIFLinkState
  /\ UNCHANGED <<registry, leaving, IsInitialized, call, waiting, ee, reports, events>>

\* Mutant: the state is not sent again when the stack is registered.
StoreLinkStateNot ==
  /\ boot = "store"
  /\ boot' = "up"
  /\ UNCHANGED <<registry, leaving, IsInitialized, call, waiting, ee, found, reports, events>>

StoreLinkState ==
  /\ boot = "store"
  /\ boot' = "up"
  /\ link_up' = found
  /\ raced' = (found # NIFLinkState)
  /\ UNCHANGED <<registry, leaving, IsInitialized, call, waiting, NIFLinkState, found,
                 reports, events>>

\* The EE's RPC thread: NetManToggleGlobalNetIFLinkState.
HandleLinkStatusChange ==
  /\ Calling
  /\ NIFLinkState' = call.state
  /\ link_up' = IF StackInitialized THEN call.state ELSE link_up
  /\ raced' = FALSE
  /\ call' = [call EXCEPT !.for = "nobody"]
  /\ boot' = IF call.for = "stack" THEN "returning" ELSE boot
  /\ UNCHANGED <<registry, leaving, IsInitialized, waiting, found, reports, events>>

Next ==
  \/ \E name \in Names : NetManRegisterNetIF(name) \/ NetManUnregisterNetIF(name)
  \/ InterfaceIsGone
  \/ \E id \in DOMAIN reports, state \in BOOLEAN : NetManToggleNetIFLinkState(id, state)
  \/ NetManSetLinkMode \/ NetManRegisterNetworkStack \/ StackIsRegistered
  \/ ReadLinkState \/ StoreLinkState \/ HandleLinkStatusChange

Spec == Init /\ [][Next]_vars

-----------------------------------------------------------------------------
(***************************************************************************)
(* Whatever interfaces come and go, at the moment of any interrupt packets *)
(* go to a driver that is registered, if there is one.  The exception is a *)
(* driver that is deinitialised already but whose NetManUnregisterNetIF    *)
(* has not returned: it may still be called, and never afterwards.         *)
(***************************************************************************)
MainServes ==
  /\ NetManNetIFXmit # NULL => NetManNetIFXmit \in Used \cup {leaving}
  /\ NetManNetIFXmit = NULL => Used = {}

(***************************************************************************)
(* When nothing is under way the packet stack knows the link state of the  *)
(* main interface: no change is lost between the registration of the       *)
(* stack on the IOP and on the EE, nor when the main interface changes.    *)
(* The exception is the one race of NetManUpdateStackNIFLinkState, until   *)
(* the next report.                                                        *)
(***************************************************************************)
LinkFollows ==
  boot = "up" /\ ~Busy /\ ~raced => link_up = MainIsUp

(***************************************************************************)
(* The state of an interface is what was last reported for this very       *)
(* registration: the late report of a driver that has left does not touch  *)
(* the next owner of its slot, nor does the state of the old one stay.     *)
(***************************************************************************)
ReportsAreOwn ==
  \A i \in Used : NetIFs[i].id \in DOMAIN reports /\ NetIFs[i].up = reports[NetIFs[i].id]

(***************************************************************************)
(* NetManSetLinkMode, and with it the boot of the game, never waits for an *)
(* interface to go down whose NetManUnregisterNetIF has returned.          *)
(***************************************************************************)
WaitsForThePresent == waiting # NULL => waiting \in Used \cup {leaving}
=============================================================================
