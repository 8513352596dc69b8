----------------------------- MODULE NetIfProofs -----------------------------
(***************************************************************************)
(* Proofs about NetIf for any number of slots, names, registrations and    *)
(* reports.  The invariant follows the link state on its way: while a call *)
(* to the EE is under way it carries the state of the main interface, then *)
(* NIFLinkState of the EE has it, and link_up once the stack is up.        *)
(***************************************************************************)
EXTENDS NetIf, TLAPS

CallIsCurrent ==
  /\ Calling => IsInitialized /\ call.state = MainIsUp
  /\ IsInitialized /\ ~Busy => NIFLinkState = MainIsUp
  /\ Calling => leaving = NULL

StackIsTold ==
  /\ boot \in {"calling", "returning", "update", "store", "up"} => IsInitialized
  /\ boot = "up" /\ ~raced => link_up = NIFLinkState

NumberNamesSlot == \A i \in Used : NetIFs[i].id \in Ids /\ NetIFs[i].id[1] = i

IInv ==
  /\ TypeOK /\ MainServes /\ CallIsCurrent /\ StackIsTold
  /\ NumberNamesSlot /\ ReportsAreOwn /\ WaitsForThePresent

Interfaces == [used : BOOLEAN, up : BOOLEAN, name : Names \cup {NULL}, id : Ids \cup {NULL}]

LEMMA LowestIsIn ==
  ASSUME NEW S \in SUBSET Slots, S # {}
  PROVE  Lowest(S) \in S
  BY SlotsAssumption DEF Lowest

\* UpdateNetIFStatus, whatever it is called after.
LEMMA StatusUpdated ==
  ASSUME IInv, ~Calling, NetIFs' \in [Slots -> Interfaces], leaving' = NULL,
         UpdateNetIFStatus, UNCHANGED <<IsInitialized, NIFLinkState>>
  PROVE  /\ MainNetIF' \in Slots \cup {NULL}
         /\ call' \in [state : BOOLEAN, for : {"driver", "stack", "nobody"}]
         /\ MainServes'
         /\ CallIsCurrent'
  <1> DEFINE used == {i \in Slots : NetIFs'[i].used}
             told == [state |-> MainNetIF' # NULL /\ NetIFs'[MainNetIF'].up, for |-> "driver"]
  <1>1. used \in SUBSET Slots /\ Used' = used
    BY DEF Used
  <1>2. MainNetIF' = IF MainNetIF \in used THEN MainNetIF
                     ELSE IF used = {} THEN NULL ELSE Lowest(used)
    BY DEF UpdateNetIFStatus
  <1>3. (used = {} => MainNetIF' = NULL) /\ (used # {} => MainNetIF' \in used)
    BY <1>1, <1>2, LowestIsIn
  <1>4. MainNetIF' \in Slots \cup {NULL} /\ MainServes'
    BY <1>1, <1>3, NullAssumption DEF MainServes, NetManNetIFXmit
  <1>5. MainIsUp' \in BOOLEAN
    <2>1. CASE MainNetIF' = NULL
      BY <2>1 DEF MainIsUp
    <2>2. CASE MainNetIF' \in Slots
      BY <2>2 DEF MainIsUp, Interfaces
    <2> QED BY <2>1, <2>2, <1>4
  <1>6. told.state = MainIsUp' /\ told.for = "driver"
        /\ told \in [state : BOOLEAN, for : {"driver", "stack", "nobody"}]
    BY <1>5 DEF MainIsUp
  <1>7. call' = IF IsInitialized THEN told ELSE call
    BY DEF UpdateNetIFStatus
  <1> HIDE DEF told
  <1>8. call' \in [state : BOOLEAN, for : {"driver", "stack", "nobody"}]
    BY <1>6, <1>7 DEF IInv, TypeOK
  <1>9. CallIsCurrent'
    BY <1>6, <1>7 DEF CallIsCurrent, Calling, Busy
  <1> QED BY <1>4, <1>8, <1>9

LEMMA InitIInv == Init => IInv
  <1> SUFFICES ASSUME Init PROVE IInv
    OBVIOUS
  <1>3. /\ NetIFs \in [Slots -> Interfaces]
        /\ DOMAIN reports \subseteq Ids /\ reports \in [DOMAIN reports -> BOOLEAN]
    BY DEF Init, Unused, Interfaces
  <1>4. call \in [state : BOOLEAN, for : {"driver", "stack", "nobody"}]
    BY DEF Init, Idle
  <1>5. /\ MainNetIF \in Slots \cup {NULL} /\ waiting \in Slots \cup {NULL}
        /\ leaving \in Slots \cup {NULL}
        /\ NextNetIFID \in 0 .. MaxId /\ events \in 0 .. MaxEvents
        /\ boot \in {"linkmode", "register", "calling", "returning", "update", "store", "up"}
    BY BoundAssumption DEF Init
  <1>6. /\ IsInitialized \in BOOLEAN /\ found \in BOOLEAN /\ NIFLinkState \in BOOLEAN
        /\ link_up \in BOOLEAN /\ raced \in BOOLEAN
    BY DEF Init
  <1>1. TypeOK
    BY ONLY <1>3, <1>4, <1>5, <1>6 DEF TypeOK, Interfaces
  <1>2. Used = {} /\ ~Calling
    BY DEF Init, Used, Unused, Idle, Calling
  <1> QED BY <1>1, <1>2 DEF Init, IInv, MainServes, NetManNetIFXmit, CallIsCurrent, StackIsTold,
               NumberNamesSlot, ReportsAreOwn, WaitsForThePresent

LEMMA RegisterKeepsIInv ==
  ASSUME IInv, NEW name \in Names, NetManRegisterNetIF(name)
  PROVE  IInv'
  <1> DEFINE i  == Lowest(Slots \ Used)
             id == <<i, NextNetIFID>>
             new == [used |-> TRUE, up |-> FALSE, name |-> name, id |-> id]
  <1>1. i \in Slots /\ i \notin Used
    BY LowestIsIn DEF NetManRegisterNetIF, Used
  <1>0. NextNetIFID \in 0 .. MaxId /\ NextNetIFID + 1 \in 0 .. MaxId
    BY BoundAssumption DEF IInv, TypeOK, NetManRegisterNetIF
  <1>2. id \in Ids /\ id[1] = i /\ NextNetIFID + 1 \in 0 .. MaxId
    BY <1>0, <1>1 DEF Ids
  <1>3. NetIFs' = [NetIFs EXCEPT ![i] = new] /\ UpdateNetIFStatus /\ ~Busy
        /\ reports' = [r \in DOMAIN reports \cup {id} |-> IF r = id THEN FALSE ELSE reports[r]]
        /\ NextNetIFID' = NextNetIFID + 1
        /\ UNCHANGED <<leaving, IsInitialized, waiting, boot, ee, found, events>>
    BY DEF NetManRegisterNetIF
  <1>a. NetIFs \in [Slots -> Interfaces]
    BY DEF IInv, TypeOK, Interfaces
  <1> HIDE DEF i
  <1>4. new \in Interfaces
    BY <1>2 DEF Interfaces
  <1>b. new.used /\ new.up = FALSE /\ new.id = id
    OBVIOUS
  <1> HIDE DEF new, id
  <1>5. NetIFs' \in [Slots -> Interfaces] /\ NetIFs'[i] = new
        /\ \A j \in Slots \ {i} : NetIFs'[j] = NetIFs[j]
    BY <1>a, <1>1, <1>3, <1>4
  <1>6. DOMAIN reports' = DOMAIN reports \cup {id} /\ reports'[id] = FALSE
        /\ \A r \in DOMAIN reports : r # id => reports'[r] = reports[r]
    BY <1>3
  <1>c. DOMAIN reports \subseteq Ids /\ reports \in [DOMAIN reports -> BOOLEAN]
    BY DEF IInv, TypeOK
  <1>7. DOMAIN reports' \subseteq Ids /\ reports' \in [DOMAIN reports' -> BOOLEAN]
    BY <1>2, <1>3, <1>6, <1>c
  <1>8. UNCHANGED <<IsInitialized, NIFLinkState>>
    BY <1>3 DEF ee
  <1>9. /\ MainNetIF' \in Slots \cup {NULL} /\ MainServes' /\ CallIsCurrent'
        /\ call' \in [state : BOOLEAN, for : {"driver", "stack", "nobody"}]
    BY <1>3, <1>5, <1>8, StatusUpdated DEF Busy
  <1>10. TypeOK'
    BY <1>2, <1>3, <1>5, <1>7, <1>9 DEF IInv, TypeOK, Interfaces, ee
  <1>11. Used' = Used \cup {i}
    BY <1>1, <1>5, <1>b DEF Used
  <1>12. NumberNamesSlot'
    <2> SUFFICES ASSUME NEW j \in Used' PROVE NetIFs'[j].id \in Ids /\ NetIFs'[j].id[1] = j
      BY DEF NumberNamesSlot
    <2>1. CASE j = i
      BY <2>1, <1>2, <1>5, <1>b
    <2>2. CASE j # i
      BY <2>2, <1>5, <1>11 DEF IInv, NumberNamesSlot, Used
    <2> QED BY <2>1, <2>2
  <1>13. ReportsAreOwn'
    <2> SUFFICES ASSUME NEW j \in Used'
                 PROVE  NetIFs'[j].id \in DOMAIN reports' /\ NetIFs'[j].up = reports'[NetIFs'[j].id]
      BY DEF ReportsAreOwn
    <2>1. CASE j = i
      BY <2>1, <1>5, <1>6, <1>b
    <2>2. CASE j # i
      <3>1. j \in Used /\ NetIFs'[j] = NetIFs[j]
        BY <2>2, <1>5, <1>11 DEF Used
      <3>2. NetIFs[j].id # id
        BY <3>1, <2>2, <1>2 DEF IInv, NumberNamesSlot
      <3> QED BY <3>1, <3>2, <1>6 DEF IInv, ReportsAreOwn
    <2> QED BY <2>1, <2>2
  <1>14. StackIsTold' /\ WaitsForThePresent'
    BY <1>3, <1>11 DEF IInv, StackIsTold, WaitsForThePresent, ee
  <1> QED BY <1>9, <1>10, <1>12, <1>13, <1>14 DEF IInv

\* While NetManUnregisterNetIF lasts MainNetIF may be the slot that is leaving.
LEMMA UnregisterKeepsIInv ==
  ASSUME IInv, NEW name \in Names, NetManUnregisterNetIF(name)
  PROVE  IInv'
  <1> DEFINE i == Lowest(Named(name))
  <1>1. i \in Slots /\ i # NULL
    BY LowestIsIn, NullAssumption DEF NetManUnregisterNetIF, Named, Used
  <1>2. /\ NetIFs' = [NetIFs EXCEPT ![i].used = FALSE, ![i].up = FALSE]
        /\ leaving' = i /\ ~Busy
        /\ UNCHANGED <<MainNetIF, NextNetIFID, IsInitialized, call, waiting, boot, ee, found,
                       reports, events>>
    BY DEF NetManUnregisterNetIF
  <1>3. NetIFs \in [Slots -> Interfaces]
    BY DEF IInv, TypeOK, Interfaces
  <1> HIDE DEF i
  <1>4. /\ NetIFs' \in [Slots -> Interfaces] /\ ~NetIFs'[i].used
        /\ \A j \in Slots \ {i} : NetIFs'[j] = NetIFs[j]
    BY <1>1, <1>2, <1>3 DEF Interfaces
  <1>5. TypeOK'
    BY <1>1, <1>2, <1>4 DEF IInv, TypeOK, Interfaces, ee
  <1>6. Used' = Used \ {i}
    BY <1>4 DEF Used
  <1>7. \A j \in Used' : j \in Used /\ NetIFs'[j] = NetIFs[j]
    BY <1>4, <1>6 DEF Used
  <1>8. NumberNamesSlot' /\ ReportsAreOwn'
    BY <1>2, <1>7 DEF IInv, NumberNamesSlot, ReportsAreOwn
  <1>9. MainServes' /\ WaitsForThePresent'
    BY <1>2, <1>6 DEF IInv, Busy, MainServes, NetManNetIFXmit, WaitsForThePresent
  <1>10. CallIsCurrent' /\ StackIsTold'
    BY <1>1, <1>2 DEF IInv, CallIsCurrent, StackIsTold, Busy, Calling, ee
  <1> QED BY <1>5, <1>8, <1>9, <1>10 DEF IInv

LEMMA GoneKeepsIInv ==
  ASSUME IInv, InterfaceIsGone
  PROVE  IInv'
  <1>1. /\ NetIFs' = NetIFs /\ UpdateNetIFStatus
        /\ leaving # NULL /\ leaving' = NULL
        /\ waiting' = IF waiting = leaving THEN NULL ELSE waiting
        /\ UNCHANGED <<NextNetIFID, IsInitialized, boot, ee, found, reports, events>>
    BY DEF InterfaceIsGone
  <1>2. NetIFs' \in [Slots -> Interfaces] /\ Used' = Used
    BY <1>1 DEF IInv, TypeOK, Interfaces, Used
  <1>3. ~Calling /\ UNCHANGED <<IsInitialized, NIFLinkState>>
    BY <1>1 DEF IInv, CallIsCurrent, ee
  <1>4. /\ MainNetIF' \in Slots \cup {NULL} /\ MainServes' /\ CallIsCurrent'
        /\ call' \in [state : BOOLEAN, for : {"driver", "stack", "nobody"}]
    BY <1>1, <1>2, <1>3, StatusUpdated
  <1>5. TypeOK'
    BY <1>1, <1>2, <1>4 DEF IInv, TypeOK, Interfaces, ee
  <1>6. NumberNamesSlot' /\ ReportsAreOwn'
    BY <1>1, <1>2 DEF IInv, NumberNamesSlot, ReportsAreOwn
  <1>7. StackIsTold' /\ WaitsForThePresent'
    BY <1>1, <1>2 DEF IInv, StackIsTold, WaitsForThePresent, ee
  <1> QED BY <1>4, <1>5, <1>6, <1>7 DEF IInv

LEMMA ToggleKeepsIInv ==
  ASSUME IInv, NEW id \in DOMAIN reports, NEW state \in BOOLEAN,
         NetManToggleNetIFLinkState(id, state)
  PROVE  IInv'
  <1>1. /\ reports' = [reports EXCEPT ![id] = state] /\ ~Calling /\ leaving = NULL
        /\ events' \in 0 .. MaxEvents
        /\ UNCHANGED <<NextNetIFID, leaving, IsInitialized, boot, ee, found>>
    BY BoundAssumption DEF NetManToggleNetIFLinkState, IInv, TypeOK, Busy
  <1>2. /\ reports \in [DOMAIN reports -> BOOLEAN] /\ DOMAIN reports \subseteq Ids
        /\ NetIFs \in [Slots -> Interfaces]
    BY DEF IInv, TypeOK, Interfaces
  <1>3. /\ DOMAIN reports' = DOMAIN reports /\ reports'[id] = state
        /\ \A r \in DOMAIN reports : r # id => reports'[r] = reports[r]
        /\ reports' \in [DOMAIN reports' -> BOOLEAN]
    BY <1>1, <1>2
  <1>4. id[1] \in Slots
    BY <1>2 DEF Ids
  <1>5. CASE /\ Current(id)
             /\ NetIFs' = [NetIFs EXCEPT ![id[1]].up = state]
             /\ waiting' = IF waiting = id[1] /\ ~state THEN NULL ELSE waiting
             /\ UpdateNetIFStatus
    <2>1. /\ NetIFs' \in [Slots -> Interfaces]
          /\ \A j \in Slots \ {id[1]} : NetIFs'[j] = NetIFs[j]
          /\ NetIFs'[id[1]].used /\ NetIFs'[id[1]].up = state /\ NetIFs'[id[1]].id = id
      BY <1>2, <1>4, <1>5 DEF Interfaces, Current
    <2>2. Used' = Used /\ id[1] \in Used
      BY <2>1, <1>4, <1>5 DEF Used, Current
    <2>3. /\ MainNetIF' \in Slots \cup {NULL} /\ MainServes' /\ CallIsCurrent'
          /\ call' \in [state : BOOLEAN, for : {"driver", "stack", "nobody"}]
      BY <1>1, <1>5, <2>1, StatusUpdated DEF ee
    <2>4. TypeOK'
      BY <1>1, <1>2, <1>3, <1>5, <2>1, <2>3 DEF IInv, TypeOK, Interfaces, ee
    <2>5. NumberNamesSlot' /\ ReportsAreOwn'
      <3> SUFFICES ASSUME NEW j \in Used
                   PROVE  /\ NetIFs'[j].id \in Ids /\ NetIFs'[j].id[1] = j
                          /\ NetIFs'[j].id \in DOMAIN reports'
                          /\ NetIFs'[j].up = reports'[NetIFs'[j].id]
        BY <2>2 DEF NumberNamesSlot, ReportsAreOwn
      <3>1. CASE j = id[1]
        BY <3>1, <2>1, <1>2, <1>3
      <3>2. CASE j # id[1]
        BY <3>2, <2>1, <1>3 DEF IInv, NumberNamesSlot, ReportsAreOwn, Used
      <3> QED BY <3>1, <3>2
    <2>6. StackIsTold' /\ WaitsForThePresent'
      BY <1>1, <1>5, <2>2 DEF IInv, StackIsTold, WaitsForThePresent, ee
    <2> QED BY <2>3, <2>4, <2>5, <2>6 DEF IInv
  <1>6. CASE ~Current(id) /\ UNCHANGED <<NetIFs, MainNetIF, waiting, call>>
    <2>1. Used' = Used /\ MainIsUp' = MainIsUp /\ Calling' = Calling /\ Busy' = Busy
      BY <1>1, <1>6 DEF Used, MainIsUp, Calling, Busy
    <2>2. TypeOK'
      BY <1>1, <1>2, <1>3, <1>6 DEF IInv, TypeOK, ee
    <2>3. ReportsAreOwn'
      <3> SUFFICES ASSUME NEW j \in Used
                   PROVE  /\ NetIFs[j].id \in DOMAIN reports
                          /\ NetIFs[j].up = reports'[NetIFs[j].id]
        BY <1>3, <1>6, <2>1 DEF ReportsAreOwn
      <3>1. NetIFs[j].id # id
        BY <1>6 DEF Current, IInv, NumberNamesSlot, Used
      <3> QED BY <3>1, <1>3 DEF IInv, ReportsAreOwn
    <2>4. MainServes' /\ CallIsCurrent' /\ StackIsTold' /\ NumberNamesSlot'
          /\ WaitsForThePresent'
      BY <1>1, <1>6, <2>1 DEF IInv, MainServes, NetManNetIFXmit, CallIsCurrent,
                             StackIsTold, NumberNamesSlot, WaitsForThePresent, ee
    <2> QED BY <2>2, <2>3, <2>4 DEF IInv
  <1> QED BY <1>5, <1>6 DEF NetManToggleNetIFLinkState

\* A step that leaves the registry alone leaves alone what only it concerns.
LEMMA RegistryKept ==
  ASSUME IInv, UNCHANGED <<registry, leaving, reports>>,
         waiting' = waiting \/ (~Busy /\ waiting' \in {NULL, MainNetIF})
  PROVE  MainServes' /\ NumberNamesSlot' /\ ReportsAreOwn' /\ WaitsForThePresent'
         /\ MainIsUp' = MainIsUp
  <1>1. Used' = Used /\ MainIsUp' = MainIsUp
    BY DEF Used, MainIsUp, registry
  <1>2. MainServes' /\ NumberNamesSlot' /\ ReportsAreOwn'
    BY <1>1 DEF IInv, MainServes, NetManNetIFXmit, NumberNamesSlot, ReportsAreOwn, registry
  <1>3. WaitsForThePresent'
    BY <1>1 DEF IInv, WaitsForThePresent, MainServes, NetManNetIFXmit
  <1> QED BY <1>1, <1>2, <1>3

LEMMA BootKeepsIInv ==
  ASSUME IInv,
         \/ NetManSetLinkMode \/ NetManRegisterNetworkStack \/ StackIsRegistered
         \/ ReadLinkState \/ StoreLinkState \/ HandleLinkStatusChange
  PROVE  IInv'
  <1>1. CASE NetManSetLinkMode
    <2>1. TypeOK'
      BY <1>1 DEF NetManSetLinkMode, IInv, TypeOK, registry, ee
    <2>2. MainServes' /\ NumberNamesSlot' /\ ReportsAreOwn' /\ WaitsForThePresent'
          /\ MainIsUp' = MainIsUp
      BY <1>1, RegistryKept DEF NetManSetLinkMode
    <2>3. CallIsCurrent' /\ StackIsTold'
      BY <1>1, <2>2 DEF NetManSetLinkMode, IInv, CallIsCurrent, StackIsTold, Calling, Busy, ee
    <2> QED BY <2>1, <2>2, <2>3 DEF IInv
  <1>2. CASE NetManRegisterNetworkStack
    <2>0. MainIsUp \in BOOLEAN
      <3>1. CASE MainNetIF = NULL
        BY <3>1 DEF MainIsUp
      <3>2. CASE MainNetIF \in Slots
        BY <3>2 DEF MainIsUp, IInv, TypeOK
      <3> QED BY <3>1, <3>2 DEF IInv, TypeOK
    <2>1. TypeOK'
      BY <1>2, <2>0 DEF NetManRegisterNetworkStack, IInv, TypeOK, registry, ee
    <2>2. MainServes' /\ NumberNamesSlot' /\ ReportsAreOwn' /\ WaitsForThePresent'
          /\ MainIsUp' = MainIsUp
      BY <1>2, RegistryKept DEF NetManRegisterNetworkStack
    <2>3. CallIsCurrent' /\ StackIsTold'
      BY <1>2, <2>2 DEF NetManRegisterNetworkStack, IInv, CallIsCurrent, StackIsTold, Calling,
                        Busy, ee
    <2> QED BY <2>1, <2>2, <2>3 DEF IInv
  <1>3. CASE StackIsRegistered \/ ReadLinkState \/ StoreLinkState
    <2>1. TypeOK'
      BY <1>3 DEF StackIsRegistered, ReadLinkState, StoreLinkState, IInv, TypeOK, registry, ee
    <2>2. MainServes' /\ NumberNamesSlot' /\ ReportsAreOwn' /\ WaitsForThePresent'
          /\ MainIsUp' = MainIsUp
      BY <1>3, RegistryKept DEF StackIsRegistered, ReadLinkState, StoreLinkState
    <2>3. CallIsCurrent'
      BY <1>3, <2>2 DEF StackIsRegistered, ReadLinkState, StoreLinkState, IInv, CallIsCurrent,
                        Calling, Busy, ee
    <2>4. StackIsTold'
      <3>1. CASE StackIsRegistered \/ ReadLinkState
        BY <3>1 DEF StackIsRegistered, ReadLinkState, IInv, StackIsTold, ee
      <3>2. CASE StoreLinkState
        BY <3>2 DEF StoreLinkState, IInv, TypeOK, StackIsTold
      <3> QED BY <3>1, <3>2, <1>3
    <2> QED BY <2>1, <2>2, <2>3, <2>4 DEF IInv
  <1>4. CASE HandleLinkStatusChange
    <2>1. call' = [call EXCEPT !.for = "nobody"] /\ ~Calling'
          /\ call' \in [state : BOOLEAN, for : {"driver", "stack", "nobody"}]
      BY <1>4 DEF HandleLinkStatusChange, Calling, IInv, TypeOK
    <2>2. TypeOK'
      BY <1>4, <2>1 DEF HandleLinkStatusChange, IInv, TypeOK, registry
    <2>3. MainServes' /\ NumberNamesSlot' /\ ReportsAreOwn' /\ WaitsForThePresent'
          /\ MainIsUp' = MainIsUp
      BY <1>4, RegistryKept DEF HandleLinkStatusChange
    <2>4. CallIsCurrent'
      BY <1>4, <2>1, <2>3 DEF HandleLinkStatusChange, IInv, CallIsCurrent, Busy
    <2>5. StackIsTold'
      BY <1>4 DEF HandleLinkStatusChange, IInv, StackIsTold, StackInitialized, CallIsCurrent,
                  Calling, Busy
    <2> QED BY <2>2, <2>3, <2>4, <2>5 DEF IInv
  <1> QED BY <1>1, <1>2, <1>3, <1>4

(***************************************************************************)
(* The strengthened invariant holds, for any number of slots, drivers and  *)
(* reports.                                                                *)
(***************************************************************************)
THEOREM Invariance == Spec => []IInv
  <1>1. IInv /\ [Next]_vars => IInv'
    <2> SUFFICES ASSUME IInv, [Next]_vars PROVE IInv'
      OBVIOUS
    <2>1. CASE \E name \in Names : NetManRegisterNetIF(name)
      BY <2>1, RegisterKeepsIInv
    <2>2. CASE \E name \in Names : NetManUnregisterNetIF(name)
      BY <2>2, UnregisterKeepsIInv
    <2>6. CASE InterfaceIsGone
      BY <2>6, GoneKeepsIInv
    <2>3. CASE \E id \in DOMAIN reports, state \in BOOLEAN : NetManToggleNetIFLinkState(id, state)
      BY <2>3, ToggleKeepsIInv
    <2>4. CASE \/ NetManSetLinkMode \/ NetManRegisterNetworkStack \/ StackIsRegistered
               \/ ReadLinkState \/ StoreLinkState \/ HandleLinkStatusChange
      BY <2>4, BootKeepsIInv
    <2>5. CASE UNCHANGED vars
      <3>1. UNCHANGED <<registry, leaving, reports, waiting>>
        BY <2>5 DEF vars
      <3>2. MainServes' /\ NumberNamesSlot' /\ ReportsAreOwn' /\ WaitsForThePresent'
            /\ MainIsUp' = MainIsUp
        BY <3>1, RegistryKept
      <3> QED BY <2>5, <3>2 DEF IInv, TypeOK, CallIsCurrent, StackIsTold, Calling, Busy,
                             vars, registry, ee
    <2> QED BY <2>1, <2>2, <2>3, <2>4, <2>5, <2>6 DEF Next
  <1> QED BY InitIInv, <1>1, PTL DEF Spec

\* Type correctness of the registry and the way of the link state.
THEOREM TypeCorrect == Spec => []TypeOK
  BY Invariance, PTL DEF IInv

\* At any moment NetManNetIFXmit calls a registered driver, if there is one, or the
\* one whose NetManUnregisterNetIF has not returned.
THEOREM MainIsServed == Spec => []MainServes
  BY Invariance, PTL DEF IInv

\* The packet stack knows the link state of the main interface, unless the boot
\* thread has stored an outdated one over it (NetManUpdateStackNIFLinkState).
THEOREM LinkStateArrives == Spec => []LinkFollows
  <1>1. IInv => LinkFollows
    BY DEF IInv, StackIsTold, CallIsCurrent, LinkFollows, Busy
  <1> QED BY <1>1, Invariance, PTL

\* A late report of a driver that has left does not touch another's slot.
THEOREM ReportsStayApart == Spec => []ReportsAreOwn
  BY Invariance, PTL DEF IInv

\* NetManSetLinkMode never waits for an interface whose unregistration is over.
THEOREM NoWaitForTheGone == Spec => []WaitsForThePresent
  BY Invariance, PTL DEF IInv
=============================================================================
