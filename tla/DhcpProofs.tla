----------------------------- MODULE DhcpProofs -----------------------------
(***************************************************************************)
(* Proofs about Dhcp for any servers, number of retries, exchanges and     *)
(* changes of the link.  LinkUpMeansExchange follows from what a thread    *)
(* that holds dhcp_sema has found out about the link, LeaseWasAcked from   *)
(* what the packets of an exchange can say of it.                          *)
(***************************************************************************)
EXTENDS Dhcp, TLAPS

\* What the holder of dhcp_sema knows, and how it may have become outdated.
LockIsHonest ==
  /\ lock = "down" /\ link_up => rpc = "begin"
  /\ lock # "free" => holder.state # "NULL"

HolderIsCurrent ==
  /\ holder.state # "NULL" => holder.xid = exchanges /\ outcome = "trying"
  /\ holder.state = "REQUEST" => holder.ip = our_ip

PacketsArePast == \A m \in net : m.xid <= exchanges

RequestsNameTheChoice ==
  \A m \in net : m.type = "REQUEST" /\ holder.state # "NULL" /\ m.xid = holder.xid =>
                   holder.state = "REQUEST" /\ m.ip = holder.ip

AcksAnswerRequests ==
  \A m \in net : m.type = "ACK" =>
    \E r \in net : r.type = "REQUEST" /\ r.xid = m.xid /\ r.ip = m.src

IInv ==
  /\ TypeOK /\ LockIsHonest /\ HolderIsCurrent /\ PacketsArePast
  /\ RequestsNameTheChoice /\ AcksAnswerRequests
  /\ LinkUpMeansExchange /\ LeaseWasAcked

-----------------------------------------------------------------------------
LEMMA TypesOfFreed == Freed \in Holders /\ Freed.state = "NULL" /\ 0 \in Xids
  <1>1. 0 \in Xids
    BY BoundAssumption DEF Xids
  <1> QED BY <1>1 DEF Fresh, Freed, Holders

LEMMA TypesOfFresh ==
  ASSUME NEW x \in Xids
  PROVE  /\ Fresh(x) \in Holders /\ Fresh(x).state = "DISCOVER" /\ Fresh(x).xid = x
         /\ Request(Fresh(x)) \in Requests /\ Request(Fresh(x)).type = "DISCOVER"
         /\ Request(Fresh(x)).xid = x
         /\ [Fresh(x) EXCEPT !.retries = 1, !.due = FALSE] \in Holders
         /\ [Fresh(x) EXCEPT !.retries = 1, !.due = FALSE].state = "DISCOVER"
         /\ [Fresh(x) EXCEPT !.retries = 1, !.due = FALSE].xid = x
  BY DEF Fresh, Holders, Request, Requests

LEMMA TypesOfRequest ==
  ASSUME NEW h \in Holders, h.state # "NULL"
  PROVE  /\ Request(h) \in Requests /\ Request(h).type = h.state
         /\ Request(h).xid = h.xid /\ Request(h).ip = h.ip
  BY DEF Holders, Request, Requests

LEMMA InitIInv == Init => IInv
  <1> SUFFICES ASSUME Init PROVE IInv
    OBVIOUS
  <1>1. Freed \in Holders /\ Freed.state = "NULL" /\ 0 \in Xids
    BY TypesOfFreed
  <1>2. TypeOK
    <2>1. exchanges \in Xids /\ flaps \in 0 .. MaxFlap
      BY <1>1, BoundAssumption DEF Init
    <2> QED BY <1>1, <2>1 DEF Init, TypeOK
  <1> QED BY <1>1, <1>2 DEF Init, IInv, LockIsHonest, HolderIsCurrent, PacketsArePast,
             RequestsNameTheChoice, AcksAnswerRequests, LinkUpMeansExchange, LeaseWasAcked

(***************************************************************************)
(* What the packets say stays true when none is added, or one of the       *)
(* present exchange, and the exchange has not got further than a choice.   *)
(***************************************************************************)
PacketInv == PacketsArePast /\ RequestsNameTheChoice /\ AcksAnswerRequests

LEMMA SendKeepsPackets ==
  ASSUME IInv, holder.state # "NULL",
         net' = net \/ net' = net \cup {Request(holder)},
         exchanges' = exchanges,
         \/ holder'.state = "NULL"
         \/ holder'.state = holder.state /\ holder'.xid = holder.xid /\ holder'.ip = holder.ip
  PROVE  PacketInv'
  <1>1. /\ Request(holder).type = holder.state /\ Request(holder).xid = exchanges
        /\ Request(holder).ip = holder.ip /\ holder.xid = exchanges /\ exchanges \in Nat
        /\ holder.state \in {"DISCOVER", "REQUEST"}
    BY TypesOfRequest DEF IInv, TypeOK, HolderIsCurrent, Holders, Xids
  <1>2. PacketsArePast'
    BY <1>1 DEF IInv, PacketsArePast
  <1>3. RequestsNameTheChoice'
    BY <1>1 DEF IInv, RequestsNameTheChoice
  <1>4. AcksAnswerRequests'
    BY <1>1 DEF IInv, AcksAnswerRequests
  <1> QED BY <1>2, <1>3, <1>4 DEF PacketInv

\* A new exchange has a number that no packet bears.
LEMMA NewExchangeKeepsPackets ==
  ASSUME IInv, exchanges < MaxExchange, exchanges' = exchanges + 1,
         holder'.state = "DISCOVER", holder'.xid = exchanges + 1,
         net' = net \/ net' = net \cup {Request(Fresh(exchanges + 1))}
  PROVE  PacketInv' /\ exchanges' \in Xids
  <1>1. exchanges \in Nat /\ exchanges + 1 \in Xids
    BY BoundAssumption DEF IInv, TypeOK, Xids
  <1>2. Request(Fresh(exchanges + 1)).type = "DISCOVER"
        /\ Request(Fresh(exchanges + 1)).xid = exchanges + 1
    BY <1>1, TypesOfFresh
  <1>3. \A m \in net : m.xid \in Nat /\ m.xid <= exchanges
    BY DEF IInv, TypeOK, PacketsArePast, Requests, Replies, Xids
  <1>4. PacketsArePast'
    BY <1>1, <1>2, <1>3 DEF PacketsArePast
  <1>5. RequestsNameTheChoice'
    BY <1>1, <1>2, <1>3 DEF RequestsNameTheChoice
  <1>6. AcksAnswerRequests'
    BY <1>2 DEF IInv, AcksAnswerRequests
  <1> QED BY <1>1, <1>4, <1>5, <1>6 DEF PacketInv

-----------------------------------------------------------------------------
LEMMA ProcessKeepsIInv ==
  ASSUME IInv, ProcessDhcp \/ FreeHolder \/ SecondPasses
  PROVE  IInv'
  <1>1. CASE ProcessDhcp
    <2>1. TypeOK' /\ LockIsHonest'
      BY <1>1 DEF ProcessDhcp, Tested, IInv, TypeOK, LockIsHonest
    <2>2. UNCHANGED <<holder, our_ip, link_up, rpc, net, exchanges, outcome>>
      BY <1>1 DEF ProcessDhcp
    <2> QED BY <2>1, <2>2 DEF IInv, HolderIsCurrent, PacketsArePast, RequestsNameTheChoice,
               AcksAnswerRequests, LinkUpMeansExchange, LeaseWasAcked
  <1>2. CASE FreeHolder
    <2>1. holder' = Freed /\ Freed \in Holders /\ Freed.state = "NULL"
      BY <1>2, TypesOfFreed DEF FreeHolder
    <2>2. /\ lock = "down" /\ lock' = "free" /\ outcome' = "dropped"
          /\ UNCHANGED <<our_ip, link_up, rpc, net, exchanges, flaps>>
      BY <1>2 DEF FreeHolder
    <2>3. TypeOK'
      BY <2>1, <2>2 DEF IInv, TypeOK
    <2>4. LinkUpMeansExchange'
      BY <2>2 DEF IInv, LockIsHonest, LinkUpMeansExchange
    <2> QED BY <2>1, <2>2, <2>3, <2>4 DEF IInv, LockIsHonest, HolderIsCurrent, PacketsArePast,
               RequestsNameTheChoice, AcksAnswerRequests, LeaseWasAcked
  <1>3. CASE SecondPasses
    <2>1. /\ holder' \in Holders /\ holder'.state = holder.state /\ holder'.xid = holder.xid
          /\ holder'.ip = holder.ip
          /\ UNCHANGED <<our_ip, link_up, lock, rpc, net, exchanges, flaps, outcome>>
      BY <1>3 DEF SecondPasses, IInv, TypeOK, Holders
    <2> QED BY <2>1 DEF IInv, TypeOK, LockIsHonest, HolderIsCurrent, PacketsArePast,
               RequestsNameTheChoice, AcksAnswerRequests, LinkUpMeansExchange, LeaseWasAcked
  <1> QED BY <1>1, <1>2, <1>3

LEMMA RetryKeepsIInv ==
  ASSUME IInv, Retry
  PROVE  IInv'
  <1>1. /\ lock = "up" /\ lock' = "free" /\ holder.state # "NULL" /\ holder \in Holders
        /\ UNCHANGED <<our_ip, link_up, rpc, exchanges, flaps>>
    BY DEF Retry, IInv, TypeOK, LockIsHonest
  <1>2. Resend(holder)
    BY DEF Retry
  <1>3. CASE holder' = Freed /\ outcome' = "failed" /\ UNCHANGED net
    <2>1. holder' \in Holders /\ holder'.state = "NULL"
      BY <1>3, TypesOfFreed
    <2>2. PacketInv'
      BY <1>1, <1>3, <2>1, SendKeepsPackets
    <2>3. TypeOK'
      BY <1>1, <1>3, <2>1 DEF IInv, TypeOK
    <2> QED BY <1>1, <1>3, <2>1, <2>2, <2>3 DEF IInv, PacketInv, LockIsHonest, HolderIsCurrent,
               LinkUpMeansExchange, LeaseWasAcked
  <1>4. CASE /\ holder' = holder \/ holder' = [holder EXCEPT !.retries = @ + 1, !.due = FALSE]
             /\ net' = net \/ net' = net \cup {Request(holder)}
             /\ UNCHANGED outcome
    <2>1. /\ holder' \in Holders /\ holder'.state = holder.state /\ holder'.xid = holder.xid
          /\ holder'.ip = holder.ip
      <3>1. CASE holder' = holder
        BY <1>1, <3>1
      <3>2. CASE holder' = [holder EXCEPT !.retries = @ + 1, !.due = FALSE]
        <4>1. holder.retries \in Nat
          BY <1>1 DEF Holders
        <4>2. holder.retries + 1 \in Nat
          BY <4>1
        <4>3. holder' = [holder EXCEPT !.retries = holder.retries + 1, !.due = FALSE]
          BY <3>2
        <4> QED BY <1>1, <4>2, <4>3, Zenon DEF Holders
      <3> QED BY <1>4, <3>1, <3>2
    <2>2. PacketInv'
      BY <1>1, <1>4, <2>1, SendKeepsPackets
    <2>3. TypeOK'
      BY <1>1, <1>4, <2>1, TypesOfRequest DEF IInv, TypeOK
    <2>4. LeaseWasAcked'
      BY <1>1, <1>4 DEF IInv, HolderIsCurrent, LeaseWasAcked
    <2> QED BY <1>1, <1>4, <2>1, <2>2, <2>3, <2>4 DEF IInv, PacketInv, LockIsHonest,
               HolderIsCurrent, LinkUpMeansExchange
  <1> QED BY <1>2, <1>3, <1>4 DEF Resend

LEMMA LinkKeepsIInv ==
  ASSUME IInv, LinkStateUp \/ LinkStateDown
  PROVE  IInv'
  <1>2. UNCHANGED <<holder, our_ip, lock, net, exchanges, outcome>>
    BY DEF LinkStateUp, LinkStateDown
  <1>3. flaps' = flaps + 1 /\ flaps < MaxFlap /\ flaps \in 0 .. MaxFlap
    BY DEF LinkStateUp, LinkStateDown, IInv, TypeOK
  <1>5. flaps' \in 0 .. MaxFlap
    BY <1>3, BoundAssumption
  <1>4. flaps' \in 0 .. MaxFlap /\ link_up' \in BOOLEAN /\ rpc' \in {"idle", "begin"}
    BY <1>5 DEF LinkStateUp, LinkStateDown, IInv, TypeOK
  <1>1. TypeOK'
    BY <1>2, <1>4 DEF IInv, TypeOK
  <1>6. LockIsHonest' /\ LinkUpMeansExchange'
    BY <1>2 DEF LinkStateUp, LinkStateDown, IInv, LockIsHonest, LinkUpMeansExchange
  <1> QED BY <1>1, <1>2, <1>6 DEF IInv, HolderIsCurrent, PacketsArePast, RequestsNameTheChoice,
             AcksAnswerRequests, LeaseWasAcked

LEMMA BeginKeepsIInv ==
  ASSUME IInv, BeginDhcp
  PROVE  IInv'
  <1>1. /\ lock = "free" /\ rpc' = "idle" /\ UNCHANGED <<link_up, lock, flaps>>
    BY DEF BeginDhcp
  <1>2. CASE holder.state # "NULL" /\ UNCHANGED <<holder, our_ip, net, exchanges, outcome>>
    <2>1. TypeOK'
      BY <1>1, <1>2 DEF IInv, TypeOK
    <2> QED BY <1>1, <1>2, <2>1 DEF IInv, LockIsHonest, HolderIsCurrent, PacketsArePast,
               RequestsNameTheChoice, AcksAnswerRequests, LinkUpMeansExchange, LeaseWasAcked
  <1>3. CASE /\ exchanges < MaxExchange /\ exchanges' = exchanges + 1
             /\ our_ip' = ANY /\ outcome' = "trying"
             /\ \/ /\ holder' = [Fresh(exchanges + 1) EXCEPT !.retries = 1, !.due = FALSE]
                   /\ net' = net \cup {Request(Fresh(exchanges + 1))}
                \/ holder' = Fresh(exchanges + 1) /\ UNCHANGED net
    <2>1. exchanges + 1 \in Xids
      BY <1>3, BoundAssumption DEF IInv, TypeOK, Xids
    <2>2. /\ holder' \in Holders /\ holder'.state = "DISCOVER" /\ holder'.xid = exchanges + 1
          /\ Request(Fresh(exchanges + 1)) \in Requests
      <3> DEFINE f == Fresh(exchanges + 1)
                 g == [f EXCEPT !.retries = 1, !.due = FALSE]
      <3>1. /\ f \in Holders /\ f.state = "DISCOVER" /\ f.xid = exchanges + 1
            /\ g \in Holders /\ g.state = "DISCOVER" /\ g.xid = exchanges + 1
            /\ Request(f) \in Requests
        BY <2>1, TypesOfFresh
      <3>2. holder' = g \/ holder' = f
        BY <1>3
      <3> QED BY <3>1, <3>2
    <2>3. PacketInv'
      BY <1>3, <2>2, NewExchangeKeepsPackets
    <2>4. TypeOK'
      BY <1>1, <1>3, <2>1, <2>2 DEF IInv, TypeOK
    <2> QED BY <1>1, <1>3, <2>2, <2>3, <2>4 DEF IInv, PacketInv, LockIsHonest, HolderIsCurrent,
               LinkUpMeansExchange, LeaseWasAcked
  <1> QED BY <1>2, <1>3 DEF BeginDhcp

LEMMA HandleKeepsIInv ==
  ASSUME IInv, HandleDhcp
  PROVE  IInv'
  <1> PICK m \in net : HandleOffer(m) \/ HandleAck(m) \/ HandleNack(m) \/ HandleOther(m)
    BY DEF HandleDhcp
  <1>1. /\ lock = "free" /\ holder.state # "NULL" /\ m.xid = holder.xid /\ m.xid = exchanges
        /\ holder \in Holders /\ outcome = "trying" /\ exchanges \in Xids
        /\ Tested = (IF link_up THEN "up" ELSE "down") /\ link_up \in BOOLEAN
    BY DEF HandleOffer, HandleAck, HandleNack, HandleOther, Expected, IInv, TypeOK,
           HolderIsCurrent, Tested
  <1>2. m.type \in {"OFFER", "ACK", "NACK"} => m.src \in Servers
    BY DEF IInv, TypeOK, Requests, Replies
  <1>3. CASE HandleOffer(m)
    <2>1. /\ m.src \in Servers /\ our_ip' = m.src /\ holder.state = "DISCOVER"
          /\ lock' = Tested
          /\ UNCHANGED <<link_up, rpc, net, exchanges, flaps, outcome>>
      BY <1>2, <1>3 DEF HandleOffer
    <2>2. /\ holder' \in Holders /\ holder'.state = "REQUEST" /\ holder'.xid = holder.xid
          /\ holder'.ip = m.src
      BY <1>1, <1>3, <2>1 DEF HandleOffer, Holders
    <2>3. TypeOK' /\ LockIsHonest'
      BY <1>1, <2>1, <2>2 DEF IInv, TypeOK, LockIsHonest
    <2>4. RequestsNameTheChoice'
      BY <1>1, <2>1, <2>2 DEF IInv, RequestsNameTheChoice
    <2> QED BY <1>1, <2>1, <2>2, <2>3, <2>4 DEF IInv, HolderIsCurrent, PacketsArePast,
               AcksAnswerRequests, LinkUpMeansExchange, LeaseWasAcked
  <1>4. CASE HandleAck(m)
    <2>1. /\ m.type = "ACK" /\ holder.state = "REQUEST" /\ outcome' = "leased"
          /\ holder' = Freed
          /\ UNCHANGED <<our_ip, link_up, lock, rpc, net, exchanges, flaps>>
      BY <1>4 DEF HandleAck
    <2>2. holder' \in Holders /\ holder'.state = "NULL"
      BY <2>1, TypesOfFreed
    <2>3. TypeOK'
      BY <2>1, <2>2 DEF IInv, TypeOK
    <2>4. LeaseWasAcked'
      <3>1. PICK r \in net : r.type = "REQUEST" /\ r.xid = m.xid /\ r.ip = m.src
        BY <2>1 DEF IInv, AcksAnswerRequests
      <3>2. m.src = our_ip
        BY <1>1, <2>1, <3>1 DEF IInv, RequestsNameTheChoice, HolderIsCurrent
      <3>3. m \in Replies
        BY <2>1 DEF IInv, TypeOK, Requests
      <3>4. m = Reply("ACK", our_ip, exchanges)
        BY <1>1, <2>1, <3>2, <3>3 DEF Replies, Reply
      <3> QED BY <2>1, <3>4 DEF LeaseWasAcked, Reply
    <2> QED BY <1>1, <2>1, <2>2, <2>3, <2>4 DEF IInv, LockIsHonest, HolderIsCurrent,
               PacketsArePast, RequestsNameTheChoice, AcksAnswerRequests, LinkUpMeansExchange
  <1>5. CASE HandleNack(m)
    <2>1. /\ exchanges < MaxExchange /\ exchanges' = exchanges + 1
          /\ holder' = Fresh(exchanges + 1) /\ our_ip' = ANY /\ lock' = Tested
          /\ UNCHANGED <<link_up, rpc, net, flaps, outcome>>
      BY <1>5 DEF HandleNack
    <2>2. exchanges + 1 \in Xids
      BY <2>1, BoundAssumption DEF IInv, TypeOK, Xids
    <2>3. holder' \in Holders /\ holder'.state = "DISCOVER" /\ holder'.xid = exchanges + 1
      BY <2>1, <2>2, TypesOfFresh
    <2>4. PacketInv'
      BY <2>1, <2>3, NewExchangeKeepsPackets
    <2>5. TypeOK' /\ LockIsHonest'
      BY <1>1, <2>1, <2>2, <2>3 DEF IInv, TypeOK, LockIsHonest
    <2> QED BY <1>1, <2>1, <2>3, <2>4, <2>5 DEF IInv, PacketInv, HolderIsCurrent,
               LinkUpMeansExchange, LeaseWasAcked
  <1>6. CASE HandleOther(m)
    <2>1. /\ m.src \in Servers /\ lock' = Tested /\ holder' = [holder EXCEPT !.hw = m.src]
          /\ UNCHANGED <<our_ip, link_up, rpc, net, exchanges, flaps, outcome>>
      BY <1>2, <1>6 DEF HandleOther
    <2>2. /\ holder' \in Holders /\ holder'.state = holder.state /\ holder'.xid = holder.xid
          /\ holder'.ip = holder.ip
      BY <1>1, <2>1 DEF Holders
    <2>3. TypeOK' /\ LockIsHonest'
      BY <1>1, <2>1, <2>2 DEF IInv, TypeOK, LockIsHonest
    <2> QED BY <1>1, <2>1, <2>2, <2>3 DEF IInv, HolderIsCurrent, PacketsArePast,
               RequestsNameTheChoice, AcksAnswerRequests, LinkUpMeansExchange, LeaseWasAcked
  <1> QED BY <1>3, <1>4, <1>5, <1>6

LEMMA ServersKeepIInv ==
  ASSUME IInv, NEW s \in Servers, Offer(s) \/ Answer(s)
  PROVE  IInv'
  <1>1. PICK m \in net, type \in {"OFFER", "ACK", "NACK"} :
          /\ net' = net \cup {Reply(type, s, m.xid)}
          /\ type = "ACK" => m.type = "REQUEST" /\ m.ip = s
    BY DEF Offer, Answer
  <1>2. UNCHANGED <<holder, our_ip, link_up, lock, rpc, exchanges, flaps, outcome>>
    BY DEF Offer, Answer
  <1> DEFINE a == Reply(type, s, m.xid)
  <1>3. /\ a.type = type /\ a.xid = m.xid /\ a.src = s
        /\ m.xid \in Xids /\ a \in Replies
    BY DEF IInv, TypeOK, Requests, Replies, Reply
  <1> HIDE DEF a
  <1>4. net' = net \cup {a}
    BY <1>1 DEF a
  <1>5. TypeOK'
    BY <1>2, <1>3, <1>4 DEF IInv, TypeOK
  <1>6. PacketsArePast'
    BY <1>2, <1>3, <1>4 DEF IInv, PacketsArePast
  <1>7. RequestsNameTheChoice'
    BY <1>2, <1>3, <1>4 DEF IInv, RequestsNameTheChoice
  <1>8. AcksAnswerRequests'
    BY <1>1, <1>3, <1>4 DEF IInv, AcksAnswerRequests
  <1>9. LeaseWasAcked'
    BY <1>2, <1>4 DEF IInv, LeaseWasAcked, Reply
  <1> QED BY <1>2, <1>5, <1>6, <1>7, <1>8, <1>9 DEF IInv, LockIsHonest, HolderIsCurrent,
             LinkUpMeansExchange

(***************************************************************************)
(* The strengthened invariant holds for any servers and bounds.            *)
(***************************************************************************)
THEOREM Invariance == Spec => []IInv
  <1>1. IInv /\ [Next]_vars => IInv'
    <2> SUFFICES ASSUME IInv, [Next]_vars PROVE IInv'
      OBVIOUS
    <2>1. CASE ProcessDhcp \/ FreeHolder \/ SecondPasses
      BY <2>1, ProcessKeepsIInv
    <2>2. CASE Retry
      BY <2>2, RetryKeepsIInv
    <2>3. CASE LinkStateUp \/ LinkStateDown
      BY <2>3, LinkKeepsIInv
    <2>4. CASE BeginDhcp
      BY <2>4, BeginKeepsIInv
    <2>5. CASE HandleDhcp
      BY <2>5, HandleKeepsIInv
    <2>6. CASE \E s \in Servers : Offer(s) \/ Answer(s)
      BY <2>6, ServersKeepIInv
    <2>7. CASE UNCHANGED vars
      BY <2>7 DEF vars, IInv, TypeOK, LockIsHonest, HolderIsCurrent, PacketsArePast,
                  RequestsNameTheChoice, AcksAnswerRequests, LinkUpMeansExchange, LeaseWasAcked
    <2> QED BY <2>1, <2>2, <2>3, <2>4, <2>5, <2>6, <2>7 DEF Next
  <1> QED BY InitIInv, <1>1, PTL DEF Spec

\* Type correctness of the DHCP client.
THEOREM TypeCorrect == Spec => []TypeOK
  BY Invariance, PTL DEF IInv

\* With the link up, an exchange is under way or has come to its own end.
THEOREM NoExchangeIsForgotten == Spec => []LinkUpMeansExchange
  BY Invariance, PTL DEF IInv

\* A lease is one its own server has acknowledged in this exchange.
THEOREM LeaseIsAcknowledged == Spec => []LeaseWasAcked
  BY Invariance, PTL DEF IInv
=============================================================================
