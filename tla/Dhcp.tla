-------------------------------- MODULE Dhcp --------------------------------
(***************************************************************************)
(* The DHCP client (src/src/networking.c 23-231) of one console between    *)
(* several servers.                                                        *)
(*                                                                         *)
(* Three threads run it: LinkStateUp and LinkStateDown are called on the   *)
(* RPC thread, the most urgent of the three; process_dhcp is called by the *)
(* game thread every frame and by the receive thread after every packet.   *)
(* dhcp_sema guards dhcp_holder but not link_up, which the RPC thread      *)
(* stores while another thread may be between its test in _process_dhcp    *)
(* and what it does about it: `lock' holds the outcome of that test.       *)
(*                                                                         *)
(* A server's address and the address it leases have one name.  Packets    *)
(* are lost, repeated and reordered: `net' keeps them all.                 *)
(***************************************************************************)
EXTENDS Naturals

CONSTANTS Servers,
          ANY, BROADCAST,  \* 0.0.0.0, and the broadcast addresses
          MaxRetries,      \* 20 in the code
          MaxExchange,     \* bounds of the model: exchanges begun,
          MaxFlap          \*   times the link is reported up or down

ASSUME ServersAssumption == ANY \notin Servers /\ BROADCAST \notin Servers
ASSUME BoundAssumption == MaxRetries \in Nat /\ MaxExchange \in Nat /\ MaxFlap \in Nat

VARIABLES
  holder,     \* *dhcp_holder; in state "NULL" there is none
  our_ip,
  link_up,
  lock,       \* dhcp_sema: "free", or held by a thread that found link_up "up" or "down"
  rpc,        \* the RPC thread: "idle", or about to "begin" in LinkStateUp
  net,        \* every DHCP packet sent so far
  exchanges,  \* the number of exchanges so far, and the xid of the last
  flaps,      \* how often the link was reported up or down: for the bound
  outcome     \* history: what became of the last exchange

vars == <<holder, our_ip, link_up, lock, rpc, net, exchanges, flaps, outcome>>

Xids == 0 .. MaxExchange

\* States 0 and 2 of struct dhcp_state; `due' says that a second has passed
\* since last_req_time.
Holders ==
  [state : {"NULL", "DISCOVER", "REQUEST"}, xid : Xids, retries : Nat,
   due : BOOLEAN, ip : Servers \cup {BROADCAST}, hw : Servers \cup {BROADCAST}]

\* What the console sends, and what the servers answer.
Requests == [type : {"DISCOVER", "REQUEST"}, xid : Xids,
             ip : Servers \cup {BROADCAST}, hw : Servers \cup {BROADCAST}]
Replies  == [type : {"OFFER", "ACK", "NACK"}, xid : Xids, src : Servers]

TypeOK ==
  /\ holder \in Holders
  /\ our_ip \in Servers \cup {ANY}
  /\ link_up \in BOOLEAN
  /\ lock \in {"free", "up", "down"}
  /\ rpc \in {"idle", "begin"}
  /\ net \subseteq Requests \cup Replies
  /\ exchanges \in Xids
  /\ flaps \in 0 .. MaxFlap
  /\ outcome \in {"none", "trying", "leased", "failed", "dropped"}

Fresh(x) == [state |-> "DISCOVER", xid |-> x, retries |-> 0, due |-> TRUE,
             ip |-> BROADCAST, hw |-> BROADCAST]
Freed    == [Fresh(0) EXCEPT !.state = "NULL"]

Init ==
  /\ holder = Freed
  /\ our_ip = ANY
  /\ link_up = FALSE
  /\ lock = "free" /\ rpc = "idle"
  /\ net = {}
  /\ exchanges = 0 /\ flaps = 0
  /\ outcome = "none"

\* A thread less urgent than the RPC thread runs while that one sleeps, or
\* waits for dhcp_sema.
Preempted == rpc = "begin" /\ lock = "free"

Tested == IF link_up THEN "up" ELSE "down"

-----------------------------------------------------------------------------
(***************************************************************************)
(* _process_dhcp on the holder h, from the look at the clock on.  Without  *)
(* a packet buffer it returns and leaves the retry for the next call.      *)
(***************************************************************************)
Request(h) == [type |-> h.state, xid |-> h.xid, ip |-> h.ip, hw |-> h.hw]

\* Mutant: what has been sent is not counted.
ResendUncounted(h) ==
  \/ /\ ~h.due
     /\ holder' = h
     /\ UNCHANGED <<net, outcome>>
  \/ /\ h.due
     /\ holder' = [h EXCEPT !.due = FALSE]
     /\ net' = IF link_up' THEN net \cup {Request(h)} ELSE net
     /\ UNCHANGED outcome

Resend(h) ==
  \/ /\ ~h.due
     /\ holder' = h
     /\ UNCHANGED <<net, outcome>>
  \/ /\ h.due /\ h.retries > MaxRetries
     /\ holder' = Freed /\ outcome' = "failed"
     /\ UNCHANGED net
  \/ /\ h.due /\ h.retries <= MaxRetries
     /\ \/ /\ holder' = [h EXCEPT !.retries = @ + 1, !.due = FALSE]
           /\ net' = IF link_up' THEN net \cup {Request(h)} ELSE net
        \/ holder' = h /\ UNCHANGED net
     /\ UNCHANGED outcome

\* process_dhcp, up to the test of link_up.
ProcessDhcp ==
  /\ ~Preempted /\ lock = "free"
  /\ holder.state # "NULL"
  /\ lock' = Tested
  /\ UNCHANGED <<holder, our_ip, link_up, rpc, net, exchanges, flaps, outcome>>

FreeHolder ==
  /\ lock = "down"
  /\ holder' = Freed /\ outcome' = "dropped"
  /\ lock' = "free"
  /\ UNCHANGED <<our_ip, link_up, rpc, net, exchanges, flaps>>

Retry ==
  /\ lock = "up"
  /\ UNCHANGED <<our_ip, link_up, rpc, exchanges, flaps>>
  /\ Resend(holder)
  /\ lock' = "free"

\* A second passes.  ps2_clock may also be off by one overflow of its
\* counter, which only makes this happen sooner.
SecondPasses ==
  /\ holder.state # "NULL" /\ ~holder.due
  /\ holder' = [holder EXCEPT !.due = TRUE]
  /\ UNCHANGED <<our_ip, link_up, lock, rpc, net, exchanges, flaps, outcome>>

-----------------------------------------------------------------------------
\* Also called when the link is up already: once by the registration of the
\* stack and once by the adaptor's own report.
LinkStateUp ==
  /\ rpc = "idle" /\ flaps < MaxFlap
  /\ link_up' = TRUE
  /\ rpc' = "begin"
  /\ flaps' = flaps + 1
  /\ UNCHANGED <<holder, our_ip, lock, net, exchanges, outcome>>

\* Mutant: begin_dhcp does not wait for dhcp_sema.
BeginDhcpAtOnce ==
  /\ rpc = "begin"
  /\ rpc' = "idle"
  /\ UNCHANGED <<link_up, lock, flaps>>
  /\ \/ /\ holder.state # "NULL"
        /\ UNCHANGED <<holder, our_ip, net, exchanges, outcome>>
     \/ /\ holder.state = "NULL" /\ exchanges < MaxExchange
        /\ exchanges' = exchanges + 1
        /\ our_ip' = ANY
        /\ outcome' = "trying"
        /\ holder' = Fresh(exchanges + 1) /\ UNCHANGED net

\* begin_dhcp with the _process_dhcp at its end: link_up is TRUE, for only
\* this thread stores it.
BeginDhcp ==
  /\ rpc = "begin" /\ lock = "free"
  /\ rpc' = "idle"
  /\ UNCHANGED <<link_up, lock, flaps>>
  /\ \/ /\ holder.state # "NULL"
        /\ UNCHANGED <<holder, our_ip, net, exchanges, outcome>>
     \/ /\ holder.state = "NULL" /\ exchanges < MaxExchange
        /\ exchanges' = exchanges + 1
        /\ our_ip' = ANY
        /\ outcome' = "trying"
        /\ \/ /\ holder' = [Fresh(exchanges + 1) EXCEPT !.retries = 1, !.due = FALSE]
              /\ net' = net \cup {Request(Fresh(exchanges + 1))}
           \/ holder' = Fresh(exchanges + 1) /\ UNCHANGED net

LinkStateDown ==
  /\ rpc = "idle" /\ flaps < MaxFlap
  /\ link_up' = FALSE
  /\ flaps' = flaps + 1
  /\ UNCHANGED <<holder, our_ip, lock, rpc, net, exchanges, outcome>>

-----------------------------------------------------------------------------
(***************************************************************************)
(* HandleDhcp on the receive thread: a reply with the xid of the exchange. *)
(* The sender of any such reply becomes the destination of what follows,   *)
(* and _process_dhcp ends it except after an ACK.                          *)
(***************************************************************************)
Expected(m) ==
  /\ ~Preempted /\ lock = "free"
  /\ holder.state # "NULL" /\ m.xid = holder.xid

\* Mutant: an offer that comes after the choice replaces it.
HandleOfferAnytime(m) ==
  /\ Expected(m) /\ m.type = "OFFER"
  /\ our_ip' = m.src
  /\ holder' = [holder EXCEPT !.state = "REQUEST", !.hw = m.src, !.ip = m.src,
                              !.retries = 0, !.due = TRUE]
  /\ lock' = Tested
  /\ UNCHANGED <<link_up, rpc, net, exchanges, flaps, outcome>>

HandleOffer(m) ==
  /\ Expected(m) /\ m.type = "OFFER" /\ holder.state = "DISCOVER"
  /\ our_ip' = m.src
  /\ holder' = [holder EXCEPT !.state = "REQUEST", !.hw = m.src, !.ip = m.src,
                              !.retries = 0, !.due = TRUE]
  /\ lock' = Tested
  /\ UNCHANGED <<link_up, rpc, net, exchanges, flaps, outcome>>

HandleAck(m) ==
  /\ Expected(m) /\ m.type = "ACK" /\ holder.state = "REQUEST"
  /\ holder' = Freed /\ outcome' = "leased"
  /\ UNCHANGED <<our_ip, link_up, lock, rpc, net, exchanges, flaps>>

HandleNack(m) ==
  /\ Expected(m) /\ m.type = "NACK" /\ holder.state = "REQUEST"
  /\ exchanges < MaxExchange
  /\ exchanges' = exchanges + 1
  /\ holder' = Fresh(exchanges + 1)
  /\ our_ip' = ANY
  /\ lock' = Tested
  /\ UNCHANGED <<link_up, rpc, net, flaps, outcome>>

HandleOther(m) ==
  /\ Expected(m)
  /\ \/ m.type = "OFFER" /\ holder.state = "REQUEST"
     \/ m.type \in {"ACK", "NACK"} /\ holder.state = "DISCOVER"
  /\ holder' = [holder EXCEPT !.hw = m.src]
  /\ lock' = Tested
  /\ UNCHANGED <<our_ip, link_up, rpc, net, exchanges, flaps, outcome>>

-----------------------------------------------------------------------------
\* The servers: each offers its address to every DISCOVER, and answers a
\* REQUEST that reaches its adaptor and names it.
Reply(type, s, x) == [type |-> type, xid |-> x, src |-> s]

Offer(s) ==
  /\ \E m \in net : m.type = "DISCOVER" /\ net' = net \cup {Reply("OFFER", s, m.xid)}
  /\ UNCHANGED <<holder, our_ip, link_up, lock, rpc, exchanges, flaps, outcome>>

Answer(s) ==
  /\ \E m \in net :
       /\ m.type = "REQUEST" /\ m.hw = s /\ m.ip = s
       /\ \E type \in {"ACK", "NACK"} : net' = net \cup {Reply(type, s, m.xid)}
  /\ UNCHANGED <<holder, our_ip, link_up, lock, rpc, exchanges, flaps, outcome>>

HandleDhcp ==
  \E m \in net : HandleOffer(m) \/ HandleAck(m) \/ HandleNack(m) \/ HandleOther(m)

Next ==
  \/ ProcessDhcp \/ FreeHolder \/ Retry \/ SecondPasses
  \/ LinkStateUp \/ BeginDhcp \/ LinkStateDown
  \/ HandleDhcp
  \/ \E s \in Servers : Offer(s) \/ Answer(s)

Spec == Init /\ [][Next]_vars

(***************************************************************************)
(* hFrameWait calls process_dhcp every frame, the clock runs, threads that *)
(* hold or wait for dhcp_sema go on, and a packet buffer is found again    *)
(* and again.  Nothing is assumed of the servers, the network or the link. *)
(***************************************************************************)
Fairness ==
  /\ WF_vars(ProcessDhcp) /\ WF_vars(FreeHolder) /\ WF_vars(BeginDhcp)
  /\ WF_vars(Retry) /\ SF_vars(Retry /\ holder' # holder)
  /\ WF_vars(SecondPasses)

FairSpec == Spec /\ Fairness

-----------------------------------------------------------------------------
(***************************************************************************)
(* With the link up, an exchange is under way or has come to its own end:  *)
(* begin_dhcp never takes an exchange for running that the game thread is  *)
(* about to free because it saw the link down.  Otherwise the console      *)
(* would be without an address until the next unplugging.                  *)
(***************************************************************************)
LinkUpMeansExchange ==
  link_up /\ rpc = "idle" /\ holder.state = "NULL" => outcome \in {"leased", "failed"}

(***************************************************************************)
(* An exchange ends as a success only on an acknowledgement, of this       *)
(* exchange, from the server whose address the console uses, however late  *)
(* the offers of other servers and the replies to earlier exchanges come.  *)
(***************************************************************************)
LeaseWasAcked ==
  outcome = "leased" => \E m \in net : m = Reply("ACK", our_ip, exchanges)

(***************************************************************************)
(* Each exchange ends (lease, refusal, 20 retries without an answer, or    *)
(* link down), and does not retry for ever.                                *)
(***************************************************************************)
ExchangeEnds ==
  \A x \in Xids \ {0} :
    (holder.state # "NULL" /\ holder.xid = x) ~> ~(holder.state # "NULL" /\ holder.xid = x)
=============================================================================
