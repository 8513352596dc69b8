------------------------------ MODULE GameNet ------------------------------
(***************************************************************************)
(* How two consoles find each other: the session state machine gn_state    *)
(* (src/src/game_net.c) driven by the Host and Join screens of the multi-  *)
(* player menu (src/src/multi_menu.c), by the datagrams of the peer, and   *)
(* by the link state (src/src/networking.c).                               *)
(*                                                                         *)
(* The game thread runs one menu frame at a time; the receive thread runs  *)
(* only while the game thread waits for the next frame, so a frame and a   *)
(* handler do not interleave.  LinkStateDown runs on the RPC thread, which *)
(* preempts the receive thread: `down' in the handlers below.              *)
(*                                                                         *)
(* Datagrams are lost, duplicated and reordered: `net' keeps them all, and *)
(* any of them may be received any number of times or never.               *)
(***************************************************************************)
EXTENDS GameState

CONSTANTS Hosts, Joiners,   \* consoles that may open the Host, the Join screen
          BROADCAST, NONE,  \* 255.255.255.255, and an address never set
          MaxSeq,           \* bounds of the model: states a console sends in a session,
          MaxJoin,          \*   attempts to join,
          MaxHost,          \*   times a console hosts,
          MaxFlap           \*   times a link is lost

Consoles == Hosts \cup Joiners

ASSUME AddressAssumption == BROADCAST \notin Consoles /\ NONE \notin Consoles
ASSUME MaxSeqAssumption == MaxSeq \in Nat
ASSUME BoundAssumption == {MaxJoin, MaxHost, MaxFlap} \subseteq Nat

\* The menu: the screens of the game (2..4) and those the mod adds.
OUT     == 0
MPTYPE  == 10
HOST    == 11
JOIN    == 12
JOINING == 13
Menus   == {OUT, MPTYPE, HOST, JOIN, JOINING} \cup MenuScreens

GnStates == {"IDLE", "CONNECTING_ARP", "CONNECTING", "HOSTING", "CONNECTED"}

\* The port a host listens on; a joiner picks a new one for each attempt.
GAME_PORT == 0
Ports == 0 .. MaxJoin

VARIABLES
  con,    \* the state of each console, a record of the C globals
  net,    \* every datagram and ARP frame sent so far
  port,   \* the last source port picked by a joiner
  count,  \* how often each console hosted, links were lost: for the bounds
  met     \* history: <<joiner, port>> sessions each host has already entered

vars == <<con, net, port, count, met>>

StateOf == [seq : 0 .. MaxSeq, flags : Flags]

ConsoleStates ==
  [menu : Menus, mm_screen : MenuScreens, gn_state : GnStates,
   gn_remote_ip : Consoles \cup {BROADCAST, NONE}, gn_remote_port : Ports,
   gn_src_port : Ports, gn_our_playernum : {0, 1},
   our : StateOf, remote : StateOf, link_up : BOOLEAN, stale : BOOLEAN]

Types == {"ARP_REQUEST", "ARP_REPLY", "CONNECT", "ACK", "GAMESTATE", "FIN"}

Datagrams == [type : Types, src : Consoles, sport : Ports,
              dst : Consoles \cup {BROADCAST}, dport : Ports, state : StateOf]

TypeOK ==
  /\ con \in [Consoles -> ConsoleStates]
  /\ net \subseteq Datagrams
  /\ port \in Ports
  /\ count \in [host : [Consoles -> 0 .. MaxHost], flap : 0 .. MaxFlap]
  /\ met \in [Consoles -> SUBSET (Consoles \X Ports)]

NoState == [seq |-> 0, flags |-> {}]

Init ==
  /\ con = [c \in Consoles |->
              [menu |-> OUT, mm_screen |-> SONG_SCREEN, gn_state |-> "IDLE",
               gn_remote_ip |-> NONE, gn_remote_port |-> GAME_PORT,
               gn_src_port |-> GAME_PORT, gn_our_playernum |-> 0,
               our |-> NoState, remote |-> NoState, link_up |-> TRUE,
               stale |-> FALSE]]
  /\ net = {}
  /\ port = 0
  /\ count = [host |-> [c \in Consoles |-> 0], flap |-> 0]
  /\ met = [c \in Consoles |-> {}]

\* A datagram from c, in state s, to the peer that s names.
Datagram(type, c, s, state) ==
  [type |-> type, src |-> c, sport |-> s.gn_src_port,
   dst |-> s.gn_remote_ip, dport |-> s.gn_remote_port, state |-> state]

ArpFrame(type, c, dst) ==
  [type |-> type, src |-> c, sport |-> 0, dst |-> dst, dport |-> 0, state |-> NoState]

\* A frame that leaves while the link is down is gone.
Transmit(s, p) == net' = IF s.link_up THEN net \cup {p} ELSE net

-----------------------------------------------------------------------------
(***************************************************************************)
(* send_game_state, at the end of every menu frame, on the state `s' the   *)
(* frame has made.  Nothing is sent when no buffer is free, or, while      *)
(* connecting, within a second of the last attempt.                        *)
(***************************************************************************)
AfterFlags(s, pressed) ==
  LET open == s.mm_screen = SONG_SCREEN
      seen == s.remote.flags
  IN  [s EXCEPT
        !.our.flags = FrameFlags(@, seen, s.gn_our_playernum, open, pressed),
        !.gn_our_playernum = FramePlayer(seen, @, open, pressed)]

SendInSession(c, s) ==
  /\ s.gn_state = "CONNECTED"
  /\ \E pressed \in BOOLEAN :
       LET t == AfterFlags(s, pressed)
           u == [t EXCEPT !.our.seq = @ + 1]
       IN  \/ /\ con' = [con EXCEPT ![c] = t]
              /\ UNCHANGED net
           \/ /\ s.our.seq < MaxSeq
              /\ con' = [con EXCEPT ![c] = u]
              /\ Transmit(s, Datagram("GAMESTATE", c, u, u.our))

SendWhileJoining(c, s) ==
  /\ con' = [con EXCEPT ![c] = s]
  /\ \/ /\ s.gn_state = "CONNECTING_ARP"
        /\ Transmit(s, ArpFrame("ARP_REQUEST", c, s.gn_remote_ip))
     \/ /\ s.gn_state = "CONNECTING"
        /\ Transmit(s, Datagram("CONNECT", c, s, NoState))
     \/ /\ s.gn_state # "CONNECTED"
        /\ UNCHANGED net

SendGameState(c, s) == SendInSession(c, s) \/ SendWhileJoining(c, s)

\* hMultiMenuHandleScreen: what the screen does, mm_screen, send_game_state.
Frame(c, s) ==
  /\ SendGameState(c, IF s.menu \in MenuScreens /\ s.gn_state = "CONNECTED"
                      THEN [s EXCEPT !.mm_screen = s.menu] ELSE s)
  /\ UNCHANGED met

\* From the main menu to the screen with Host, Join and Couch.
EnterMenu(c) ==
  /\ con[c].menu = OUT
  /\ Frame(c, [con[c] EXCEPT !.menu = MPTYPE])
  /\ UNCHANGED <<port, count>>

ChooseHost(c) ==
  /\ c \in Hosts /\ con[c].menu = MPTYPE /\ count.host[c] < MaxHost
  /\ count' = [count EXCEPT !.host[c] = @ + 1]
  /\ Frame(c, [con[c] EXCEPT !.menu = HOST, !.gn_src_port = GAME_PORT,
                             !.gn_state = "HOSTING"])
  /\ UNCHANGED port

\* "Couch": the screens of the game, with the pads of this console.
ChooseCouch(c) ==
  /\ con[c].menu = MPTYPE
  /\ Frame(c, [con[c] EXCEPT !.menu = SONG_SCREEN])
  /\ UNCHANGED <<port, count>>

ChooseJoin(c) ==
  /\ c \in Joiners /\ con[c].menu = MPTYPE
  /\ Frame(c, [con[c] EXCEPT !.menu = JOIN])
  /\ UNCHANGED <<port, count>>

\* The Host screen: a session takes us to the song screen.
HostFrame(c) ==
  /\ con[c].menu = HOST
  /\ Frame(c, IF con[c].gn_state = "CONNECTED"
              THEN [con[c] EXCEPT !.menu = SONG_SCREEN] ELSE con[c])
  /\ UNCHANGED <<port, count>>

HostCancel(c) ==
  /\ con[c].menu = HOST /\ con[c].gn_state # "CONNECTED"
  /\ Frame(c, [con[c] EXCEPT !.menu = MPTYPE, !.gn_state = "IDLE"])
  /\ UNCHANGED <<port, count>>

\* X on the Join screen, with the address the player has dialled.
JoinConnect(c) ==
  /\ con[c].menu = JOIN /\ port < MaxJoin
  /\ port' = port + 1
  /\ \E target \in (Hosts \ {c}) \cup {BROADCAST} :
       Frame(c, [con[c] EXCEPT
                   !.menu = JOINING, !.gn_src_port = port', !.gn_remote_ip = target,
                   !.gn_remote_port = GAME_PORT,
                   !.gn_state = IF target = BROADCAST THEN "CONNECTING"
                                                      ELSE "CONNECTING_ARP"])
  /\ UNCHANGED count

JoinBack(c) ==
  /\ con[c].menu = JOIN
  /\ Frame(c, [con[c] EXCEPT !.menu = MPTYPE])
  /\ UNCHANGED <<port, count>>

\* The Connecting screen, with the same exits as the Host screen.
JoiningFrame(c) ==
  /\ con[c].menu = JOINING
  /\ Frame(c, IF con[c].gn_state = "CONNECTED"
              THEN [con[c] EXCEPT !.menu = SONG_SCREEN] ELSE con[c])
  /\ UNCHANGED <<port, count>>

JoiningCancel(c) ==
  /\ con[c].menu = JOINING /\ con[c].gn_state # "CONNECTED"
  /\ Frame(c, [con[c] EXCEPT !.menu = JOIN, !.gn_state = "IDLE"])
  /\ UNCHANGED <<port, count>>

(***************************************************************************)
(* The screens of the game.  In a session the pad of this console drives   *)
(* the slot of its player number, and slot 0 alone moves the screens; the  *)
(* console that is Player 2 follows the screen its peer reports, which is  *)
(* any of them.                                                            *)
(***************************************************************************)
SelectFrame(c) ==
  /\ con[c].menu \in MenuScreens
  /\ \E screen \in MenuScreens : Frame(c, [con[c] EXCEPT !.menu = screen])
  /\ UNCHANGED <<port, count>>

\* hMultiMenuLoop returns 0: the FIN is sent once, then the state is dropped.
LeaveMenu(c) ==
  LET s == con[c]
      t == [s EXCEPT !.our.seq = @ + 1]
      left(u) == [u EXCEPT !.menu = OUT, !.gn_state = "IDLE"]
  IN  /\ s.menu \in MenuScreens \cup {MPTYPE}
      /\ s.gn_state = "CONNECTED" => s.gn_our_playernum = 0
      /\ \/ /\ s.gn_state = "CONNECTED" /\ s.our.seq < MaxSeq
            /\ con' = [con EXCEPT ![c] = left(t)]
            /\ Transmit(s, Datagram("FIN", c, t, t.our))
         \/ /\ con' = [con EXCEPT ![c] = left(s)]
            /\ UNCHANGED net
      /\ UNCHANGED <<port, count, met>>

-----------------------------------------------------------------------------
(***************************************************************************)
(* The receive thread: EnQRxPacket, HandleArp, HandleIp, HandleUdpGameNet. *)
(***************************************************************************)
\* Mutant of ForUs: datagrams to the broadcast address are dropped.
ForUsUnicast(c, p) == p.src # c /\ p.dst = c

ForUs(c, p) == p.src # c /\ p.dst \in {c, BROADCAST}

\* Mutants of EnterSession: it keeps the player number of the last session, it
\* keeps the last state of the peer.
EnterSessionAsBefore(s, p, player) ==
  [s EXCEPT !.gn_remote_ip = p.src, !.gn_remote_port = p.sport,
            !.gn_src_port = p.dport, !.gn_state = "CONNECTED",
            !.mm_screen = SONG_SCREEN, !.our = NoState, !.remote = NoState]
EnterSessionNoReset(s, p, player) ==
  [s EXCEPT !.gn_remote_ip = p.src, !.gn_remote_port = p.sport,
            !.gn_src_port = p.dport, !.gn_state = "CONNECTED",
            !.gn_our_playernum = player, !.mm_screen = SONG_SCREEN,
            !.our = NoState]

\* reset_game_net, and the assignments on either side of it.
EnterSession(s, p, player) ==
  [s EXCEPT !.gn_remote_ip = p.src, !.gn_remote_port = p.sport,
            !.gn_src_port = p.dport, !.gn_state = "CONNECTED",
            !.gn_our_playernum = player, !.mm_screen = SONG_SCREEN,
            !.our = NoState, !.remote = NoState]

\* The part of HandleUdpGameNet for a console in a session.
InSession(s, p) ==
  IF /\ s.gn_state = "CONNECTED"
     /\ p.sport = s.gn_remote_port /\ p.dport = s.gn_src_port
     /\ p.src = s.gn_remote_ip
  THEN CASE p.type = "GAMESTATE" /\ p.state.seq > s.remote.seq
              -> [s EXCEPT !.remote = p.state]
         [] p.type = "FIN" -> [s EXCEPT !.gn_state = "IDLE"]
         [] OTHER -> s
  ELSE s

\* LinkStateDown, on the RPC thread.
LinkLost(s) == [s EXCEPT !.link_up = FALSE, !.gn_state = "IDLE"]

Drop == count.flap < MaxFlap /\ count' = [count EXCEPT !.flap = @ + 1]

(***************************************************************************)
(* The handlers test gn_state and then store into it.  With `down' the     *)
(* link goes down in between; what is stored afterwards overwrites the     *)
(* GN_IDLE of LinkStateDown.                                               *)
(***************************************************************************)
Interrupted(down) ==
  IF down THEN Drop ELSE UNCHANGED count
Seen(s, down) == IF down THEN LinkLost(s) ELSE s

\* Mutant of HandleConnect: the host enters the session without waiting for
\* the joiner's first state, even when it had no buffer for the ACK.
HandleConnectEagerly(c) ==
  \E p \in net :
    LET s == con[c]
        t == EnterSession(s, p, 0)
    IN  /\ ForUs(c, p) /\ p.type = "CONNECT" /\ s.link_up
        /\ s.gn_state = "HOSTING" /\ p.dport = GAME_PORT
        /\ con' = [con EXCEPT ![c] = t]
        /\ \/ UNCHANGED net
           \/ Transmit(t, Datagram("ACK", c, t, NoState))
        /\ UNCHANGED <<port, count, met>>

\* A host answers a CONNECT, and remembers its sender; it stays a host.  The
\* seq_num it counts up here is reset with the session: at the bound it stays.
HandleConnect(c) ==
  \E p \in net, down \in BOOLEAN :
    LET s == con[c]
        t == [Seen(s, down) EXCEPT
                !.gn_remote_ip = p.src, !.gn_remote_port = p.sport,
                !.gn_src_port = p.dport]
        u == [t EXCEPT !.our.seq = IF @ < MaxSeq THEN @ + 1 ELSE @]
    IN  /\ ForUs(c, p) /\ p.type = "CONNECT" /\ s.link_up
        /\ s.gn_state = "HOSTING" /\ p.dport = GAME_PORT
        /\ Interrupted(down)
        /\ \/ /\ con' = [con EXCEPT ![c] = t]
              /\ UNCHANGED net
           \/ /\ con' = [con EXCEPT ![c] = u]
              /\ Transmit(t, Datagram("ACK", c, u, NoState))
        /\ UNCHANGED <<port, met>>

\* The first game state of the joiner makes the host enter the session.
HandleFirstState(c) ==
  \E p \in net, down \in BOOLEAN :
    LET s == con[c]
        session == <<p.src, p.sport>>
    IN  /\ ForUs(c, p) /\ p.type = "GAMESTATE" /\ s.link_up
        /\ s.gn_state = "HOSTING" /\ p.dport = GAME_PORT
        /\ p.src = s.gn_remote_ip
        /\ Interrupted(down)
        /\ con' = [con EXCEPT ![c] =
                     [InSession(EnterSession(Seen(s, down), p, 0), p)
                        EXCEPT !.stale = session \in met[c]]]
        /\ met' = [met EXCEPT ![c] = @ \cup {session}]
        /\ UNCHANGED <<net, port>>

\* The ACK of the host makes the joiner enter the session.
HandleAck(c) ==
  \E p \in net, down \in BOOLEAN :
    LET s == con[c]
    IN  /\ ForUs(c, p) /\ p.type = "ACK" /\ s.link_up
        /\ s.gn_state = "CONNECTING"
        /\ p.sport = s.gn_remote_port /\ p.dport = s.gn_src_port
        /\ s.gn_remote_ip = BROADCAST \/ p.src = s.gn_remote_ip
        /\ Interrupted(down)
        /\ con' = [con EXCEPT ![c] =
                     [EnterSession(Seen(s, down), p, 1) EXCEPT !.stale = FALSE]]
        /\ UNCHANGED <<net, port, met>>

\* A datagram for the session we are in.
HandleInSession(c) ==
  \E p \in net :
    /\ ForUs(c, p) /\ p.type \in {"GAMESTATE", "FIN"} /\ con[c].link_up
    /\ con[c].gn_state = "CONNECTED"
    /\ InSession(con[c], p) # con[c]
    /\ con' = [con EXCEPT ![c] = InSession(@, p)]
    /\ UNCHANGED <<net, port, count, met>>

\* HandleArp, a request: any console with an address answers.
HandleArpRequest(c) ==
  \E p \in net :
    /\ p.type = "ARP_REQUEST" /\ p.dst = c /\ con[c].link_up
    /\ Transmit(con[c], ArpFrame("ARP_REPLY", c, p.src))
    /\ UNCHANGED <<con, port, count, met>>

\* HandleArp, a reply: the hardware address of the host is known.
HandleArpReply(c) ==
  \E p \in net, down \in BOOLEAN :
    LET s == con[c]
    IN  /\ p.type = "ARP_REPLY" /\ p.dst = c /\ s.link_up
        /\ p.src = s.gn_remote_ip /\ s.gn_state = "CONNECTING_ARP"
        /\ Interrupted(down)
        /\ con' = [con EXCEPT ![c] = [Seen(s, down) EXCEPT !.gn_state = "CONNECTING"]]
        /\ UNCHANGED <<net, port, met>>

LinkStateDown(c) ==
  /\ con[c].link_up
  /\ con' = [con EXCEPT ![c] = LinkLost(@)]
  /\ Drop
  /\ UNCHANGED <<net, port, met>>

LinkStateUp(c) ==
  /\ ~con[c].link_up
  /\ con' = [con EXCEPT ![c].link_up = TRUE]
  /\ UNCHANGED <<net, port, count, met>>

-----------------------------------------------------------------------------
MenuStep(c) ==
  \/ EnterMenu(c)  \/ ChooseHost(c)  \/ ChooseJoin(c)    \/ ChooseCouch(c)
  \/ HostFrame(c)  \/ HostCancel(c)  \/ JoinConnect(c)   \/ JoinBack(c)
  \/ JoiningFrame(c) \/ JoiningCancel(c) \/ SelectFrame(c) \/ LeaveMenu(c)

Handle(c) ==
  \/ HandleConnect(c) \/ HandleFirstState(c) \/ HandleAck(c) \/ HandleInSession(c)
  \/ HandleArpRequest(c) \/ HandleArpReply(c)

Next == \E c \in Consoles :
          MenuStep(c) \/ Handle(c) \/ LinkStateDown(c) \/ LinkStateUp(c)

Spec == Init /\ [][Next]_vars

(***************************************************************************)
(* The menu loop runs every frame and finds a transmit buffer again and    *)
(* again; of what is sent again and again, something arrives, and is       *)
(* handled whole.  Players who press nothing are not assumed to.           *)
(***************************************************************************)
Fairness ==
  \A c \in Consoles :
    /\ WF_vars((HostFrame(c) \/ JoiningFrame(c) \/ SelectFrame(c)) /\ net' # net)
    /\ WF_vars(HostFrame(c) /\ con'[c].menu = SONG_SCREEN)
    /\ WF_vars(JoiningFrame(c) /\ con'[c].menu = SONG_SCREEN)
    /\ WF_vars(HandleConnect(c) /\ net' # net)
    /\ WF_vars(HandleFirstState(c)) /\ WF_vars(HandleAck(c))
    /\ WF_vars(HandleArpRequest(c)) /\ WF_vars(HandleArpReply(c))

FairSpec == Spec /\ Fairness

-----------------------------------------------------------------------------
\* h and j are in a session with each other, h as the one that hosted.
Paired(h, j) ==
  /\ h # j
  /\ con[h].gn_state = "CONNECTED" /\ con[j].gn_state = "CONNECTED"
  /\ con[h].gn_remote_ip = j /\ con[j].gn_remote_ip = h
  /\ con[h].gn_remote_port = con[j].gn_src_port
  /\ con[j].gn_remote_port = con[h].gn_src_port
  /\ con[h].gn_src_port = GAME_PORT

(***************************************************************************)
(* A session entered for the first time by its host has at most one Player *)
(* 1, through hand-overs, cancelled attempts, lost links and datagrams of  *)
(* earlier attempts that arrive late.                                      *)
(***************************************************************************)
OneMaster ==
  \A h, j \in Consoles : Paired(h, j) /\ ~con[h].stale =>
    ~(con[h].gn_our_playernum = 0 /\ con[j].gn_our_playernum = 0)

(***************************************************************************)
(* In such a session neither side has accepted a state from its peer's     *)
(* future: the peer's next state will be newer, and not be dropped by the  *)
(* seq_num test.                                                           *)
(***************************************************************************)
SeqInSync ==
  \A h, j \in Consoles : Paired(h, j) /\ ~con[h].stale =>
    /\ con[h].remote.seq <= con[j].our.seq
    /\ con[j].remote.seq <= con[h].our.seq

(***************************************************************************)
(* A host only enters a session with a joiner that it has acknowledged at  *)
(* that port: a game state alone, from whoever, opens nothing.             *)
(***************************************************************************)
SessionWasAcked ==
  \A h \in Consoles :
    con[h].gn_state = "CONNECTED" /\ con[h].gn_src_port = GAME_PORT =>
      \E p \in net : /\ p.type = "ACK" /\ p.src = h
                     /\ p.dst = con[h].gn_remote_ip /\ p.dport = con[h].gn_remote_port

(***************************************************************************)
(* A host that keeps its Host screen open and a joiner that keeps trying   *)
(* end up in a session with each other, unless a player cancels, the link  *)
(* goes down (netgitaroo-patcher.html: press X to begin connecting), or a  *)
(* late game state of an earlier attempt of the joiner has put the host    *)
(* into a session with the port of that attempt.                           *)
(***************************************************************************)
Trying(h, j) ==
  /\ con[h].menu = HOST /\ con[h].gn_state = "HOSTING" /\ con[h].link_up
  /\ con[j].menu = JOINING /\ con[j].gn_remote_ip \in {h, BROADCAST} /\ con[j].link_up
  /\ con[j].gn_state \in {"CONNECTING_ARP", "CONNECTING"}

GaveUp(h, j) == \/ ~con[h].link_up \/ ~con[j].link_up
                \/ con[h].menu \notin {HOST, SONG_SCREEN}
                \/ con[j].menu \notin {JOINING, SONG_SCREEN}

Taken(h, j) == con[h].gn_state = "CONNECTED" /\ con[h].gn_remote_port # con[j].gn_src_port

HandshakeCompletes ==
  \A h \in Hosts, j \in Joiners :
    h # j => (Trying(h, j) ~> (Paired(h, j) \/ GaveUp(h, j) \/ Taken(h, j)))

(***************************************************************************)
(* netgitaroo-patcher.html:80: unplugging the network cable ends the       *)
(* connection.                                                             *)
(***************************************************************************)
UnplugEnds ==
  \A c \in Consoles : con[c].gn_state = "CONNECTED" => con[c].link_up
=============================================================================
