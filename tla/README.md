# NetGitaroo: specifications, model checking and proofs

NetGitaroo adds network play to a PlayStation 2 game. It hooks functions of the
game (`src/src`), carries a small UDP/IP stack on the main processor (EE), and
uses modified copies of the NETMAN libraries, one on the EE (`src/netman`) and
one on the I/O processor (IOP, `src/netman_iop`), to reach the network adaptor.
This directory holds TLA+ specifications of its concurrent and distributed
parts, TLC configurations that check them on small instances, and proofs,
checked by TLAPS, of what matters most for instances of any size.

Contents: 1 the system, 2 the order of the work, 3 the modules, 4 the runs,
5 fairness, 6 the proofs, 7 what is not shown.

## 1. The system

| Component | Code | State | Operations |
|---|---|---|---|
| Session and menus | `game_net.c`, `multi_menu.c` | `gn_state`, the peer's address and ports, our player number, `our_game_state`, `remote_game_state`, the menu screen, the address being entered | host, join, enter an address digit by digit, cancel, connect, acknowledge, send a state every frame, leave (FIN), link up and down |
| Hand-over of Player 1 | `game_net.c` 297-318, 449-456 | two bits in each state, the player numbers | offer, accept, settle |
| Rounds | `game_net.c` 25-295 | `in_game`, `gn_ingame`, `gn_tryagain`, the try-again cursor, hit counters, damage, cues | start and load a stage, wait for the peer, play, try again or go back |
| Packet stack, transmit | `networking.c` 420-550, `netman/src/rpc_client.c` 190-290 | pool of packet buffers, queue, `IsProcessingTx` | take a buffer (or displace a packet), queue it, wake the thread, send, dequeue |
| Packet stack, receive | `networking.c` 233-417 | receive buffers, queue | take a buffer, check and deliver ARP, IP, UDP |
| DHCP client | `networking.c` 23-220 | lease, server, phase | discover, request, retry |
| EE to IOP ring | `netman/src/rpc_client.c`, `netman_iop/src/rpc_server.c` | slots, lengths on both sides, two pointers | transfer a frame, announce it, send it, clear its slot |
| IOP to EE ring | `netman_iop/src/rpc_client.c`, `netman/src/rpc_server.c` | the same in the other direction, a group under construction, an alarm | collect frames, flush, receive, release |
| NETMAN registry and RPC | `netman*/src/netman.c`, `rpc_*.c` | registered interface and stack, link state | register, query, link up and down |
| Frame wait | `loader.c`, `game_net.c` 212-233 | `frame_wait_status`, the waiting thread, kernel wakeups, alarms | wait for a frame, wake |
| Clock, logging, hooks, SIF utilities | `time.c`, `logging.c`, `hook.c`, `util.c` | tick count and overflows; none; patched words; RPC lists | |
| Patcher, build utilities, nettest | `final-patcher`, `utils`, `nettest` | none at run time of the mod | |

How they interact. The game thread runs one frame at a time. At its end
`send_game_state` fills a packet buffer and queues it (priority `GAME`), and
`hFrameWait` puts the game thread to sleep until `FrameWaitThread`, of the
lowest priority, has seen the frame end. Meanwhile the transmit thread (priority
0x56) moves queued packets into the ring of the IOP, the RPC thread (0x57) takes
notifications of the IOP, among them link up and down, and the receive thread
(0x59) hands datagrams to `HandleUdpGameNet`. The EE has one processor and
schedules strictly by priority, so a thread is preempted only by a more urgent
one, but it gives way whenever it sleeps or waits for a semaphore.

What is hard, and what makes each part correct:

- *Two consoles over UDP* (session, hand-over, rounds). Datagrams are lost,
  repeated and reordered, nothing is acknowledged except through the next state,
  and attempts to join are repeated. Never two consoles that are both Player 1,
  and never none without an offer that can still be accepted; counters of a
  session in step; in the first stage of a session nobody plays before the other
  has loaded (in later ones the code does not keep this).
- *Threads on one console* (transmit queue, frame wait, rings). Wakeups are
  skipped when a flag says a thread is busy, are counted by the kernel, and go
  astray. No lost wakeup; no packet taken away while it is being sent; no packet
  lost from the pool.
- *Two processors* (rings). Data, status and notification are separate
  transfers, and flow control is a copy of the lengths of the other side. Frames
  in order, each once, never overwritten (towards the IOP only until the EE has
  overrun the ring, which nothing prevents).
- *The link going down or coming up in the middle of something*: of a handler
  of the session, of DHCP's look at the link, of the registration of the stack.
  A session ends with its link; no exchange is forgotten; the stack knows the
  state of the link when nothing is under way, except after one race of its
  registration, until the next report.
- *Menus drawn as groups of sprites over another program's menus*, with one
  index into two arrays: what is entered is what is shown.

`PROJECT.json` lists each hazard at its line with the properties that would
catch it going wrong.

## 2. The order of the work

The most important behaviour came first, and each module was written to be
proved about as well as run.

1. `Handover` with the abstract `PlayerOne`: the one protocol in the code in
   which two consoles must agree.
2. `GameNet`: how sessions come about and end, around the same operators
   (`GameState`).
3. `TxQueue`: the packet pool and transmit queue; `TxRing`: the ring to the IOP;
   `FrameWait`: the frame hand-off between threads.
4. `GameRound`: a stage from loading to the try-again screen; `AttackSync`: what
   the two players do to each other while it lasts.
5. `RxRing`: the ring from the IOP, with the pool of receive buffers
   (`FrameRing` has what the two rings share).
6. `Dhcp` and `NetIf`: how a console comes by its address and its link state.
7. `MultiMenu`: the screens the mod adds to the game.

What would come next is under 7.

## 3. The modules

**GameState** holds what one call of `send_game_state` does to the two hand-over
flags and the player number, as operators (`SettledFlags`, `Offers`,
`FrameFlags`, `FramePlayer`). `game_state.flags` is a set of the two bits it
uses for this. `Handover` and `GameNet` share them. Of the three menu screens,
the second behaves as the third and is left out.

**PlayerOne** is the abstract specification of the hand-over: one token, with a
holder, that is given away and taken.

**Handover** has two consoles in a session. `SendState` is a whole call of
`send_game_state` outside the `CONNECTING` states, inside the actions
`MenuFrame` (end of `hMultiMenuHandleScreen`, which stores the screen first) and
`StageFrame` (`hFrameWait`); a call that finds no packet buffer changes flags
and role but sends nothing, as in the code. `datagrams` keeps every state ever sent:
receiving one twice, late or never needs no action of its own. `Receive` is the
game-state branch of `HandleUdpGameNet` with its `seq_num` test. `turn` is a
history variable that counts changes of the own flags and travels with the
state; no guard reads it.

**GameNet** is the session state machine. `con[c]` is a record of the C globals
of console `c`. Each menu handler of `hMultiMenuHandleScreen` is an action and
ends with `SendGameState`, as the function does. Each branch of
`HandleUdpGameNet` and `HandleArp` is an action; its argument `down` lets
`LinkStateDown`, which runs at a higher priority, fall between the test of
`gn_state` and the assignments. Addresses are consoles, the broadcast address,
or `NONE`; the address of a gateway is not modelled (both consoles are on one
network, as with the broadcast default of the Join screen). A joiner's source
port is a number not used before: the code derives it from the clock.

**TxQueue**. `free` and `queue` are the linked lists of the pool and of the
queue as sequences, the free list last in, first out. `AllocTxPacket` is
`AllocFree`, `AllocSteal` (the last packet in the queue that is not on its way
and not more urgent gives way) and `AllocFails`; each is atomic because the code
disables interrupts. `AddTxPacket` queues, and `TestProcessing` and
`WakeTxThread` are the two steps in which a sender decides to wake the transmit
thread. The steps of `NETMAN_TxThread` are separate where it can be preempted or
waits. `AllocFails` is the call that finds no free buffer and none that gives
way: the code goes on with the variable `buf`, which it has not assigned.
`StaleRegister` is the set of values that may be left in it, and the run has
NULL and every buffer there. What follows from such a value is modelled (the
buffer is unlinked, filled, queued again), and the history `stale` records that
it has happened: the properties of the pool and the queue speak of the time
before, and `DequeuedWasSent` of what comes after.

**TxRing**. The EE side (`Wakeup`, `WaitForSpot`, `Transfer`, `TransferDone`),
the transfers (`DataArrives`, `HandleRxEvent`, `ClearArrives`) and the adaptor's
thread (`NextTxPacket`, `DeQTxPacket`). A frame's length is its number, since
the code only tests it for zero. The adaptor's driver is external and modelled
from the way `rpc_server.c` expects to be called. `length` is the IOP's copy of
the lengths, `eeLength` the one the EE waits for.

**RxRing**. On the IOP `EnQFrame` (with the test of `AllocRxPacket`; the adaptor
drops what finds no slot) and the alarm `FrameSendCB`, which may find no room
for its transfers and then leaves the last one marked. On the EE the interrupt
`EEHandleRxEvent` (`HandleRxEvent` of the EE), the steps of `NETMAN_RxThread`,
and `GiveBuffer`, the thread that registers the stack and gives each slot its
first buffer. `ReleaseArrives` is the end of a `ClearBufferLen`. The EE takes
interrupts at once: no thread steps while one is pending, which is what `DI` and
`EI` around the length test rely on. A transfer with `SIF_DMA_INT_O` stops the
channel until the handler lets it go on; other users of the channel interrupt
too.

**FrameWait**. `hFrameWait` and `FrameWaitThread` are cut at every read and
write of `frame_wait_status` and around `SleepThread`. Wakeups are counted up to
`MaxWakeups`, which stands for that number or more. `Barrier`, `Doze` and
`AlarmFires` are the sleeping loop of `hFinishLoading`, the source of wakeups
that arrive late.

**GameRound**. `where` says what runs on each console: the menus, loading, the
loop of `hFinishLoading`, the song, the try-again screen, and the way out of
`oMultiPlayerGame`. A state travels as `in_game` and whether `mm_ready` is 4.
Since `seq_num` makes each accepted state newer than the last, what is under way
is, for each direction, the sequence of different newer states, any of which may
be skipped. The game's own functions are external: the try-again screen obeys
the pad of Player 1 only, a direction before X in the same frame, and a song
lasts long enough for the states both consoles started it with to arrive
(`StageEnds`). Frames in which `send_game_state` changes nothing are stuttering
or a repeated send.

**AttackSync**. `hUpdatePlayerStatus` has a branch for the own player
(`UpdateOwnHit`, `UpdateOwn`) and one for the other (`UpdateRemote`). What the
game's own function does to the two players is external: `Effects` has a hit
that hurts the other, or costs or earns health. The counters of the code are the
model's reduced modulo `Width`; the model keeps the numbers themselves, and
reduces them where the code compares. `news[c]` are the states of console `c`
that the peer may still accept: the one it has, and the newer ones. Health and
damage are integers.

**Dhcp**. `BeginDhcp`, `ProcessDhcp` with its two outcomes, the four kinds of
reply, and the two link reports. `process_dhcp` is cut in two at the only place
where another thread matters: after the test of `link_up`, which is not under
`dhcp_sema`; `lock` holds what the test found. Whether a second has passed since
the last request is a condition that becomes true (`SecondPasses`) or not yet;
the clock's torn reads make it true early, which the model allows. A server's
address and the address it leases have one name. The boot thread's own report of
the link (`NetManRegisterNetworkStack` of the EE) is in `NetIf` only.

**NetIf** composes three parts: the registry of the IOP (`NetIFs`, `MainNetIF`),
the RPC that tells the EE the link state (`call`), and the boot of the EE
(`boot`), in which `InitConnection` sets the link mode, waits for the interface
to go down and registers the stack. `NetManIOSemaID` serialises the registry and
is held during the RPC and while a driver is unregistered, so the registry's
actions need that neither is under way (`Busy`). An unregistration is two steps:
`NetManUnregisterNetIF` clears the flags and deinitialises the driver, and in
`InterfaceIsGone` its event flag is deleted and another main interface is
chosen. In between (`leaving`) the interrupt of `HandleRxEvent` may come, whose
`NetManNetIFXmit` reads `MainNetIF` without the semaphore; reading changes
nothing, so it is an operator, and `MainServes` says of every state which driver
it would call.
Drivers register, leave and report at any time, also with the number of an
earlier registration. `raced` records the one case in which the boot thread
stores a link state that the RPC thread has just replaced.

**MultiMenu**. One action per screen of `hMultiMenuHandleScreen`, with the set
of buttons pressed. `shown` are the groups of sprites that are enabled, the
overlay of the exit screen among them, which the type menu and the way back from
the Host screen enable too; `fade` is how much it covers, in three degrees.
`JoinFrame`
is the digit entry: the index is moved (as a signed char) and used before it is
clamped, the digits of octets and port follow each other, and so do the bytes.
`want` is what the presses stand for. The game's own screens lead anywhere among
themselves; the network changes `gn_state` at any time.

**MCSessions** and **MCRings** put two modules side by side that share no
variable, so that one run explores both: of `GameNet` and `Handover` only one
leaves its initial state (a session is either brought about or lasts), and
frames go through one of the two rings at a time. A behaviour of both at once is
one of each; what the rings do share, the interrupt of the channel to the EE, is
`OtherSifEvent` of `RxRing`. **MCGameNet** gives `GameNet` its two consoles.

Definitions whose comment begins with "Mutant" are variants with a plausible
mistake. Nothing uses them; each shows, put in place of the definition it
varies, that a property can fail.

## 4. The runs

All bounds are constants of the modules. Deadlock is checked in `FrameWait`,
which never stops. The other systems may stop: at a bound, or because nobody
presses anything and nothing is queued.

| Run | Bounds | States | Shows |
|---|---|---|---|
| `sessions` | 2 consoles; `GameNet`: 1 state in session, 2 attempts to join, 2 times hosting, a link lost once; `Handover`: 5 states sent per console | 0.7 M | `GameNet`: one Player 1, comparable numbers, a host's sessions were acknowledged, attempts end in a session, with datagrams of earlier attempts; `Handover`: one Player 1 at most, the role is not lost, the token is implemented |
| `gamenet_unplug` | 1 attempt, 1 time hosting, a link lost once | | violated: `UnplugEnds` |
| `multimenu` | 1 press of up or down | | violated: `EntryAsShown` |
| `txqueue` | 2 senders, 4 buffers, 2 priorities, 5 packets, NULL or any buffer left in `buf` | 1.1 M | until such a buffer is used: the pool is partitioned, packets on their way stay, urgent packets get a buffer, every packet leaves |
| `txqueue_stale` | the same | | violated: `DequeuedWasSent` |
| `rings` | 3 slots, groups of 2, 6 frames | 0.2 M | `TxRing`: until an overrun the ends agree, order is kept, the adaptor does not rest on a frame and every frame is sent; `RxRing`: every frame accepted is delivered, once, in order and whole; the pool is never empty; the channel is never left stopped, the receive thread never asleep on a frame |
| `txring_overrun` | 3 slots, groups of 2, 7 frames | | violated: `SpotIsFree` |
| `round` | 2 stages, each played again once, 2 states under way | 0.6 M | Player 2 follows; the barrier holds in the first stage and opens for both, but for a Player 2 whose Player 1 has gone back to the menus; a retry in the first stage is shared |
| `attack` | 2 kinds of hits, counters modulo 2, 3 hits | 0.2 M | damage once, no phantom hits, agreement at last |
| `framewait` | 2 counted wakeups | 941 | no wakeup lost, none ends early, each ends |
| `dhcp` | 2 servers, 1 retry, 2 exchanges, 3 link reports | 0.08 M | no exchange forgotten, leases acknowledged, exchanges end |
| `netif` | 2 slots, 2 drivers' names, 3 registrations, 3 reports | 0.04 M | a present driver is called, or one just leaving; link state known but for one race; reports stay apart; no wait for the gone |

Why the bounds are enough. A hand-over takes two states in each direction, so
five let one complete and the next begin with old states still under way (and
the proof is for any number). Two attempts to join and two times hosting give
each session an earlier one whose datagrams can arrive late; one state sent in a
session makes the counters of the two sides differ, and a hand-over, whose
flags also change in calls that send nothing, begins in it (its own run and
proof take it to the end). Four buffers are one with
each sender, one under transfer and one announced; five packets force two
displacements, or a call that finds nothing to displace. Six frames go around
three slots twice, on the EE into slots whose buffers have been replaced; a group
of two has a frame that comes without an interrupt. A second stage is entered with the state
the peer had in the first, and a second try follows a first acknowledgement.
With a width of two, three hits wrap a counter, and two kinds make the order of
the tests matter. Two servers are one that is chosen and one that is late; one
retry is a first request, a repeated one and the giving up; three link reports
bring the link up, down and up during one exchange, and the second exchange has
late replies to the first. Three registrations of two slots reuse a slot while
the number of its last owner is still reported.

What the violated properties say of the code:

- **UnplugEnds**: the handler of an ACK tests `gn_state` and then stores
  `GN_CONNECTED`. If the link goes down in between, `LinkStateDown`'s `GN_IDLE`
  is overwritten, and the console stays in a session with the cable out. The
  page of the patcher gives unplugging as the way to end a session.
- **EntryAsShown**: the Join screen's index runs over twelve octet digits and
  five port digits, but the port is changed only for `ip_digit > 12`. With the
  underscore under the first digit of the port the index is 12, and a press
  changes the byte behind the address, the low byte of the port, by a hundred
  instead of the port by ten thousand. `OthersAreEntered` proves that every
  other digit is entered as shown.
- **DequeuedWasSent**: when no buffer is free and no queued packet gives way,
  `AllocTxPacket` tests, unlinks and returns a variable it has not assigned. In
  the trace that is the packet under transfer: it is taken out of the queue, and
  `DeQTxPacket`, "the last packet has been transmitted", then finds another one
  at the head, or none. `UrgentGetABuffer` proves that DHCP never comes there;
  a log line or a game state can.
- **SpotIsFree**: a slot's length is stored in the EE's copy only when the next
  slot's is set already, so it never is, and "Wait for a spot to be freed up"
  never waits. With the ring full of frames the adaptor has not sent, the
  transmit thread goes on to write over the first of them. `SlotsAreNeverTaken`
  proves the cause for every size of the ring.

## 5. Fairness

- `GameNet!Fairness`: the menu loop runs every frame and finds a packet buffer
  again and again; of a datagram that is sent again and again one arrives and is
  handled. Nothing is assumed of the players: `HandshakeCompletes` ends with "or
  a player gave up, or a link is down". The bounds of the model do not stop a
  retry, because a repeated datagram is the same element of `net`.
- `TxQueue!FairSpec`: a thread that holds a packet queues it, and the transmit
  thread, the most urgent of all, runs when it can. No fairness on new packets.
- `TxRing!TxFairness`: transfers end, and the adaptor's thread goes on while it
  has frames.
- `RxRing!RxFairness`: transfers end, interrupts are taken, the receive thread
  runs again and again between them (strong fairness), and the alarm at last
  finds room.
- `FrameWait!WaitFairSpec`: the two threads are scheduled. `oFrameWait` ends. The
  alarm need not fire.
- `AttackSync!Fairness`: the game updates both players and sends a state every
  frame, and of the states that repeat the last one some arrives. Nobody need
  hit a cue; `CatchesUp` speaks of what comes after the last hit.
- `Dhcp!Fairness`: `process_dhcp` is called every frame, the clock runs, threads
  that hold or wait for the semaphore go on, and a packet buffer is found again
  and again (strong fairness of sending). Nothing is assumed of servers, network
  or link, so `ExchangeEnds` rests on the retry count alone.
- `GameRound!FairSpec`: a stage that is being loaded is loaded; frames go on; of
  the states sent again and again one arrives; the console of Player 2 obeys its
  `FakePad`. Player 1 need not do anything.

## 6. The proofs

| Module | Theorem | For every |
|---|---|---|
| `SessionProofs` (`Handover`) | `HandTypeCorrect`, `AtMostOneMaster`, `RoleIsNotLost`, `HandInvariance`, `Refinement` | number of states sent, however lost, repeated and reordered |
| `SessionProofs` (`GameNet`) | `SessionTypeCorrect`, `OneMasterPerSession`, `StatesStayInSync`, `HostsAcknowledge`, `SessionInvariance` | set of consoles, number of attempts, hostings, lost links and states |
| `GameRoundProofs` (`GameRound`) | `TypeCorrect`, `PlayerTwoFollows`, `BarrierWaits`, `Invariance` | number of stages, of tries and of states under way |
| `GameRoundProofs` (`FrameWait`) | `WaitTypeCorrect`, `WakeupIsNotLost`, `FrameIsNotAbandoned`, `ReturnsAfterTheFrame`, `WaitInvariance` | bound on counted wakeups |
| `TxQueueProofs` | `TypeCorrect`, `PoolIsPartitioned`, `PacketsOnTheirWayStay`, `WakeupIsNotLost`, `UrgentGetABuffer`, `Invariance` | number of threads, buffers, priorities, packets, anything left in `buf` |
| `RingProofs` (`TxRing`) | `TypeCorrect`, `SlotsAreNeverTaken`, `FramesInOrder`, `EndsAgree`, `RingIsEmptied`, `Invariance` | size of the ring and of a group, number of frames |
| `RingProofs` (`RxRing`) | `RxTypeCorrect`, `FramesAreDelivered`, `BuffersSuffice`, `ChannelNeverStops`, `NoFrameIsSleptOn`, `RxInvariance` | size of the ring and of a group, number of frames |
| `AttackSyncProofs` | `TypeCorrect`, `DamageIsTakenOnce`, `HitsAreReal`, `Invariance` | width of the counters, kinds and number of hits |
| `DhcpProofs` | `TypeCorrect`, `NoExchangeIsForgotten`, `LeaseIsAcknowledged`, `Invariance` | set of servers, number of retries, exchanges, link reports |
| `NetIfProofs` | `TypeCorrect`, `MainIsServed`, `LinkStateArrives`, `ReportsStayApart`, `NoWaitForTheGone`, `Invariance` | slots, names, number of registrations and reports |
| `MultiMenuProofs` | `OctetIsShown`, `PortIsShown`, `DigitIsInside`, `OthersAreEntered`, `ScreensAreApart` | octet, port, leftover of `malloc`, number of presses |

Three modules of proofs serve two components each, where one continues the other
or both rest on the same lemmas: the sessions that `GameNet` opens are those
`Handover` is about, a frame wait is what the frames of `GameRound` end with, and
the two rings share the arithmetic of slots. Such a module EXTENDS both
components, whose names are therefore kept apart (`HandNext`, `WaitNext`, ...).

*Handover.* `OnePlayerOne` is not inductive: from a state in which it holds an old
datagram could make the second console Player 1. The flags and role of a console
repeat with period four (Player 1, offering, Player 2, acknowledging), so the
history `turn` counts its steps around this cycle (`TurnsCount`). `NetFlags` and
`Monotone` say that what travels is a true picture of an earlier turn of its
sender, and that newer states (by `seq_num`) show later turns. The core is
`Evidence`: a console takes a turn only after seeing the peer take the turn
before, so the two counters, one of which leads by a role, are never far apart.
Both `OnePlayerOne` and `RoleNotLost` are arithmetic from it, and so is the
refinement: a step that changes a role is the abstract `Give` or `Take`, every
other step a stutter. `turn` is bounded by nothing; `MaxStates` is an arbitrary
natural number.

*GameNet.* The invariant is `Base` and `Paced`. `Base` says what is true of each
console and of the network. By `World` every datagram is `Honest` (a state or FIN
goes from one end of a session to the other, from a port that has been given
out, a host's to a joiner it has met, a joiner's to a host that has acknowledged
it), and a host has `met` only joiners whose states are under way to it. `Fine`
has a part per question: which states go with which screen (`Placed`), which of
the two ends has the game's port (`Addressed`), that nothing of a session comes
from the port of an attempt (`Unused`), that the state a console holds of its
peer is one the peer sent to it (`Told`), and what the two ends have sent
(`HostSide`, `JoinSide`): in a session a host is in for the first time,
nothing is under way but what belongs to it. `SeqInSync` and `SessionWasAcked`
follow. The core of `JoinSide` is what makes a late entry harmless: as long as
the host has not met the joiner, the joiner is Player 2 at rest and has never
said otherwise, so whichever of its states brings the host in, the two begin as
Player 1 and Player 2 (`FirstPace`).

`OneMaster` needs the turns of `Handover`, but `GameNet` has no history of them,
and needs none: `Paced` says that turns for the two ends, and a dating `at` of
the states under way between them, exist (`InTurn`). Each kind of step gives new
ones from the old: a frame adds the turns it takes (`TurnPace`), a state sent is
dated by its sender's turn (`PublishPace`), a state accepted keeps its date
(`AcceptPace`), and `SendPace` puts these together for `SendGameState`. A session
in which one end has left (FIN, cancelled, link down in the middle of a handler)
is no longer `Paired`, and says nothing; one entered again is `stale`.

*GameRound.* What is awkward is that Player 2 learns of Player 1's stage and try
only from an `in_game` that repeats in every try and stage, from a state that may
be old. The invariant dates the states of Player 1's console that Player 2 holds or
may still accept: each has a mark of stage, try and progress (`Marks`) that fits
its `in_game` (`Fits`), is in order (`NotAfter`), and is not ahead of Player 1
(`Past`); and what Player 2 has done is not ahead of the mark of the state it
holds (`Known`). `Dated` says that such marks exist, for the same reason as the
turns above: there is no history variable. `Phases` ties place, `in_game` and
counts on each console, `Truthful` says that who is told to have loaded has, and
`Waited` that who plays was told so.

*TxQueue.* Nothing is assumed of `StaleRegister`: a call that goes on with what
it finds there sets `stale`, which stays set, and the invariant is `~stale =>
Sane`, so each step has to keep `Sane` only where that call is not taken. `Sane`
is `TypeOK`, `Apart`, `Lined`, `NoLostWakeup`
and `Processing`, which ties `IsProcessingTx` to the place the transmit thread
is in. `Apart` (the body of `Partition`) needs `Lined` (that of `InFlight`: what
`DeQTxPacket` removes is the packet
that was sent, because nobody has displaced it), and `Lined` needs
`Apart` (a packet that a sender takes is not the one under transfer).
`NoLostWakeup` needs `Processing`: a sender that skips the wakeup has seen a
thread that will look at the queue again. `UrgentServed` is a count: by
`Marked`, proved on top of the invariant, only the packet under transfer and the
one announced may not be displaced, so two buffers more than there are senders
(the code has 16, the run 4 for two) leave one to take. Lemmas
on `RemoveAt`, `Tail` and `Append` of sequences without repetition carry the
list manipulation.

*TxRing.* The transmit thread stores a slot's length only in the branch taken
when the next slot's length is set already, so its "wait for a spot to be freed
up" never waits: all lengths are zero (`Zeros`), and every frame is announced by
a command (`AlwaysNotifies`). Nothing then bounds how far the EE runs ahead, and
order holds only until the first overrun, which the history `overrun` records.
Neither `InOrder` nor `RingAligned` is inductive: they do not say where the
transfer under way will land. `Transit` does (it is the last frame handed over,
in the slot before the write pointer), and `Content` that the slots hold exactly
the frames landed and not dequeued, fewer than a turn of them while another one
is landing. The rest is the arithmetic of slots: a number has one quotient and
one remainder (`QuotientsDiffer`, `Remainder`), so two frames less than a turn
apart do not share a slot (`SlotsApart`). On top of the invariant `NoneLeftInRing`
rests on `Attended`: the adaptor finds nothing to send only at an empty slot, and
is called for every frame, so with nothing under way what `Content` says of the
slot at its pointer leaves no frame behind.

*RxRing.* Here the flow control works, and order holds without reservation. The
two sides have a copy of the status each, and a slot is in one of three phases:
it holds a frame (`InUse`), it is free on both sides, or its release is on the
way to the IOP, whose copy is out of date (both `Idle`). Which one is decided by
counting: the frames from the first not released to the last accepted have a slot
each, in turn (`PtrsCount`, `SlotsAgree`). Transfers under way are for the slots
of the frames to come and for the buffers the EE has there (`OnTheWay`), so the
one that arrives overwrites nothing. `DeliveredInOrder` also needs that no buffer
is in two places: in a slot, in the pool, or with the receive thread, before and
after it has exchanged the slot's buffer (`BuffersApart`, `ThreadOwns`); the
length of the pool in `BuffersApart` is what `NoneMissing` says. That the adaptor
never accepts a frame into a full ring (`FreeSlotIsIdle`) follows from the
status alone: a turn later the slot is that of a frame not yet released.
`ChannelGoesOn` is inductive with the pointers: the frame that stops the channel
is not before the one at `RxBufferNextRdPtr`, which has therefore arrived, and
the threads of the EE do not step while the interrupt is pending. `NoneLeftBehind`
needs two facts more. The last frame on the way always interrupts
(`EndNotifies`), since `FrameSendCB` and a full group mark the last of each group.
And a thread asleep on a frame has something that will wake it (`Roused`): it has
found the slot at its pointer empty, so what arrives there has its interrupt still
to come, and `IsProcessingRx`, which keeps an interrupt from waking it, is set
only while a wakeup is counted.

*FrameWait.* `StatusTrue`, `Asked` and `EndTold` say for each value of
`frame_wait_status` which thread has acted and which still owes the other a
wakeup; `NotAbandoned` is part of the invariant.

*AttackSync.* A state carries sums, so what a console has taken is the sum in
some state of its peer. No state in `news` shows less than an older one
(`NewsIsOrdered`) or more than the peer has now (`NewsIsPast`), and what is taken
or shown is not ahead of the oldest of them (`FollowsNews`); `Balanced` is the
account of the health. The counters are only compared for equality, so one that
had been passed would be counted up a whole turn: that a shown counter is never
ahead excludes this for every width.

*Dhcp.* `LinkUpMeansExchange` needs to know where the threads are: by
`LockIsHonest` a thread that is about to free the exchange has seen the link
down, so that the RPC thread, which brings the link up, is still to begin one.
`LeaseWasAcked` needs that the exchange under way has the last number
(`HolderIsCurrent`), that no packet carries a number not yet used
(`PacketsArePast`), that requests of the exchange name the address chosen
(`RequestsNameTheChoice`) and that a server acknowledges only what a request
asked of it (`AcksAnswerRequests`).

*NetIf.* A slot in `leaving` is not in use, and nothing else changes until its
unregistration is over. By `CallIsCurrent` the RPC under way carries the state of the main
interface (the registry cannot change meanwhile), and without one the EE has it;
`StackIsTold` ties the EE's stack to it, but for a store recorded in `raced`;
`NumberNamesSlot` makes a registration's number lead to its slot. The code reuses
a number after 256 registrations, the model after none, up to any `MaxId`.

*MultiMenu.* `DigitIsInside` and `OthersAreEntered` assume that the leftover of
`malloc` is a signed char; the index is inside the digits from the first frame
of the Join screen on. That frame itself may use the leftover, and a press in it
go elsewhere: `OnlyTheTwelfth` begins with the second. `ScreensAreApart` rests on
`ScreenInv`: the enabled groups but the overlay are those of the screen, which
every transition switches by hand, and the overlay, which may be enabled on any
screen, is clear on all but the exit screen, from which no way leads back.

Constants carry named assumptions (`ConsolesAssumption`, `BuffersAssumption`,
...); each is evaluated by TLC in the runs of its module.

## 7. What is not shown

Model-checked only: the liveness properties (`HandshakeCompletes`,
`EveryPacketLeaves`, `EveryFrameIsSent`, `EveryFrameIsDelivered`,
`FrameWaitReturns`, `LoadingEnds`, `RetryTogether`, `CatchesUp`,
`ExchangeEnds`), which are temporal properties under fairness and beyond the
prover. `NoneLeftInRing` and `NoneLeftBehind` are the safety halves of the two
about frames, and proved: nothing is left undone once nothing more can happen.
Every invariant and every other action property of the passing runs is also
stated by a theorem, and one more, `OneScreenIsShown`, by a theorem only
(`ScreensAreApart`). Of the type invariants only that of `GameRound` is in a run;
the others are proved (`TypeCorrect`, `SessionTypeCorrect`, `RxTypeCorrect`, ...).

Seen in the models but stated by no property, since nothing in the repository
promises otherwise: after a hand-over, a lost link and a second hosting, a late
state of the old session opens one in which both consoles are Player 1 (the
reason `OneMaster` of `GameNet` speaks of sessions entered for the first time);
`send_game_state` takes the last state of the previous try for an
acknowledgement of the next; in a second stage `in_game` of the first, when no
state of the peer has arrived since, lets a console through the loading barrier
before its peer has loaded (the reason `BarrierHolds` speaks of the first stage;
what may come of it is the exception of `LoadingEnds`); a driver that has been deinitialised can still be
called by `NetManNetIFXmit` until its unregistration is over; the boot thread can
store a link state that the RPC thread has just replaced (`raced`); a FIN that is lost is not repeated; giving up DHCP
after an offer leaves the offered address in `our_ip`.

Not modelled: the end of a session during a stage (the loop of `hFinishLoading`
does not look at `gn_state`, and would wait for ever); the inputs of the other
player during a song (`hHandleMultiPlayerInputs` hands the peer's time, stick and
buttons to the game); Player 2's menus, which synthetic buttons lead through
screens of the game that are not in the repository; header fields and checksums
of packets; `NetManSetMainIF` (no caller), the unregistration of the stack (only
`nettest`), and queries of the registry that change no state; the hardware
counter of the clock, beyond its effect on DHCP. Hooks, logging, the SIF
utilities (lists of RPC servers with one element), the patcher and the build
scripts are I/O, code patching or data conversion without state changes the
program goes through; `nettest` is an older copy of the packet stack that the
program does not use.

Abstracted: the contents of packets beyond what is tested; the SIF command
buffer, which may stall a sender but changes nothing it reads; time, apart from
the order of events; the memory that a write through a NULL `buf` in
`AllocTxPacket` hits.
