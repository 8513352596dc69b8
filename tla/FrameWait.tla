----------------------------- MODULE FrameWait -----------------------------
(***************************************************************************)
(* Waiting for the next frame (src/src/loader.c): the game thread hands    *)
(* the game's own FrameWait, which busy-waits, to a thread of the lowest   *)
(* priority and sleeps, so that the network threads get the processor.     *)
(* Kernel wakeups are counted: one that finds its thread awake makes the   *)
(* next SleepThread return at once.  The game thread also sleeps in        *)
(* hFinishLoading (src/src/game_net.c), woken by an alarm.                 *)
(***************************************************************************)
EXTENDS Naturals

CONSTANTS Game, Waiter,  \* the game thread; FrameWaitThread
          NONE,
          MaxWakeups     \* bound of the model: stands for that many wakeups, or more

ASSUME ThreadsAssumption == Game # Waiter /\ NONE \notin {Game, Waiter}
ASSUME MaxWakeupsAssumption == MaxWakeups \in Nat \ {0}

VARIABLES frame_wait_status, frame_waiting_tid,
          gpc, wpc,   \* where the two threads are
          wakeups,    \* of each thread, not yet consumed
          alarms,     \* set by hFinishLoading, not yet fired
          done        \* history: oFrameWait has ended since hFrameWait was called

waitVars == <<frame_wait_status, frame_waiting_tid, gpc, wpc, wakeups, alarms, done>>

Threads == {Game, Waiter}

WaitTypeOK ==
  /\ frame_wait_status \in 0 .. 2
  /\ frame_waiting_tid \in {NONE, Game}
  /\ gpc \in {"run", "notify", "test", "sleep", "barrier", "doze"}
  /\ wpc \in {"test", "sleep", "look", "vsync", "wake"}
  /\ wakeups \in [Threads -> 0 .. MaxWakeups]
  /\ alarms \in 0 .. MaxWakeups
  /\ done \in BOOLEAN

WaitInit ==
  /\ frame_wait_status = 0
  /\ frame_waiting_tid = NONE
  /\ gpc = "run" /\ wpc = "test"
  /\ wakeups = [t \in Threads |-> 0]
  /\ alarms = 0
  /\ done = FALSE

\* WakeupThread and iWakeupThread.
Wake(t) ==
  wakeups' = [wakeups EXCEPT ![t] = IF @ < MaxWakeups THEN @ + 1 ELSE MaxWakeups]

\* SleepThread returns.
Awake(t) ==
  /\ wakeups[t] > 0
  /\ \/ wakeups' = [wakeups EXCEPT ![t] = @ - 1]
     \/ wakeups[t] = MaxWakeups /\ UNCHANGED wakeups

-----------------------------------------------------------------------------
CallFrameWait ==
  /\ gpc = "run"
  /\ frame_waiting_tid' = Game
  /\ frame_wait_status' = 1
  /\ done' = FALSE
  /\ gpc' = "notify"
  /\ UNCHANGED <<wpc, wakeups, alarms>>

NotifyWaiter ==
  /\ gpc = "notify"
  /\ Wake(Waiter)
  /\ gpc' = "test"
  /\ UNCHANGED <<frame_wait_status, frame_waiting_tid, wpc, alarms, done>>

\* Mutant: the game thread takes any wakeup for the end of the frame.
GameTestOnce ==
  /\ gpc = "test"
  /\ IF frame_wait_status = 1 /\ wakeups[Game] = 0
     THEN gpc' = "sleep" /\ UNCHANGED frame_wait_status
     ELSE gpc' = "run" /\ frame_wait_status' = 0
  /\ UNCHANGED <<frame_waiting_tid, wpc, wakeups, alarms, done>>

GameTest ==
  /\ gpc = "test"
  /\ IF frame_wait_status = 1
     THEN gpc' = "sleep" /\ UNCHANGED frame_wait_status
     ELSE gpc' = "run" /\ frame_wait_status' = 0
  /\ UNCHANGED <<frame_waiting_tid, wpc, wakeups, alarms, done>>

GameSleep ==
  /\ gpc = "sleep" /\ Awake(Game)
  /\ gpc' = "test"
  /\ UNCHANGED <<frame_wait_status, frame_waiting_tid, wpc, alarms, done>>

\* hFinishLoading: the peer is still loading, or has finished.
CallFinishLoading ==
  /\ gpc = "run"
  /\ gpc' = "barrier"
  /\ UNCHANGED <<frame_wait_status, frame_waiting_tid, wpc, wakeups, alarms, done>>

Barrier ==
  /\ gpc = "barrier"
  /\ \/ gpc' = "run" /\ UNCHANGED alarms
     \/ alarms < MaxWakeups /\ alarms' = alarms + 1 /\ gpc' = "doze"
  /\ UNCHANGED <<frame_wait_status, frame_waiting_tid, wpc, wakeups, done>>

Doze ==
  /\ gpc = "doze" /\ Awake(Game)
  /\ gpc' = "barrier"
  /\ UNCHANGED <<frame_wait_status, frame_waiting_tid, wpc, alarms, done>>

(***************************************************************************)
(* WakeupCB reads the thread to wake from a local variable of              *)
(* hFinishLoading.  When that function has returned, the word on the stack *)
(* may be anything.                                                        *)
(***************************************************************************)
AlarmFires ==
  /\ alarms > 0
  /\ alarms' = alarms - 1
  /\ \/ Wake(Game)
     \/ /\ gpc \notin {"barrier", "doze"}
        /\ \/ UNCHANGED wakeups
           \/ Wake(Waiter)
  /\ UNCHANGED <<frame_wait_status, frame_waiting_tid, gpc, wpc, done>>

-----------------------------------------------------------------------------
WaiterTest ==
  /\ wpc = "test"
  /\ wpc' = IF frame_wait_status = 1 THEN "look" ELSE "sleep"
  /\ UNCHANGED <<frame_wait_status, frame_waiting_tid, gpc, wakeups, alarms, done>>

WaiterSleep ==
  /\ wpc = "sleep" /\ Awake(Waiter)
  /\ wpc' = "look"
  /\ UNCHANGED <<frame_wait_status, frame_waiting_tid, gpc, alarms, done>>

WaiterLook ==
  /\ wpc = "look"
  /\ wpc' = IF frame_wait_status = 1 THEN "vsync" ELSE "wake"
  /\ UNCHANGED <<frame_wait_status, frame_waiting_tid, gpc, wakeups, alarms, done>>

\* Mutant: the status still says that the frame is waited for.
FrameEndsUntold ==
  /\ wpc = "vsync"
  /\ done' = TRUE
  /\ wpc' = "wake"
  /\ UNCHANGED <<frame_wait_status, frame_waiting_tid, gpc, wakeups, alarms>>

\* oFrameWait ends.
FrameEnds ==
  /\ wpc = "vsync"
  /\ frame_wait_status' = 2
  /\ done' = TRUE
  /\ wpc' = "wake"
  /\ UNCHANGED <<frame_waiting_tid, gpc, wakeups, alarms>>

\* Mutant: the end of the frame is not told.
WakeGameUnlessWaiting ==
  /\ wpc = "wake"
  /\ IF frame_wait_status = 2 THEN UNCHANGED wakeups ELSE Wake(Game)
  /\ wpc' = "test"
  /\ UNCHANGED <<frame_wait_status, frame_waiting_tid, gpc, alarms, done>>

WakeGame ==
  /\ wpc = "wake"
  /\ IF frame_waiting_tid = NONE THEN UNCHANGED wakeups
     ELSE Wake(Game)
  /\ wpc' = "test"
  /\ UNCHANGED <<frame_wait_status, frame_waiting_tid, gpc, alarms, done>>

-----------------------------------------------------------------------------
InFrameWait == NotifyWaiter \/ GameTest \/ GameSleep
WaiterStep == WaiterTest \/ WaiterSleep \/ WaiterLook \/ FrameEnds \/ WakeGame

WaitNext == CallFrameWait \/ InFrameWait \/ CallFinishLoading \/ Barrier \/ Doze
          \/ AlarmFires \/ WaiterStep

WaitSpec == WaitInit /\ [][WaitNext]_waitVars

WaitFairSpec == WaitSpec /\ WF_waitVars(InFrameWait) /\ WF_waitVars(WaiterStep)

-----------------------------------------------------------------------------
(***************************************************************************)
(* The game thread never sleeps in hFrameWait on a wakeup that was lost:   *)
(* while it sleeps, or is about to, a wakeup is pending for it, or the     *)
(* other thread is on its way to give one, or has one pending itself.      *)
(***************************************************************************)
NobodyIsForgotten ==
  gpc = "sleep" =>
    \/ wakeups[Game] > 0
    \/ wpc = "wake"
    \/ /\ frame_wait_status = 1
       /\ wpc \in {"look", "vsync", "test"} \/ wakeups[Waiter] > 0

\* The frame that is waited for is never abandoned: while oFrameWait runs the
\* game thread is still in the call of hFrameWait that asked for it.
NotAbandoned ==
  wpc = "vsync" => frame_wait_status = 1 /\ gpc \in {"notify", "test", "sleep"}

\* hFrameWait returns only after oFrameWait has run to its end since the call,
\* however many stray wakeups (late alarms of hFinishLoading) there are.
FrameHasPassed == [][gpc = "test" /\ gpc' = "run" => done]_waitVars

\* Every call of hFrameWait returns.
FrameWaitReturns == gpc = "notify" ~> gpc = "run"
=============================================================================
