-------------------------- MODULE BridgeLinkProofs --------------------------
(***************************************************************************)
(* Proofs about BridgeLink for every backoff ladder and every threshold.   *)
(* The argument rests on one inductive invariant, IInv: the safety         *)
(* properties of the link strengthened with how the socket, the timers and *)
(* the flags determine one another between two callbacks.                  *)
(***************************************************************************)
EXTENDS BridgeLink, TLAPS

\* _connected follows the socket; only while 'close' is pending can it be
\* either (a refused dial, or a connection that was just lost).
ConnectedFollowsSocket ==
    /\ sock \in {"open", "halfopen"} => connected
    /\ sock \in {"none", "dialing"} => ~connected

\* The connect timeout only ever watches a socket that never connected.
ConnectTimerOwner ==
    connectTimer => sock \in {"dialing", "dying"} /\ ~connected

\* Outside start()..close() nothing is left running.
Stopped ==
    /\ closing => ~idleTimer
    /\ ~idleTimer => /\ sock = "none" /\ reconnectTimer = 0
                     /\ ~connectTimer /\ ~connected

\* How far a burst of redials can be ahead of the count of mute connections.
BurstCounted ==
    /\ connected /\ rxSinceConnect => burst = 0
    /\ stallTriggered => burst <= silentCycles
    /\ burst <= silentCycles + 1

IInv ==
    /\ TypeOK
    /\ NeverStranded
    /\ OneDialAtATime
    /\ DialIsWatched
    /\ StallFlagIsFresh
    /\ BoundedRedialBurst
    /\ ListenersAgree
    /\ ConnectedFollowsSocket
    /\ ConnectTimerOwner
    /\ Stopped
    /\ BurstCounted

USE DEF Peers, Saturate, Open

-----------------------------------------------------------------------------
\* The SMT backend does not know this of a variable that was set to FALSE.
LEMMA FalseIsBoolean == \A b : b = FALSE => b \in BOOLEAN
<1>1. QED
  OBVIOUS

\* The constants are numbers, and the ladder of backoffs is not empty.
LEMMA ConstantFacts ==
    /\ Len(RECONNECT_DELAYS) \in Nat \ {0}
    /\ SILENT_CYCLES_BEFORE_BACKOFF \in Nat \ {0}
    /\ SILENT_RECONNECT_MS \in Nat \ {0}
<1>1. QED
  BY LinkAssumption

\* The delay picked by scheduleReconnect is a rung of the ladder, however many
\* dials failed before (no index of RECONNECT_DELAYS is out of bounds).
LEMMA DelayIsARung ==
    ASSUME NEW a \in Nat
    PROVE  Delay(a) \in Nat \ {0}
<1>1. Len(RECONNECT_DELAYS) \in Nat \ {0}
  BY LinkAssumption
<1>2. Saturate(a + 1, Len(RECONNECT_DELAYS)) \in 1..Len(RECONNECT_DELAYS)
  BY <1>1
<1>3. QED
  BY <1>2, LinkAssumption DEF Delay

\* The invariant holds before start().
LEMMA InitIInv == Init => IInv
<1> SUFFICES ASSUME Init PROVE IInv
  OBVIOUS
<1>1. TypeOK
  BY ConstantFacts, FalseIsBoolean DEF Init, TypeOK
<1>2. QED
  BY <1>1, ConstantFacts
  DEF Init, IInv, NeverStranded, OneDialAtATime, DialIsWatched,
      StallFlagIsFresh, BoundedRedialBurst, ListenersAgree,
      ConnectedFollowsSocket, ConnectTimerOwner, Stopped, BurstCounted

\* The 'close' event preserves the invariant: the one step that may re-arm the
\* reconnect timer, redial at once, or fall back to the slow retry.
LEMMA OnCloseIInv ==
    ASSUME IInv, OnClose
    PROVE  IInv'
<1> DEFINE a == IF connected THEN 0 ELSE attempt
<1> USE ConstantFacts, FalseIsBoolean
    DEF conn, timers, flow, backoff, told, IInv, TypeOK, NeverStranded, OneDialAtATime, DialIsWatched,
        StallFlagIsFresh, BoundedRedialBurst, ListenersAgree,
        ConnectedFollowsSocket, ConnectTimerOwner, Stopped, BurstCounted
<1>1. a \in Nat
  OBVIOUS
<1>2. a \in 0..Len(RECONNECT_DELAYS) /\ sock = "dying" /\ idleTimer /\ ~closing
  BY <1>1 DEF OnClose
<1>3. SlowRetry(a) \/ RedialNow(a) \/ Backoff(a)
  BY DEF OnClose, ScheduleReconnect
<1>4. CASE SlowRetry(a)
  BY <1>1, <1>2, <1>4 DEF OnClose, TellDisconnected, SlowRetry
<1>5. CASE RedialNow(a)
  BY <1>1, <1>2, <1>5 DEF OnClose, TellDisconnected, RedialNow, ConsumeFlag,
                          ScheduleReconnect
<1>6. CASE Backoff(a)
  <2>1. Delay(a) \in Nat \ {0}
    BY <1>1, DelayIsARung
  <2>2. NextRung(a) \in 0..Len(RECONNECT_DELAYS)
    BY <1>1 DEF NextRung
  <2>3. QED
    BY <1>1, <1>2, <1>6, <2>1, <2>2 DEF OnClose, TellDisconnected, Backoff
<1>7. QED
  BY <1>3, <1>4, <1>5, <1>6

\* Every callback, and every change of the environment, preserves it.
LEMMA NextIInv == IInv /\ [Next]_vars => IInv'
<1> SUFFICES ASSUME IInv, [Next]_vars PROVE IInv'
  OBVIOUS
<1> USE ConstantFacts, FalseIsBoolean
    DEF conn, timers, flow, backoff, told, IInv, TypeOK, NeverStranded, OneDialAtATime, DialIsWatched,
        StallFlagIsFresh, BoundedRedialBurst, ListenersAgree,
        ConnectedFollowsSocket, ConnectTimerOwner, Stopped, BurstCounted
<1>1. CASE Start
  BY <1>1 DEF Start
<1>2. CASE OnConnect
  BY <1>2 DEF OnConnect
<1>3. CASE DialRefused
  BY <1>3 DEF DialRefused
<1>4. CASE ConnectTimeout
  BY <1>4 DEF ConnectTimeout
<1>5. CASE OnData
  BY <1>5 DEF OnData
<1>6. CASE CheckIdle
  BY <1>6 DEF CheckIdle, CountSilence, DestroySocket
<1>7. CASE OnClose
  BY <1>7, OnCloseIInv
<1>8. CASE ReconnectFires
  BY <1>8 DEF ReconnectFires, ForgetTimer
<1>9. CASE Close
  BY <1>9 DEF Close
<1>10. CASE PeerChanges
  BY <1>10 DEF PeerChanges
<1>11. CASE Drop
  BY <1>11 DEF Drop
<1>12. CASE TimePasses
  BY <1>12 DEF TimePasses
<1>13. CASE UNCHANGED vars
  BY <1>13 DEF vars
<1>14. QED
  BY <1>1, <1>2, <1>3, <1>4, <1>5, <1>6, <1>7, <1>8, <1>9, <1>10, <1>11,
     <1>12, <1>13 DEF Next

\* The inductive invariant holds of every state of the connection (connection.ts).
THEOREM IInvAlways == Spec => []IInv
<1>1. QED
  BY InitIInv, NextIInv, PTL DEF Spec

-----------------------------------------------------------------------------
\* Every variable keeps its type; in particular the delays armed are delays.
THEOREM TypeCorrect == Spec => []TypeOK
<1>1. IInv => TypeOK
  BY DEF IInv
<1>2. QED
  BY <1>1, IInvAlways, PTL

\* Whatever the sequence of refusals, time-outs, stalls and drops, the link is
\* not abandoned between start() and close().
THEOREM LinkNeverStranded == Spec => []NeverStranded
<1>1. IInv => NeverStranded
  BY DEF IInv
<1>2. QED
  BY <1>1, IInvAlways, PTL

\* A reconnect timer never coexists with a socket, and no dial goes unwatched.
THEOREM LinkSingleDial == Spec => [](OneDialAtATime /\ DialIsWatched)
<1>1. IInv => OneDialAtATime /\ DialIsWatched
  BY DEF IInv
<1>2. QED
  BY <1>1, IInvAlways, PTL

\* A mute bridge is redialled without delay a bounded number of times, and the
\* flag that allows it never outlives the disconnect that set it.
THEOREM LinkNoRedialStorm == Spec => [](BoundedRedialBurst /\ StallFlagIsFresh)
<1>1. IInv => BoundedRedialBurst /\ StallFlagIsFresh
  BY DEF IInv
<1>2. QED
  BY <1>1, IInvAlways, PTL

\* ControlState is told of every connect and disconnect, once, in order.
THEOREM LinkListenersAgree == Spec => []ListenersAgree
<1>1. IInv => ListenersAgree
  BY DEF IInv
<1>2. QED
  BY <1>1, IInvAlways, PTL
=============================================================================
