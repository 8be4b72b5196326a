--------------------------- MODULE GuardianProofs ---------------------------
(***************************************************************************)
(* Proofs about Guardian for any set of sockets, any setpoints and any     *)
(* keep-alive period, ceiling and grace.  The inductive invariant IInv     *)
(* adds to the safety properties how the countdowns relate: the deadline   *)
(* to the interval (HoldClock), the grace timer to the outage (LostClock). *)
(*                                                                         *)
(* Then the whole guardian process, for every backoff ladder and every     *)
(* threshold besides.  It steps as Guardian does, so what holds of         *)
(* Guardian holds of it.                                                   *)
(***************************************************************************)
EXTENDS Relay, TLAPS

\* The current client's socket has not delivered its 'close' yet.
ClientIsLive ==
    client # NoClient => socks[client] # "closed"

\* While holding, the deadline was ahead when the interval was last armed.
HoldClock ==
    state = "holding" =>
        /\ keepAliveTimer \in 0..KEEP_ALIVE
        /\ failoverDeadline > keepAliveTimer - KEEP_ALIVE

\* The grace timer counts exactly the ticks of one unbroken outage.
LostClock ==
    lostTimer # NoTimer => ~upstream /\ downFor + lostTimer = GRACE

\* Bytes are buffered iff they came from somewhere.
BufferOwned ==
    rxBuf # NoFrame <=> rxFrom # NoClient

Inv ==
    /\ SingleWriter
    /\ HoldsRunningOnly
    /\ NoStitchedFrame
    /\ ClientIsLive
    /\ HoldClock
    /\ LostClock
    /\ BufferOwned

IInv == TypeOK /\ Inv

-----------------------------------------------------------------------------
\* Observing a frame yields an intent again.
LEMMA SniffType ==
    ASSUME NEW i \in Intents, NEW f \in Frames \cup {NoFrame}
    PROVE  Sniff(i, f) \in Intents
<1>1. CASE f.cmd = "remote"
  BY <1>1 DEF Sniff, Intents
<1>2. CASE f.cmd = "run"
  BY <1>2 DEF Sniff, Intents
<1>3. CASE f.cmd = "rpm"
  BY <1>3 DEF Sniff, Intents, Frames, NoFrame
<1>4. CASE f.cmd \notin {"remote", "run", "rpm"}
  BY <1>4 DEF Sniff, Intents
<1>5. QED
  BY <1>1, <1>2, <1>3, <1>4

\* An intent that counts as running is enabled, running and has a speed.
LEMMA RunningIntent ==
    ASSUME NEW i \in Intents, IntentIsRunning(i)
    PROVE  i \in [remote: {TRUE}, running: {TRUE}, rpm: Rpms]
<1>1. i.remote = TRUE /\ i.running = TRUE /\ i.rpm \in Rpms
  BY GuardianAssumption DEF IntentIsRunning, Intents
<1>2. i = [remote |-> i.remote, running |-> i.running, rpm |-> i.rpm]
  BY DEF Intents
<1>3. QED
  BY <1>1, <1>2

\* The SMT backend does not know this of a variable that was set to FALSE.
LEMMA FalseIsBoolean == \A b : b = FALSE => b \in BOOLEAN
<1>1. QED
  OBVIOUS

\* The invariant holds when the process starts.
LEMMA InitIInv == Init => IInv
<1> SUFFICES ASSUME Init PROVE IInv
  OBVIOUS
<1>1. InitialIntent \in Intents
  BY DEF InitialIntent, Intents
<1>2. TypeOK
  BY <1>1, GuardianAssumption, FalseIsBoolean DEF Init, TypeOK, NoTimer
<1>3. QED
  BY <1>2, GuardianAssumption
  DEF Init, IInv, Inv, SingleWriter, HoldsRunningOnly, NoStitchedFrame,
      ClientIsLive, HoldClock, LostClock, BufferOwned, NoTimer

\* Every event of the server, and every tick, keeps the types.
LEMMA NextType == TypeOK /\ [Next]_vars => TypeOK'
<1> SUFFICES ASSUME TypeOK, [Next]_vars PROVE TypeOK'
  OBVIOUS
<1> USE GuardianAssumption, FalseIsBoolean
    DEF TypeOK, NoTimer, rx, hold, net, link
<1>1. ASSUME NEW c \in Clients, Connect(c) PROVE TypeOK'
  BY <1>1 DEF Connect, StopFailover, ResetBuffer
<1>2. ASSUME NEW c \in Clients, Data(c) PROVE TypeOK'
  <2>1. intent' \in Intents
    BY <1>2, SniffType DEF Data
  <2>2. QED
    BY <1>2, <2>1 DEF Data
<1>3. ASSUME NEW c \in Clients, Closed(c) PROVE TypeOK'
  BY <1>3 DEF Closed, ClientGone, StartFailover, Write
<1>4. CASE OnTick
  BY <1>4 DEF OnTick, Write, StopFailover
<1>5. CASE GraceOver
  BY <1>5 DEF GraceOver, DestroyClient
<1>6. CASE Tick
  BY <1>6 DEF Tick, CountDown
<1>7. CASE UpstreamConnected
  BY <1>7 DEF UpstreamConnected, ClearUpstreamLostTimer
<1>8. CASE UpstreamDisconnected
  BY <1>8 DEF UpstreamDisconnected
<1>9. CASE Restart
  <2>1. InitialIntent \in Intents
    BY DEF InitialIntent, Intents
  <2>2. QED
    BY <1>9, <2>1 DEF Restart
<1>10. CASE UNCHANGED vars
  BY <1>10 DEF vars
<1>11. QED
  BY <1>1, <1>2, <1>3, <1>4, <1>5, <1>6, <1>7, <1>8, <1>9, <1>10 DEF Next

\* Every event of the server, and every tick, preserves the invariant.
LEMMA NextIInv == IInv /\ [Next]_vars => IInv'
<1> SUFFICES ASSUME TypeOK, Inv, [Next]_vars PROVE Inv'
  BY NextType DEF IInv
<1> USE GuardianAssumption
    DEF Inv, TypeOK, SingleWriter, HoldsRunningOnly, NoStitchedFrame,
        ClientIsLive, HoldClock, LostClock, BufferOwned, NoTimer,
        rx, hold, net, link
<1>1. ASSUME NEW c \in Clients, Connect(c) PROVE Inv'
  BY <1>1 DEF Connect, StopFailover, ResetBuffer
<1>2. ASSUME NEW c \in Clients, Data(c) PROVE Inv'
  <2>1. client = c /\ state = "relaying"
    BY <1>2 DEF Data
  <2>2. NoFrame \notin Frames
    BY DEF NoFrame, Frames
  <2>3. QED
    BY <1>2, <2>1, <2>2 DEF Data
<1>3. ASSUME NEW c \in Clients, Closed(c) PROVE Inv'
  <2>1. CASE client = c /\ IntentIsRunning(intent)
    <3>1. /\ client' = NoClient /\ state' = "holding"
          /\ keepAliveTimer' = KEEP_ALIVE /\ failoverDeadline' = FAILOVER_MAX
          /\ socks' = [socks EXCEPT ![c] = "closed"]
          /\ UNCHANGED <<rx, link>>
      BY <1>3, <2>1 DEF Closed, IsClient, ClientGone, StartFailover
    <3>2. SingleWriter'
      BY <2>1, <3>1
    <3>3. HoldsRunningOnly'
      BY <2>1, <3>1, RunningIntent
    <3>4. (NoStitchedFrame /\ ClientIsLive /\ BufferOwned)'
      BY <3>1
    <3>5. HoldClock'
      BY <3>1
    <3>6. LostClock'
      BY <3>1
    <3>7. QED
      BY <3>2, <3>3, <3>4, <3>5, <3>6
  <2>2. CASE client = c /\ ~IntentIsRunning(intent)
    BY <1>3, <2>2 DEF Closed, IsClient, ClientGone
  <2>3. CASE client # c
    BY <1>3, <2>3 DEF Closed, IsClient
  <2>4. QED
    BY <2>1, <2>2, <2>3
<1>4. CASE OnTick
  <2>1. UNCHANGED <<rx, net, link, failoverDeadline>>
    BY <1>4 DEF OnTick
  <2>2. state = "holding"
    BY <1>4 DEF OnTick
  <2>3. \/ state' = "idle" /\ keepAliveTimer' = NoTimer
        \/ /\ failoverDeadline > 0
           /\ state' = "holding" /\ keepAliveTimer' = KEEP_ALIVE
    <3>1. CASE failoverDeadline <= 0
      BY <1>4, <3>1 DEF OnTick, PastDeadline, StopFailover
    <3>2. CASE ~(failoverDeadline <= 0)
      <4>1. failoverDeadline > 0
        BY <3>2
      <4>2. QED
        BY <1>4, <2>2, <3>2, <4>1 DEF OnTick, PastDeadline
    <3>3. QED
      BY <3>1, <3>2
  <2>4. SingleWriter'
    <3>1. CASE state' = "idle" /\ keepAliveTimer' = NoTimer
      BY <2>1, <2>2, <3>1
    <3>2. CASE state' = "holding" /\ keepAliveTimer' = KEEP_ALIVE
      BY <2>1, <2>2, <3>2
    <3>3. QED
      BY <2>3, <3>1, <3>2
  <2>5. (HoldsRunningOnly /\ HoldClock)'
    <3>1. HoldsRunningOnly'
      BY <2>1, <2>2
    <3>2. HoldClock'
      BY <2>1, <2>3
    <3>3. QED
      BY <3>1, <3>2
  <2>6. (NoStitchedFrame /\ ClientIsLive /\ LostClock /\ BufferOwned)'
    BY <2>1
  <2>7. QED
    BY <2>4, <2>5, <2>6
<1>5. CASE GraceOver
  BY <1>5 DEF GraceOver, DestroyClient
<1>6. CASE Tick
  <2>1. UNCHANGED <<rx, net, state, upstream>>
    BY <1>6 DEF Tick
  <2>2. SingleWriter'
    BY <1>6, <2>1 DEF Tick, CountDown
  <2>3. HoldClock'
    BY <1>6, <2>1 DEF Tick, CountDown
  <2>4. LostClock'
    BY <1>6, <2>1, ~upstream \/ upstream DEF Tick, CountDown
  <2>5. (HoldsRunningOnly /\ NoStitchedFrame /\ ClientIsLive /\ BufferOwned)'
    BY <2>1
  <2>6. QED
    BY <2>2, <2>3, <2>4, <2>5
<1>7. CASE UpstreamConnected
  BY <1>7 DEF UpstreamConnected, ClearUpstreamLostTimer
<1>8. CASE UpstreamDisconnected
  <2>1. /\ UNCHANGED <<rx, hold, net>> /\ upstream' = FALSE /\ downFor' = 0
        /\ lostTimer' = GRACE
    BY <1>8 DEF UpstreamDisconnected
  <2>2. LostClock'
    BY <2>1
  <2>3. QED
    BY <2>1, <2>2
<1>9. CASE Restart
  BY <1>9 DEF Restart
<1>10. CASE UNCHANGED vars
  BY <1>10 DEF vars
<1>11. QED
  BY <1>1, <1>2, <1>3, <1>4, <1>5, <1>6, <1>7, <1>8, <1>9, <1>10 DEF Next

\* The inductive invariant holds of every state of the guardian (guardian.ts).
THEOREM IInvAlways == Spec => []IInv
<1>1. QED
  BY InitIInv, NextIInv, PTL DEF Spec

-----------------------------------------------------------------------------
\* Every variable of the guardian keeps its type.
THEOREM TypeCorrect == Spec => []TypeOK
<1>1. IInv => TypeOK
  BY DEF IInv, Inv
<1>2. QED
  BY <1>1, IInvAlways, PTL

\* README "Single bus writer at all times", for any number of sockets racing to
\* be the client: the interval runs exactly while holding, and holding excludes
\* a connected app.
THEOREM GuardianSingleWriter == Spec => []SingleWriter
<1>1. IInv => SingleWriter
  BY DEF IInv, Inv
<1>2. QED
  BY <1>1, IInvAlways, PTL

\* README "It only holds a running setpoint".
THEOREM GuardianHoldsRunningOnly == Spec => []HoldsRunningOnly
<1>1. IInv => HoldsRunningOnly
  BY DEF IInv, Inv
<1>2. QED
  BY <1>1, IInvAlways, PTL

\* README "Hard FAILOVER_MAX_MS ceiling": one hold outlives its deadline by less
\* than one period, whether or not the period divides the ceiling.
THEOREM GuardianHoldBounded == Spec => []HoldBounded
<1>1. IInv => HoldBounded
  BY GuardianAssumption DEF IInv, Inv, TypeOK, HoldClock, HoldBounded
<1>2. QED
  BY <1>1, IInvAlways, PTL

\* No command is pieced together from the bytes of two connections.
THEOREM GuardianNoStitchedFrame == Spec => []NoStitchedFrame
<1>1. IInv => NoStitchedFrame
  BY DEF IInv, Inv
<1>2. QED
  BY <1>1, IInvAlways, PTL

\* Every write of the guardian happens with no app connected, a keep-alive only
\* before the deadline.
THEOREM GuardianWritesAlone == Spec => WritesAlone
<1> DEFINE A == out' # "none" => /\ \A c \in Clients : socks'[c] # "open"
                                 /\ out' = "keepalive" => failoverDeadline' > 0
<1>1. IInv /\ IInv' /\ [Next]_vars => [A]_vars
  <2> SUFFICES ASSUME IInv, IInv', Next, out' # "none" PROVE A
    OBVIOUS
  <2>1. state' # "relaying" /\ (out' = "keepalive" => failoverDeadline' > 0)
    <3>1. ASSUME NEW c \in Clients, Closed(c)
          PROVE  state' # "relaying"
                 /\ (out' = "keepalive" => failoverDeadline' > 0)
      <4>1. client = c
        BY <3>1 DEF Closed, IsClient
      <4>2. IntentIsRunning(intent)
        BY <3>1, <4>1 DEF Closed, IsClient, ClientGone
      <4>3. state' = "holding" /\ failoverDeadline' = FAILOVER_MAX
        BY <3>1, <4>1, <4>2 DEF Closed, IsClient, ClientGone, StartFailover
      <4>4. QED
        BY <4>3, GuardianAssumption
    <3>2. CASE OnTick
      <4>1. state = "holding" /\ failoverDeadline \in Int
        BY <3>2 DEF OnTick, IInv, Inv, SingleWriter, TypeOK, NoTimer
      <4>2. QED
        BY <3>2, <4>1 DEF OnTick, PastDeadline, Write
    <3>3. QED
      BY <3>1, <3>2
      DEF Next, Connect, Data, GraceOver, Tick, UpstreamConnected,
          UpstreamDisconnected, Restart
  <2>2. client' = NoClient
    BY <2>1 DEF IInv, Inv, SingleWriter
  <2>3. \A c \in Clients : socks'[c] # "open"
    BY <2>2, GuardianAssumption DEF IInv, Inv, SingleWriter
  <2>4. QED
    BY <2>1, <2>3
<1>2. QED
  BY <1>1, IInvAlways, PTL DEF Spec, WritesAlone

\* The guardian cuts off its own client only after an unbroken outage of GRACE.
THEOREM GuardianTeardownJustified == Spec => TeardownJustified
<1> DEFINE A == \A c \in Clients :
                  socks[c] = "open" /\ socks'[c] = "destroyed" /\ client' = c
                    => ~upstream /\ downFor >= GRACE
<1>1. IInv /\ [Next]_vars => [A]_vars
  <2> SUFFICES ASSUME IInv, Next, NEW c \in Clients,
                      socks[c] = "open", socks'[c] = "destroyed", client' = c
               PROVE  ~upstream /\ downFor >= GRACE
    OBVIOUS
  <2> USE DEF IInv, Inv, TypeOK, SingleWriter
  <2>1. client = c
    OBVIOUS
  <2>2. ASSUME NEW d \in Clients, Connect(d) PROVE FALSE
    BY <2>1, <2>2 DEF Connect
  <2>3. ASSUME NEW d \in Clients, Closed(d) PROVE FALSE
    BY <2>1, <2>3 DEF Closed
  <2>4. CASE GraceOver
    BY <2>4, GuardianAssumption DEF GraceOver, LostClock, NoTimer
  <2>5. QED
    BY <2>2, <2>3, <2>4, GuardianAssumption
    DEF Next, Data, OnTick, Tick, UpstreamConnected, UpstreamDisconnected,
        Restart, net
<1>2. QED
  BY <1>1, IInvAlways, PTL DEF Spec, TeardownJustified

-----------------------------------------------------------------------------
(* The whole process.  Its upstream falls quiet in more ways than          *)
(* BridgeLink allows; the redials of a quiet bridge are bounded all the    *)
(* same.                                                                   *)

\* How far a burst of redials can be ahead of the count of mute connections:
\* by one, and not at all while a stall is about to be answered with a redial.
RedialsCounted ==
    /\ burst \in Nat /\ silentCycles \in 0..SILENT_CYCLES_BEFORE_BACKOFF
    /\ upstream /\ rxSinceConnect => burst = 0
    /\ stallTriggered => burst <= silentCycles
    /\ burst <= silentCycles + 1

RInv == GentleOnTheBridge /\ RedialsCounted

-----------------------------------------------------------------------------
(* Refinement.                                                             *)

\* Every callback of the process is a step of Guardian, or one that Guardian
\* does not see.
LEMMA StepImplementsGuardian == [RNext]_rvars => [Next]_vars
<1> SUFFICES ASSUME [RNext]_rvars PROVE [Next]_vars
  OBVIOUS
<1>1. CASE UpStart \/ UpFails \/ UpData \/ UpIdle \/ UpRedial \/ UpQuiet \/ Environment
  BY <1>1 DEF UpStart, UpFails, UpData, UpIdle, UpRedial, UpQuiet, Environment, vars
<1>2. CASE UpConnect
  BY <1>2 DEF UpConnect, Next
<1>3. CASE UpClose
  BY <1>3 DEF UpClose, Listener, Next
<1>4. CASE Downstream
  BY <1>4 DEF Downstream, Next
<1>5. CASE ProcessRestarts
  BY <1>5 DEF ProcessRestarts, Next
<1>6. CASE UNCHANGED rvars
  BY <1>6 DEF rvars
<1>7. QED
  BY <1>1, <1>2, <1>3, <1>4, <1>5, <1>6 DEF RNext

\* The process implements Guardian: its link goes up and down, and its grace
\* timer is armed and cleared, as Guardian allows.
THEOREM ProcessImplementsGuardian == RSpec => ImplementsGuardian
<1>1. RInit => Init
  BY DEF RInit
<1>2. QED
  BY <1>1, StepImplementsGuardian, PTL DEF RSpec, ImplementsGuardian, Spec

\* So the invariants of the guardian's class comment hold of the process over
\* its real upstream: a single writer, holds of running setpoints only, bounded
\* holds, and no command merged from two connections.
THEOREM ProcessIsSafe ==
    RSpec => [](SingleWriter /\ HoldsRunningOnly /\ HoldBounded /\ NoStitchedFrame)
<1>1. RSpec => Spec
  BY ProcessImplementsGuardian DEF ImplementsGuardian
<1>2. QED
  BY <1>1, GuardianSingleWriter, GuardianHoldsRunningOnly, GuardianHoldBounded,
     GuardianNoStitchedFrame, PTL

-----------------------------------------------------------------------------
(* The upstream.                                                           *)

\* A process that starts has neither redialled nor counted a mute connection.
LEMMA RInitRInv == RInit => RInv
<1>1. QED
  BY RelayAssumption
  DEF RInit, Up!Init, RInv, RedialsCounted, GentleOnTheBridge, Up!BoundedRedialBurst

\* The app's side of the process does not touch the link.
LEMMA DownstreamKeepsUpstream == Downstream => upstream' = upstream
<1>1. QED
  BY DEF Downstream, Connect, Data, Closed, OnTick, GraceOver, Tick, link, net

\* Every callback keeps the accounts; a stall and the close it causes are the
\* steps that move them.
LEMMA StepKeepsRInv == RInv /\ [RNext]_rvars => RInv'
<1> SUFFICES ASSUME RInv, [RNext]_rvars PROVE RInv'
  OBVIOUS
<1> USE RelayAssumption
    DEF RInv, RedialsCounted, GentleOnTheBridge, Up!BoundedRedialBurst,
        Up!conn, Up!timers, Up!flow, Up!backoff, Up!told, vars, link
<1>1. CASE UpStart
  BY <1>1 DEF UpStart, Up!Start
<1>2. CASE UpConnect
  BY <1>2 DEF UpConnect, Up!OnConnect
<1>3. CASE UpFails
  BY <1>3 DEF UpFails, Up!DialRefused, Up!ConnectTimeout
<1>4. CASE UpData
  BY <1>4 DEF UpData, Up!OnData
<1>5. CASE UpIdle
  BY <1>5 DEF UpIdle, Up!CheckIdle, Up!CountSilence, Up!Saturate
<1>6. CASE UpClose
  BY <1>6 DEF UpClose, Up!OnClose, Up!ScheduleReconnect, Up!SlowRetry,
              Up!RedialNow, Up!ConsumeFlag, Up!Backoff
<1>7. CASE UpRedial
  BY <1>7 DEF UpRedial, Up!ReconnectFires
<1>8. CASE UpQuiet
  BY <1>8 DEF UpQuiet
<1>9. CASE Environment
  BY <1>9 DEF Environment, Up!PeerChanges, Up!Drop
<1>10. CASE Downstream
  BY <1>10, DownstreamKeepsUpstream DEF Downstream, dial
<1>11. CASE ProcessRestarts
  BY <1>11 DEF ProcessRestarts
<1>12. CASE UNCHANGED rvars
  BY <1>12 DEF rvars, dial
<1>13. QED
  BY <1>1, <1>2, <1>3, <1>4, <1>5, <1>6, <1>7, <1>8, <1>9, <1>10, <1>11,
     <1>12 DEF RNext

\* However long nobody talks, and however often the process is restarted, the
\* guardian redials a quiet bridge without delay a bounded number of times.
THEOREM ProcessIsGentle == RSpec => []GentleOnTheBridge
<1>1. RInv => GentleOnTheBridge
  BY DEF RInv
<1>2. QED
  BY <1>1, RInitRInv, StepKeepsRInv, PTL DEF RSpec
=============================================================================
