------------------------------ MODULE TimedLink ------------------------------
(***************************************************************************)
(* BridgeLink in time, with the engine's keep-alive: for how long is the   *)
(* pump without a command when the link dies?  Time passes in ticks (a     *)
(* second in the instance), and only when no callback is due.              *)
(*                                                                         *)
(* The faults are the mildest there are.  A link that works loses its      *)
(* socket, with or without a FIN, while the bridge itself is back at once; *)
(* and the next fault waits until a command has got through again.         *)
(***************************************************************************)
EXTENDS BridgeLink

CONSTANTS
    IDLE_TIMEOUT,    \* BRIDGE_IDLE_MS, in ticks, like the next two
    IDLE_CHECK,      \* IDLE_CHECK_MS
    KEEP_ALIVE,      \* KEEP_ALIVE_MS
    TICK_MS          \* a tick

VARIABLES
    age,             \* Date.now() - lastRxAt, up to idleTimeoutMs
    check,           \* until the idle check runs
    beat,            \* until the keep-alive interval fires
    wait,            \* until the reconnect timer fires
    silence,         \* since a command has reached the pump
    hit              \* a fault has happened since then

clock == <<age, check, beat, wait, silence>>
tvars == <<vars, clock, hit>>

TInit ==
    /\ Init
    /\ peer = "healthy"
    /\ age = 0 /\ check = IDLE_CHECK /\ beat = KEEP_ALIVE
    /\ wait = 0 /\ silence = 0 /\ hit = FALSE

Carries == sock = "open" /\ peer = "healthy"

\* A callback is due.  A dial within the network takes less than a tick.
Due ==
    \/ ~idleTimer \/ sock \in {"dialing", "dying"}
    \/ check = 0 \/ beat = 0
    \/ reconnectTimer # 0 /\ wait = 0

-----------------------------------------------------------------------------
\* A tick.  The poll of a link that carries bytes is answered within it.
Ages ==
    IF Carries THEN OnData /\ age' = 0
    ELSE IF sock = "halfopen" /\ age < IDLE_TIMEOUT
    THEN /\ age' = age + 1
         /\ IF age' = IDLE_TIMEOUT THEN TimePasses ELSE UNCHANGED vars
    ELSE UNCHANGED <<vars, age>>

Tick ==
    /\ ~Due /\ peer = "healthy"
    /\ Ages
    /\ check' = check - 1 /\ beat' = beat - 1
    /\ wait' = IF wait = 0 THEN 0 ELSE wait - 1
    /\ silence' = silence + 1
    /\ UNCHANGED hit

\* A command reaches the pump, or is lost with the link.
Commanded ==
    IF peer = "healthy"
    THEN silence' = 0 /\ hit' = FALSE
    ELSE UNCHANGED <<silence, hit>>

\* The interval of Engine.start.
Beat ==
    /\ beat = 0
    /\ beat' = KEEP_ALIVE
    /\ IF sock = "open" THEN Commanded ELSE UNCHANGED <<silence, hit>>
    /\ UNCHANGED <<vars, age, check, wait>>

Check ==
    /\ check = 0
    /\ check' = IDLE_CHECK
    /\ \/ CheckIdle
       \/ (~quiet \/ sock \notin {"open", "halfopen"}) /\ UNCHANGED vars
    /\ UNCHANGED <<age, beat, wait, silence, hit>>

Boot == Start /\ UNCHANGED <<clock, hit>>

\* The connected listener notifies, and the engine sends its commands.
Connected ==
    /\ OnConnect
    /\ age' = 0
    /\ Commanded
    /\ UNCHANGED <<check, beat, wait>>

\* The delay of a reconnect timer, in ticks.
Ticks(ms) == (ms + TICK_MS - 1) \div TICK_MS

Closed ==
    /\ OnClose
    /\ wait' = Ticks(reconnectTimer')
    /\ UNCHANGED <<age, check, beat, silence, hit>>

Redial ==
    /\ wait = 0
    /\ ReconnectFires
    /\ UNCHANGED <<clock, hit>>

\* The radio is away for a moment, in which the socket may lose its other end.
Away ==
    /\ ~hit /\ sock = "open" /\ rxSinceConnect
    /\ PeerChanges /\ peer' = "silent"
    /\ hit' = TRUE
    /\ UNCHANGED clock

Lost == Drop /\ UNCHANGED <<clock, hit>>

Back == PeerChanges /\ peer' = "healthy" /\ UNCHANGED <<clock, hit>>

TNext ==
    \/ Tick \/ Beat \/ Check \/ Boot \/ Connected \/ Closed \/ Redial
    \/ Away \/ Lost \/ Back

TSpec == TInit /\ [][TNext]_tvars

-----------------------------------------------------------------------------
(* Properties.                                                             *)

\* connection.ts:172-175: the pump gives up "after roughly 3*KEEP_ALIVE_MS
\* without a command, so a quiet link has to be caught and rebuilt well inside
\* that window".  Checked by a run that refutes it.
RebuiltInTime == silence < 3 * KEEP_ALIVE
=============================================================================
