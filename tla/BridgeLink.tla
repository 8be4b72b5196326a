----------------------------- MODULE BridgeLink -----------------------------
(***************************************************************************)
(* The life cycle of the TCP connection that carries the pump's RS-485     *)
(* bus: class BridgeConnection of apps/api/src/bridge/connection.ts.  The  *)
(* guardian's UpstreamClient (apps/guardian/src/upstream.ts) is the same   *)
(* machine with another set of listeners.                                  *)
(*                                                                         *)
(* A step is one callback of the Node event loop.  socket.destroy() does   *)
(* not run 'close' listeners at once: between the two the socket is        *)
(* "dying".  The other side of the link (the ESP32 and the radio) is       *)
(* `peer', which changes at will; a socket whose other end vanished        *)
(* without a FIN is "halfopen".                                            *)
(***************************************************************************)
EXTENDS Naturals, Sequences

CONSTANTS
    RECONNECT_DELAYS,             \* the backoff ladder, milliseconds
    SILENT_CYCLES_BEFORE_BACKOFF, \* mute connections before the slow retry
    SILENT_RECONNECT_MS           \* the slow retry, milliseconds

ASSUME LinkAssumption ==
    /\ RECONNECT_DELAYS \in Seq(Nat \ {0})
    /\ RECONNECT_DELAYS # <<>>
    /\ SILENT_CYCLES_BEFORE_BACKOFF \in Nat \ {0}
    /\ SILENT_RECONNECT_MS \in Nat \ {0}

VARIABLES
    sock,            \* socket: none, dialing, open, halfopen, dying
    connected,       \* _connected
    closing,         \* closing
    attempt,         \* reconnectAttempt, saturated at the end of the ladder
    reconnectTimer,  \* 0 when null, else the delay it was armed with
    connectTimer,    \* is the connect timeout armed?
    idleTimer,       \* is the idle check running?
    stallTriggered,  \* stallTriggered
    rxSinceConnect,  \* rxSinceConnect
    silentCycles,    \* silentCycles, saturated at the threshold
    quiet,           \* Date.now() - lastRxAt >= idleTimeoutMs
    busConnected,    \* what the connected/disconnected listeners were told
    peer,            \* environment: the ESP32 end
    burst            \* history: redials without a delay since the last byte

conn    == <<sock, connected>>
timers  == <<reconnectTimer, connectTimer, idleTimer>>
flow    == <<rxSinceConnect, silentCycles, quiet, burst>>
backoff == <<attempt, stallTriggered>>
told    == <<busConnected, closing>>
vars    == <<conn, timers, flow, backoff, told, peer>>

Peers == {"healthy", "silent", "refusing", "blackhole"}

Saturate(n, max) == IF n > max THEN max ELSE n

Init ==
    /\ sock = "none"
    /\ connected = FALSE
    /\ closing = FALSE
    /\ attempt = 0
    /\ reconnectTimer = 0
    /\ connectTimer = FALSE
    /\ idleTimer = FALSE
    /\ stallTriggered = FALSE
    /\ rxSinceConnect = FALSE
    /\ silentCycles = 0
    /\ quiet = FALSE
    /\ busConnected = FALSE
    /\ peer \in Peers
    /\ burst = 0

-----------------------------------------------------------------------------
(* open(): a fresh socket starts dialling under the connect timeout.       *)

Open == sock' = "dialing" /\ connectTimer' = TRUE

Start ==
    /\ ~closing /\ ~idleTimer
    /\ Open
    /\ idleTimer' = TRUE
    /\ UNCHANGED <<peer, flow, told, backoff, connected, reconnectTimer>>

\* The 'connect' event.
OnConnect ==
    /\ sock = "dialing"
    /\ peer \in {"healthy", "silent"}
    /\ sock' = "open"
    /\ connected' = TRUE
    /\ attempt' = 0
    /\ quiet' = FALSE
    /\ rxSinceConnect' = FALSE
    /\ connectTimer' = FALSE
    /\ busConnected' = TRUE
    /\ UNCHANGED <<peer, closing, reconnectTimer, idleTimer, stallTriggered,
                   silentCycles, burst>>

\* The dial is refused: 'error', then 'close' is pending.
DialRefused ==
    /\ sock = "dialing"
    /\ peer = "refusing"
    /\ sock' = "dying"
    /\ UNCHANGED <<peer, timers, flow, told, backoff, connected>>

\* The connect timeout: it destroys the socket it was armed for.
ConnectTimeout ==
    /\ connectTimer
    /\ connectTimer' = FALSE
    /\ sock' = IF connected THEN sock ELSE "dying"
    /\ UNCHANGED <<peer, flow, told, backoff, connected, reconnectTimer,
                   idleTimer>>

OnData ==
    /\ sock = "open"
    /\ peer = "healthy"
    /\ rxSinceConnect' = TRUE
    /\ silentCycles' = 0
    /\ quiet' = FALSE
    /\ burst' = 0
    /\ UNCHANGED <<peer, timers, told, backoff, conn>>

\* Mutant.
CountSilence_Never == silentCycles' = 0

\* A connection that stalls without having carried a byte is a silent cycle.
CountSilence ==
    silentCycles' = IF rxSinceConnect THEN 0
                    ELSE Saturate(silentCycles + 1,
                                  SILENT_CYCLES_BEFORE_BACKOFF)

\* Mutant.
DestroySocket_Not == UNCHANGED sock

DestroySocket == sock' = "dying"

\* checkIdle(): a connection that stayed quiet for idleTimeoutMs is destroyed.
\* 'close' follows destroy() within one turn of the event loop, before the next
\* one-second check, so a dying socket is never checked.
CheckIdle ==
    /\ idleTimer
    /\ connected /\ ~closing /\ quiet
    /\ sock \in {"open", "halfopen"}
    /\ CountSilence
    /\ stallTriggered' = TRUE
    /\ DestroySocket
    /\ UNCHANGED <<peer, timers, told, connected, attempt, rxSinceConnect,
                   quiet, burst>>

-----------------------------------------------------------------------------
(* scheduleReconnect(), called with reconnectAttempt = a.                  *)

Delay(a) == RECONNECT_DELAYS[Saturate(a + 1, Len(RECONNECT_DELAYS))]

\* The slow retry of a link that connects and never carries a byte.
SlowRetry(a) ==
    /\ silentCycles >= SILENT_CYCLES_BEFORE_BACKOFF
    /\ stallTriggered' = FALSE
    /\ reconnectTimer' = SILENT_RECONNECT_MS
    /\ sock' = "none" /\ connectTimer' = FALSE
    /\ attempt' = a
    /\ UNCHANGED burst

ConsumeFlag == stallTriggered' = FALSE

\* After a stall the backoff is skipped.
RedialNow(a) ==
    /\ silentCycles < SILENT_CYCLES_BEFORE_BACKOFF
    /\ stallTriggered
    /\ ConsumeFlag
    /\ Open
    /\ attempt' = a
    /\ burst' = burst + 1
    /\ UNCHANGED reconnectTimer

NextRung(a) == Saturate(a + 1, Len(RECONNECT_DELAYS))

\* The ladder: one rung up per failed dial, the last rung for ever.
Backoff(a) ==
    /\ silentCycles < SILENT_CYCLES_BEFORE_BACKOFF
    /\ ~stallTriggered
    /\ reconnectTimer' = Delay(a)
    /\ attempt' = NextRung(a)
    /\ sock' = "none" /\ connectTimer' = FALSE
    /\ UNCHANGED <<stallTriggered, burst>>

\* Mutant.
ScheduleReconnect_OnlyWhenUp(a) ==
    /\ reconnectTimer = 0
    /\ IF connected
       THEN SlowRetry(a) \/ RedialNow(a) \/ Backoff(a)
       ELSE /\ sock' = "none" /\ connectTimer' = FALSE
            /\ attempt' = a
            /\ UNCHANGED <<reconnectTimer, stallTriggered, burst>>

ScheduleReconnect(a) ==
    /\ reconnectTimer = 0
    /\ SlowRetry(a) \/ RedialNow(a) \/ Backoff(a)

\* Mutant.
TellDisconnected_Not == UNCHANGED busConnected

TellDisconnected == busConnected' = IF connected THEN FALSE ELSE busConnected

\* onClose(): the 'close' event.  close() removes the listeners, so this never
\* runs once closing is set.
OnClose ==
    /\ sock = "dying"
    /\ ScheduleReconnect(IF connected THEN 0 ELSE attempt)
    /\ connected' = FALSE
    /\ TellDisconnected
    /\ UNCHANGED <<peer, closing, idleTimer, rxSinceConnect, silentCycles,
                   quiet>>

ForgetTimer == reconnectTimer' = 0

\* The reconnect timer: forget the handle, then open().
ReconnectFires ==
    /\ reconnectTimer # 0 /\ ~closing
    /\ ForgetTimer
    /\ Open
    /\ UNCHANGED <<peer, flow, told, backoff, connected, idleTimer>>

\* close(): shutdown.  The disconnected listeners are not called.
Close ==
    /\ idleTimer /\ ~closing
    /\ closing' = TRUE
    /\ reconnectTimer' = 0
    /\ connectTimer' = FALSE
    /\ idleTimer' = FALSE
    /\ sock' = "none"
    /\ connected' = FALSE
    /\ UNCHANGED <<peer, flow, backoff, busConnected>>

-----------------------------------------------------------------------------
(* The environment: the bridge end of the link.                            *)

PeerChanges ==
    /\ peer' \in Peers \ {peer}
    /\ UNCHANGED <<timers, flow, told, backoff, conn>>

\* An open socket loses its other end: with a FIN or RST ("dying"), or without.
Drop ==
    /\ \/ sock = "open" /\ peer # "healthy" /\ sock' \in {"halfopen", "dying"}
       \/ sock = "halfopen" /\ sock' = "dying"
    /\ UNCHANGED <<peer, timers, flow, told, backoff, connected>>

\* idleTimeoutMs go by without a byte.  A healthy link answers a 1 Hz poll.
TimePasses ==
    /\ connected /\ ~quiet
    /\ sock = "halfopen" \/ (sock = "open" /\ peer # "healthy")
    /\ quiet' = TRUE
    /\ UNCHANGED <<peer, timers, told, backoff, conn, rxSinceConnect,
                   silentCycles, burst>>

Next ==
    \/ Start \/ OnConnect \/ DialRefused \/ ConnectTimeout \/ OnData
    \/ CheckIdle \/ OnClose \/ ReconnectFires \/ Close
    \/ PeerChanges \/ Drop \/ TimePasses

Spec == Init /\ [][Next]_vars

\* Timers fire and events are delivered.  A dial to a peer that accepts is not
\* beaten by the connect timeout for ever (hence SF).
Fairness ==
    /\ WF_vars(Start)
    /\ SF_vars(OnConnect)
    /\ WF_vars(DialRefused)
    /\ WF_vars(ConnectTimeout)
    /\ WF_vars(OnData)
    /\ WF_vars(CheckIdle)
    /\ WF_vars(OnClose)
    /\ WF_vars(ReconnectFires)
    /\ WF_vars(TimePasses)

FairSpec == Spec /\ Fairness

-----------------------------------------------------------------------------
(* Properties.                                                             *)

TypeOK ==
    /\ sock \in {"none", "dialing", "open", "halfopen", "dying"}
    /\ connected \in BOOLEAN
    /\ closing \in BOOLEAN
    /\ attempt \in 0..Len(RECONNECT_DELAYS)
    /\ reconnectTimer \in Nat
    /\ connectTimer \in BOOLEAN
    /\ idleTimer \in BOOLEAN
    /\ stallTriggered \in BOOLEAN
    /\ rxSinceConnect \in BOOLEAN
    /\ silentCycles \in 0..SILENT_CYCLES_BEFORE_BACKOFF
    /\ quiet \in BOOLEAN
    /\ busConnected \in BOOLEAN
    /\ peer \in Peers
    /\ burst \in Nat

\* From start() to close() the link is never abandoned: there is a socket whose
\* fate some event will settle, or a reconnect timer, whatever sequence of
\* refusals, timeouts, stalls and drops led here (scheduleReconnect returns
\* early on three different conditions).
NeverStranded ==
    idleTimer => sock # "none" \/ reconnectTimer # 0

\* The reconnect timer and a socket never coexist: a timer that fired into a
\* live connection would destroy it in open() and dial the bridge twice.
\* (Proved; no run.)
OneDialAtATime ==
    reconnectTimer # 0 => sock = "none" /\ ~connected

\* Every dial is under the connect timeout, so a black-holed SYN cannot hang
\* the link for the two minutes of the operating system.  (Proved; no run.)
DialIsWatched ==
    sock = "dialing" => connectTimer

\* The flag that skips the backoff is consumed by the very disconnect the idle
\* check caused; it never leaks into a later, unrelated one.  (Proved; no run.)
StallFlagIsFresh ==
    stallTriggered /\ ~closing => sock = "dying" /\ connected

\* A peer that accepts connections and stays mute is redialled without delay at
\* most SILENT_CYCLES_BEFORE_BACKOFF times since the last byte, over any number
\* of reconnections; after that only the slow retry is left.
BoundedRedialBurst ==
    burst <= SILENT_CYCLES_BEFORE_BACKOFF

\* Between callbacks ControlState.busConnected is what the link knows: no
\* connect or disconnect is reported twice, late or not at all before close().
ListenersAgree ==
    ~closing => (busConnected <=> connected)

\* Once the bridge is and stays healthy, the link ends up on a socket that
\* carries bytes, and stays there: half-open sockets, mute connections, refusals
\* and black holes of the past are all recovered from, unless shutdown began.
Recovers ==
    <>[](peer = "healthy") =>
        <>(closing \/ [](sock = "open" /\ connected /\ silentCycles = 0))
=============================================================================
