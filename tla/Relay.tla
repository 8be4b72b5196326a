------------------------------- MODULE Relay -------------------------------
(***************************************************************************)
(* The whole pump-guardian process: the Guardian over its real connection  *)
(* to the ESP32, class UpstreamClient (apps/guardian/src/upstream.ts).     *)
(* UpstreamClient is BridgeConnection's machine with other listeners, so   *)
(* its callbacks are BridgeLink's actions with `upstream' for _connected;  *)
(* what main() of apps/guardian/src/server.ts hangs on them is Guardian's. *)
(*                                                                         *)
(* One thing differs.  pool-api polls once a second for as long as it is   *)
(* connected, so a healthy bridge is never quiet to it; the guardian only  *)
(* passes bytes on.  With no app and nothing to hold nobody asks the pump  *)
(* anything, and a healthy bridge is as quiet as a dead one.               *)
(***************************************************************************)
EXTENDS Guardian, Sequences

CONSTANTS
    RECONNECT_DELAYS,             \* the backoff ladder, milliseconds
    SILENT_CYCLES_BEFORE_BACKOFF, \* mute connections before the slow retry
    SILENT_RECONNECT_MS           \* the slow retry, milliseconds

ASSUME RelayAssumption ==
    /\ RECONNECT_DELAYS \in Seq(Nat \ {0}) /\ RECONNECT_DELAYS # <<>>
    /\ SILENT_CYCLES_BEFORE_BACKOFF \in Nat \ {0}
    /\ SILENT_RECONNECT_MS \in Nat \ {0}

VARIABLES
    sock, closing, attempt, reconnectTimer, connectTimer, idleTimer, stallTriggered,
    rxSinceConnect, silentCycles, quiet,  \* fields of UpstreamClient
    peer, burst                           \* as in BridgeLink

dial  == <<sock, closing, attempt, reconnectTimer, connectTimer, idleTimer,
           stallTriggered, rxSinceConnect, silentCycles, quiet, burst>>
rvars == <<vars, dial, peer>>

Up == INSTANCE BridgeLink WITH
        connected <- upstream, busConnected <- upstream

RInit == Init /\ Up!Init

-----------------------------------------------------------------------------
(* The callbacks of UpstreamClient.                                        *)

UpStart == Up!Start /\ UNCHANGED vars

UpConnect == UpstreamConnected /\ Up!OnConnect

UpFails == (Up!DialRefused \/ Up!ConnectTimeout) /\ UNCHANGED vars

\* Somebody's bytes are written and not discarded: write() needs the link, and
\* only the app (1 Hz polls) and the hold (keep-alives) have bytes to write.
Talking == upstream /\ (client # NoClient \/ state = "holding")

\* The pump answers what it is asked; the answer is passed on to the app.
UpData == Talking /\ Up!OnData /\ UNCHANGED vars

UpIdle == Up!CheckIdle /\ UNCHANGED vars

\* Mutant.
Listener_EveryClose == UpstreamDisconnected \/ (~upstream /\ lostTimer' = GRACE
    /\ out' = "none" /\ UNCHANGED <<rx, hold, net, upstream, downFor>>)

\* onClose() calls the disconnected listener only if the link had been up.
Listener == UpstreamDisconnected \/ (~upstream /\ UNCHANGED vars)

UpClose == Listener /\ Up!OnClose

UpRedial == Up!ReconnectFires /\ UNCHANGED vars

\* idleTimeoutMs go by without a byte: the ESP32 does not relay, or it was not
\* asked anything.
UpQuiet ==
    /\ upstream /\ ~quiet
    /\ sock = "halfopen" \/ (sock = "open" /\ ~(peer = "healthy" /\ Talking))
    /\ quiet' = TRUE
    /\ UNCHANGED <<vars, peer, sock, closing, attempt, reconnectTimer, connectTimer,
                   idleTimer, stallTriggered, rxSinceConnect, silentCycles,
                   burst>>

Environment == (Up!PeerChanges \/ Up!Drop) /\ UNCHANGED vars

-----------------------------------------------------------------------------
(* The rest of the process: what needs no step of the upstream.            *)

Downstream ==
    /\ \/ \E c \in Clients : Connect(c) \/ Data(c) \/ Closed(c)
       \/ OnTick \/ GraceOver \/ Tick
    /\ UNCHANGED <<dial, peer>>

\* shutdown() or a crash, and the next process.
ProcessRestarts ==
    /\ Restart
    /\ sock' = "none" /\ closing' = FALSE /\ attempt' = 0
    /\ reconnectTimer' = 0 /\ connectTimer' = FALSE /\ idleTimer' = FALSE
    /\ stallTriggered' = FALSE /\ rxSinceConnect' = FALSE
    /\ silentCycles' = 0 /\ quiet' = FALSE /\ burst' = 0
    /\ UNCHANGED peer

RNext ==
    \/ UpStart \/ UpConnect \/ UpFails \/ UpData \/ UpIdle \/ UpClose
    \/ UpRedial \/ UpQuiet \/ Environment
    \/ Downstream \/ ProcessRestarts

RSpec == RInit /\ [][RNext]_rvars

\* As for BridgeLink and Guardian: timers fire and events are delivered.
RFairSpec ==
    /\ RSpec
    /\ WF_rvars(UpStart) /\ WF_rvars(UpFails) /\ WF_rvars(UpData)
    /\ SF_rvars(UpConnect)
    /\ WF_rvars(UpIdle) /\ WF_rvars(UpClose) /\ WF_rvars(UpRedial)
    /\ WF_rvars(UpQuiet)

-----------------------------------------------------------------------------
(* Properties.                                                             *)

\* Over the real upstream, with its dials, timeouts, stalls and slow retries,
\* the process is still the Guardian: the link goes up and down, and the grace
\* timer is armed and cleared, exactly as Guardian lets it.  Every safety
\* property proved of Guardian therefore holds of the process.
ImplementsGuardian == Spec

\* upstream.ts:9-17: redialling must not exhaust the sockets of the ESP32.  Not
\* even in the nights without an app, when a healthy bridge is taken for a mute
\* one, is it redialled without delay more than the threshold allows.
GentleOnTheBridge == Up!BoundedRedialBurst

\* Whatever the upstream went through before, and however often it was taken
\* for mute while nobody talked, it comes back, and stays, once the ESP32 is
\* healthy and an app stays on the line.
ServiceReturns ==
    <>[](peer = "healthy" /\ client # NoClient) => <>[](sock = "open" /\ upstream)
=============================================================================
