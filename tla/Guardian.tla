------------------------------ MODULE Guardian ------------------------------
(***************************************************************************)
(* The failover guardian between pool-api and the ESP32 bridge: class      *)
(* Guardian (apps/guardian/src/guardian.ts) together with the socket       *)
(* handling of apps/guardian/src/server.ts that drives it.                 *)
(*                                                                         *)
(* Time advances in ticks.  A timer is a countdown, NoTimer when null; a   *)
(* timer that is due fires before time goes on.  The link to the ESP32 is  *)
(* up or down as the environment likes (BridgeLink models its machinery).  *)
(***************************************************************************)
EXTENDS Integers

CONSTANTS
    Clients,          \* sockets pool-api may connect with
    NoClient,         \* client === null
    Rpms,             \* setpoints the app may send (pool-api clamps them)
    KEEP_ALIVE,       \* cfg.keepAliveMs, in ticks
    FAILOVER_MAX,     \* cfg.failoverMaxMs, in ticks
    GRACE             \* UPSTREAM_LOST_GRACE_MS, in ticks

ASSUME GuardianAssumption ==
    /\ NoClient \notin Clients
    /\ Rpms \subseteq Nat \ {0}
    /\ KEEP_ALIVE \in Nat \ {0}
    /\ FAILOVER_MAX \in Nat \ {0}
    /\ GRACE \in Nat \ {0}

VARIABLES
    state,           \* _state: relaying, holding, idle
    intent,          \* remoteEnabled, running, rpm as last observed
    rxBuf,           \* the frame whose first bytes are buffered, or NoFrame
    rxFrom,          \* history: the socket those bytes came from
    keepAliveTimer,  \* ticks to the next onTick, or NoTimer
    failoverDeadline,\* failoverDeadline - Date.now(), while holding
    client,          \* the current downstream socket
    socks,           \* each socket: closed, open, destroyed ('close' pending)
    upstream,        \* upstream.connected
    lostTimer,       \* upstreamLostTimer
    downFor,         \* history: ticks upstream has been down, up to GRACE
    out              \* history: what the guardian itself wrote in this step

rx   == <<intent, rxBuf, rxFrom>>
hold == <<state, keepAliveTimer, failoverDeadline>>
net  == <<client, socks>>
link == <<upstream, lostTimer, downFor>>
vars == <<rx, hold, net, link, out>>

NoTimer == -1

\* The frames the guardian tells apart; every other frame is "other".
Frames == [cmd: {"remote", "run"}, val: {0, 1}]
            \cup [cmd: {"rpm"}, val: Rpms]
            \cup {[cmd |-> "other", val |-> 0]}

NoFrame == [cmd |-> "none", val |-> 0]

Intents == [remote: BOOLEAN, running: BOOLEAN, rpm: Rpms \cup {0}]

InitialIntent == [remote |-> FALSE, running |-> FALSE, rpm |-> 0]

Init ==
    /\ state = "idle"
    /\ intent = InitialIntent
    /\ rxBuf = NoFrame /\ rxFrom = NoClient
    /\ keepAliveTimer = NoTimer
    /\ failoverDeadline = 0
    /\ client = NoClient
    /\ socks = [c \in Clients |-> "closed"]
    /\ upstream = FALSE
    /\ lostTimer = NoTimer
    /\ downFor = 0
    /\ out = "none"

-----------------------------------------------------------------------------
(* The parts of class Guardian.                                            *)

IntentIsRunning(i) == i.remote /\ i.running /\ i.rpm > 0

\* sniff(): fold one observed frame into the intent.
Sniff(i, f) ==
    CASE f.cmd = "remote" -> [i EXCEPT !.remote = (f.val = 1)]
      [] f.cmd = "run"    -> [i EXCEPT !.running = (f.val = 1)]
      [] f.cmd = "rpm"    -> [i EXCEPT !.rpm = f.val]
      [] OTHER            -> i

\* sendKeepAlive() and sendRelease(): silent while the ESP32 is unreachable.
Write(what) == out' = IF upstream THEN what ELSE "none"

StopFailover == keepAliveTimer' = NoTimer

\* startFailover(): one interval, one deadline, and an immediate keep-alive.
StartFailover ==
    /\ state' = "holding"
    /\ failoverDeadline' = FAILOVER_MAX
    /\ keepAliveTimer' = KEEP_ALIVE
    /\ Write("keepalive")

\* setClientConnected(false).
ClientGone ==
    IF IntentIsRunning(intent)
    THEN StartFailover
    ELSE /\ state' = "idle"
         /\ out' = "none"
         /\ UNCHANGED <<keepAliveTimer, failoverDeadline>>

\* Mutant.
PastDeadline_Never == FALSE

PastDeadline == failoverDeadline <= 0

\* onTick(): at the ceiling release and go idle, before it hold on.
OnTick ==
    /\ keepAliveTimer = 0
    /\ IF PastDeadline
       THEN /\ Write("release")
            /\ StopFailover
            /\ state' = "idle"
       ELSE /\ Write("keepalive")
            /\ keepAliveTimer' = KEEP_ALIVE
            /\ UNCHANGED state
    /\ UNCHANGED <<rx, net, link, failoverDeadline>>

-----------------------------------------------------------------------------
(* The server around it.                                                   *)

\* Mutant.
ResetBuffer_Not == UNCHANGED <<rxBuf, rxFrom>>

ResetBuffer == rxBuf' = NoFrame /\ rxFrom' = NoClient

\* A connection arrives: the latest one wins, and takes the bus.
Connect(c) ==
    /\ socks[c] = "closed"
    /\ socks' = [s \in Clients |-> CASE s = c      -> "open"
                                     [] s = client -> "destroyed"
                                     [] OTHER      -> socks[s]]
    /\ client' = c
    /\ StopFailover
    /\ ResetBuffer
    /\ state' = "relaying"
    /\ out' = "none"
    /\ UNCHANGED <<link, intent, failoverDeadline>>

\* A chunk arrives from a socket that is still open: it is forwarded as it is
\* and observed.  TCP may cut it inside a frame: the chunk holds the frame f,
\* its first bytes, or the bytes that complete the buffered frame.
Data(c) ==
    /\ socks[c] = "open"
    /\ \/ \E f \in Frames :
            /\ rxBuf = NoFrame
            /\ \/ intent' = Sniff(intent, f) /\ UNCHANGED <<rxBuf, rxFrom>>
               \/ rxBuf' = f /\ rxFrom' = c /\ UNCHANGED intent
       \/ /\ rxBuf # NoFrame
          /\ intent' = Sniff(intent, rxBuf)
          /\ rxBuf' = NoFrame /\ rxFrom' = NoClient
    /\ out' = "none"
    /\ UNCHANGED <<hold, net, link>>

\* Mutant.
IsClient_Any(c) == TRUE

IsClient(c) == client = c

\* The 'close' event of a socket, whichever end closed it.  Only the close of
\* the current client means that the app is gone.
Closed(c) ==
    /\ socks[c] # "closed"
    /\ socks' = [socks EXCEPT ![c] = "closed"]
    /\ IF IsClient(c)
       THEN client' = NoClient /\ ClientGone
       ELSE /\ out' = "none"
            /\ UNCHANGED <<hold, client>>
    /\ UNCHANGED <<rx, link>>

\* Mutant.
ClearUpstreamLostTimer_Not == UNCHANGED lostTimer

ClearUpstreamLostTimer == lostTimer' = NoTimer

UpstreamConnected ==
    /\ ~upstream
    /\ upstream' = TRUE
    /\ ClearUpstreamLostTimer
    /\ downFor' = 0
    /\ out' = "none"
    /\ UNCHANGED <<rx, hold, net>>

UpstreamDisconnected ==
    /\ upstream
    /\ upstream' = FALSE
    /\ lostTimer' = IF lostTimer # NoTimer THEN lostTimer ELSE GRACE
    /\ downFor' = 0
    /\ out' = "none"
    /\ UNCHANGED <<rx, hold, net>>

\* Mutant.
DestroyClient_Not == UNCHANGED socks

DestroyClient == socks' = [socks EXCEPT ![client] = "destroyed"]

\* The grace timer: tear the app down if the ESP32 did not come back.
GraceOver ==
    /\ lostTimer = 0
    /\ lostTimer' = NoTimer
    /\ IF upstream \/ client = NoClient THEN UNCHANGED socks ELSE DestroyClient
    /\ out' = "none"
    /\ UNCHANGED <<rx, hold, client, upstream, downFor>>

\* The guardian's own process stops (SIGTERM, crash) and is started again:
\* every socket is gone and so is the intent.
Restart ==
    /\ state' = "idle"
    /\ intent' = InitialIntent
    /\ rxBuf' = NoFrame /\ rxFrom' = NoClient
    /\ keepAliveTimer' = NoTimer
    /\ failoverDeadline' = 0
    /\ client' = NoClient
    /\ socks' = [c \in Clients |-> "closed"]
    /\ upstream' = FALSE
    /\ lostTimer' = NoTimer
    /\ downFor' = 0
    /\ out' = "none"

CountDown(t) == IF t = NoTimer THEN NoTimer ELSE t - 1

Tick ==
    /\ keepAliveTimer # 0 /\ lostTimer # 0
    /\ keepAliveTimer' = CountDown(keepAliveTimer)
    /\ lostTimer' = CountDown(lostTimer)
    /\ failoverDeadline' =
         IF state = "holding" THEN failoverDeadline - 1 ELSE failoverDeadline
    /\ downFor' = IF ~upstream /\ downFor < GRACE THEN downFor + 1 ELSE downFor
    /\ out' = "none"
    /\ UNCHANGED <<rx, net, state, upstream>>

Next ==
    \/ \E c \in Clients : Connect(c) \/ Data(c) \/ Closed(c)
    \/ OnTick \/ GraceOver \/ Tick
    \/ UpstreamConnected \/ UpstreamDisconnected
    \/ Restart

Spec == Init /\ [][Next]_vars

\* Time passes, timers fire, and 'close' follows destroy().  Nothing obliges
\* the app to connect, to talk or to leave, or the ESP32 to come back.
Fairness ==
    /\ WF_vars(Tick)
    /\ WF_vars(OnTick)
    /\ WF_vars(GraceOver)
    /\ \A c \in Clients : WF_vars(socks[c] = "destroyed" /\ Closed(c))

FairSpec == Spec /\ Fairness

-----------------------------------------------------------------------------
(* Properties.                                                             *)

TypeOK ==
    /\ state \in {"relaying", "holding", "idle"}
    /\ intent \in Intents
    /\ rxBuf \in Frames \cup {NoFrame}
    /\ keepAliveTimer \in -1..KEEP_ALIVE
    /\ rxFrom \in Clients \cup {NoClient}
    /\ failoverDeadline \in Int
    /\ client \in Clients \cup {NoClient}
    /\ socks \in [Clients -> {"closed", "open", "destroyed"}]
    /\ upstream \in BOOLEAN
    /\ lostTimer \in -1..GRACE
    /\ downFor \in 0..GRACE
    /\ out \in {"none", "keepalive", "release"}

\* "Single bus writer at all times": the guardian's interval runs only while no
\* app is connected, whatever the order in which the close of a superseded
\* socket and the connect of its successor are delivered, and no interval is
\* ever orphaned by a change of state.
SingleWriter ==
    /\ state = "relaying" <=> client # NoClient
    /\ keepAliveTimer # NoTimer <=> state = "holding"
    /\ \A c \in Clients : socks[c] = "open" => client = c

\* What the guardian holds is a running setpoint: enabled, running and with a
\* speed, from the first keep-alive to the end of the hold.  (Proved; no run.)
HoldsRunningOnly ==
    state = "holding" =>
        intent \in [remote: {TRUE}, running: {TRUE}, rpm: Rpms]

\* The ceiling: a hold ends less than one keep-alive period after the deadline,
\* although the deadline is only looked at when the interval fires.
HoldBounded ==
    state = "holding" => failoverDeadline > -KEEP_ALIVE

\* Bytes buffered from one connection are never completed with bytes of the
\* next one: a command cut in two by a crash cannot merge with a new command.
NoStitchedFrame ==
    rxFrom # NoClient /\ client # NoClient => rxFrom = client

\* Every byte the guardian writes itself is written with no app connected, and
\* a keep-alive only before the deadline.  (Proved; no run.)
WritesAlone ==
    [][out' # "none" => /\ \A c \in Clients : socks'[c] # "open"
                        /\ out' = "keepalive" => failoverDeadline' > 0]_vars

\* The guardian cuts its own client off only after the ESP32 has been gone for
\* the whole grace period without a break; blips never reach pool-api.
TeardownJustified ==
    [][\A c \in Clients :
         socks[c] = "open" /\ socks'[c] = "destroyed" /\ client' = c
           => ~upstream /\ downFor >= GRACE]_vars

\* An outage that outlasts the grace period does reach the app that was
\* connected when it began: its connection ends unless the ESP32 comes back.
OutageReachesApp ==
    \A c \in Clients :
        (lostTimer # NoTimer /\ client = c) ~> (upstream \/ client # c)
=============================================================================
