------------------------------ MODULE LivePage ------------------------------
(***************************************************************************)
(* The live page of the web app against pool-api: the store with its       *)
(* optimistic control state (apps/web/src/lib/store.ts, controls.ts), the  *)
(* live socket with its fallback to a simulator (socket.ts), the control   *)
(* pad and the speed slider, and on the other side the control endpoints   *)
(* and broadcasts of pool-api.                                             *)
(*                                                                         *)
(* Requests are HTTP and may overtake each other; the events of one socket *)
(* arrive in order.  Speeds further apart than the slider's 90 rpm are     *)
(* told apart, others are the same speed.                                  *)
(***************************************************************************)
EXTENDS Integers, Sequences, SequencesExt

CONSTANTS
    Rpms,             \* speeds of the pad and the slider; 0 is Off
    SCHEDULED_RPM,    \* what the schedule asks for
    DEMO_RPM,         \* the simulator's speed in schedule mode
    MAX_COMMANDS,     \* bound: taps, slides and commands of other clients
    MAX_LOST,         \* bound: lost requests and dropped sockets
    MAX_LIVE          \* bound: events on their way to the page when a poll
                      \* answer joins them

ASSUME LivePageAssumption ==
    /\ Rpms \subseteq Nat /\ 0 \in Rpms
    /\ SCHEDULED_RPM \in Rpms /\ DEMO_RPM \in Rpms
    /\ MAX_COMMANDS \in Nat /\ MAX_LOST \in Nat /\ MAX_LIVE \in Nat \ {0}

VARIABLES
    srv,              \* ControlState of pool-api: mode and manual speed
    pump,             \* the speed the pump runs at
    posts,            \* control requests under way, oldest first
    live,             \* events on their way to the page, oldest first
    sock,             \* the live socket: up or down
    connected, control, rpm,   \* the store: connected, control, telemetry.rpm
    failures, demo, demoState, \* socket.ts: failures, demoTimer, demoMode/Target
    pending, debounce,         \* the slider: pending, debounceRef
    unheard,          \* history: a request was lost since the last broadcast
    interfered,       \* history: the newest slide was interfered with
    commands, lost    \* how much of the bounds is used

server == <<srv, pump>>
link   == <<sock, connected, failures, demo>>
slider == <<pending, debounce>>
lbounds == <<commands, lost>>
lvars   == <<server, posts, live, link, control, rpm, demoState, slider,
            unheard, interfered, lbounds>>

State(mode, speed) == [mode |-> mode, rpm |-> speed]

NoState == State("none", 0)   \* null
NoRpm   == -1                 \* null

\* toDTO().
Dto(s) == State(s.mode, IF s.mode = "schedule" THEN SCHEDULED_RPM ELSE s.rpm)

Control(s) == [event |-> "controlState", state |-> Dto(s)]
Telemetry  == [event |-> "telemetry", rpm |-> pump]

LiveInit ==
    /\ srv = State("schedule", 0) /\ pump = SCHEDULED_RPM
    /\ posts = <<>> /\ live = <<>>
    /\ sock = "down" /\ connected = FALSE /\ failures = 0 /\ demo = FALSE
    /\ demoState = State("schedule", DEMO_RPM)
    /\ control = NoState /\ rpm = NoRpm
    /\ pending = NoRpm /\ debounce = NoRpm
    /\ unheard = FALSE /\ interfered = FALSE
    /\ commands = 0 /\ lost = 0

Command == commands < MAX_COMMANDS /\ commands' = commands + 1

LostOne == lost < MAX_LOST /\ lost' = lost + 1

-----------------------------------------------------------------------------
(* controls.ts: the store is changed before the request is sent, and the   *)
(* outcome of the request is ignored.                                      *)

Optimistic(mode, speed) == control' = State(mode, speed)

Post(s) == posts' = Append(posts, s)

CommandSetRpm(r) ==
    /\ Optimistic("manual", r)
    /\ demoState' = State(IF r > 0 THEN "manual" ELSE "off", r)
    /\ Post(State("manual", r))

CommandResume ==
    /\ Optimistic("schedule", control.rpm)
    /\ demoState' = State("schedule", DEMO_RPM)
    /\ Post(State("schedule", 0))

\* The control pad: a speed, Off, or Schedule.
Tap ==
    /\ Command
    /\ CommandResume \/ \E r \in Rpms : CommandSetRpm(r)
    /\ interfered' = TRUE
    /\ UNCHANGED <<server, live, link, rpm, slider, unheard, lost>>

-----------------------------------------------------------------------------
(* RadialRpmSlider.                                                        *)

\* Mutant.
Debounced_First(r) == IF debounce = NoRpm THEN r ELSE debounce

\* clearTimeout(), setTimeout(): only the newest speed is sent.
Debounced(r) == r

\* onPointerUp: the drag is committed.
Commit(r) ==
    /\ Command
    /\ pending' = r
    /\ debounce' = Debounced(r)
    /\ interfered' = FALSE
    /\ UNCHANGED <<server, posts, live, link, control, rpm, demoState,
                   unheard, lost>>

\* 350 ms later.
OnApply ==
    /\ debounce # NoRpm
    /\ CommandSetRpm(debounce)
    /\ debounce' = NoRpm
    /\ UNCHANGED <<server, live, link, rpm, pending, unheard, interfered, lbounds>>

\* The effect on [actual, pending]: the pump stayed at the speed for 600 ms.
Settle ==
    /\ pending # NoRpm /\ rpm = pending
    /\ pending' = NoRpm
    /\ UNCHANGED <<server, posts, live, link, control, rpm, demoState, debounce,
                   unheard, interfered, lbounds>>

-----------------------------------------------------------------------------
(* pool-api: the control endpoints, and the broadcasts to the namespace.   *)

Emit(e) == live' = IF sock = "up" THEN Append(live, e) ELSE live

SetControl(s) ==
    /\ srv' = IF s.mode = "schedule" THEN [srv EXCEPT !.mode = "schedule"] ELSE s
    /\ Emit(Control(srv'))
    /\ UNCHANGED pump

PostArrives(i) ==
    /\ SetControl(posts[i])
    /\ posts' = RemoveAt(posts, i)
    /\ interfered' = (interfered \/ i # 1)
    /\ UNCHANGED <<link, control, rpm, demoState, slider, unheard, lbounds>>

\* The request does not reach pool-api, or is refused (401 after the session
\* has expired): the page ignores it.
PostFails(i) ==
    /\ LostOne
    /\ posts' = RemoveAt(posts, i)
    /\ unheard' = TRUE /\ interfered' = TRUE
    /\ UNCHANGED <<server, live, link, control, rpm, demoState, slider,
                   commands>>

\* Another browser, the end of an override, the clock.
OtherCommand ==
    /\ Command
    /\ \E s \in [mode: {"manual"}, rpm: Rpms] \cup {State("schedule", 0)} :
         SetControl(s)
    /\ interfered' = TRUE
    /\ UNCHANGED <<posts, link, control, rpm, demoState, slider, unheard,
                   lost>>

\* The pump obeys, and answers the polls.
PumpFollows ==
    /\ pump # Dto(srv).rpm
    /\ pump' = Dto(srv).rpm
    /\ UNCHANGED <<srv, posts, live, link, control, rpm, demoState, slider,
                   unheard, interfered, lbounds>>

Report ==
    /\ sock = "up" /\ Len(live) < MAX_LIVE
    /\ live' = Append(live, Telemetry)
    /\ UNCHANGED <<server, posts, link, control, rpm, demoState, slider,
                   unheard, interfered, lbounds>>

-----------------------------------------------------------------------------
(* socket.ts.                                                              *)

\* Mutant.
Greeting_None == <<>>

\* pool-api greets a new socket with the control state.
Greeting == <<Control(srv)>>

StopDemo == demo' = FALSE

OnConnect ==
    /\ sock = "down"
    /\ sock' = "up" /\ connected' = TRUE /\ failures' = 0
    /\ StopDemo
    /\ live' = Greeting
    /\ UNCHANGED <<server, posts, control, rpm, demoState, slider, unheard,
                   interfered, lbounds>>

OnDisconnect ==
    /\ sock = "up"
    /\ LostOne
    /\ sock' = "down" /\ connected' = FALSE
    /\ live' = <<>>
    /\ UNCHANGED <<server, posts, failures, demo, control, rpm, demoState,
                   slider, unheard, interfered, commands>>

\* The second failure in a row starts the simulator.
OnConnectError ==
    /\ sock = "down" /\ failures < 2
    /\ failures' = failures + 1
    /\ IF failures' = 2 THEN demo' = TRUE /\ connected' = FALSE
                        ELSE UNCHANGED <<demo, connected>>
    /\ UNCHANGED <<server, posts, live, sock, control, rpm, demoState,
                   slider, unheard, interfered, lbounds>>

\* One tick of the simulator's interval.
DemoTick ==
    /\ demo
    /\ rpm' = demoState.rpm
    /\ control' = demoState
    /\ UNCHANGED <<server, posts, live, link, demoState, slider, unheard,
                   interfered, lbounds>>

OnEvent ==
    /\ live # <<>>
    /\ live' = Tail(live)
    /\ IF Head(live).event = "telemetry"
       THEN /\ rpm' = Head(live).rpm
            /\ UNCHANGED <<control, unheard>>
       ELSE /\ control' = Head(live).state
            /\ unheard' = FALSE
            /\ UNCHANGED rpm
    /\ UNCHANGED <<server, posts, sock, connected, failures, demo, demoState,
                   slider, interfered, lbounds>>

LiveNext ==
    \/ Tap \/ OnApply \/ Settle \/ \E r \in Rpms : Commit(r)
    \/ \E i \in DOMAIN posts : PostArrives(i) \/ PostFails(i)
    \/ OtherCommand \/ PumpFollows \/ Report
    \/ OnConnect \/ OnDisconnect \/ OnConnectError \/ DemoTick \/ OnEvent

LiveSpec == LiveInit /\ [][LiveNext]_lvars

-----------------------------------------------------------------------------
(* Properties.                                                             *)

\* controls.ts:10-11: the broadcast "confirms (or corrects)" what a tap showed
\* at once.  When nothing is under way the page shows the control state of the
\* server, whatever overtook what, however often the socket was lost or the
\* simulator stood in; only a request that failed leaves the page wrong, and
\* then until the next broadcast.
ShowsServer ==
    /\ sock = "up" /\ posts = <<>>
    /\ \A e \in Range(live) : e.event # "controlState"
    /\ ~unheard
    => control = Dto(srv)

\* A speed set with the slider gets to the pump and back: it stops saying
\* "applying" unless a request failed or was overtaken, or somebody sent another
\* command after it, the pad of this very page included.
SliderSettles ==
    []<>(pending = NoRpm \/ interfered)
=============================================================================
