# PoolPilot in TLA+

PoolPilot drives a pool pump over an RS-485 bus. Its design rule is in the
repository's README: a pump "must never end up silently stopped because a hobby
app crashed". The app only overrides the pump, the override lives as long as a
keep-alive, and everything that can die (the browser, the app, the database, the
guardian, the ESP32, the link) has something behind it that takes over or lets
go. That rule is spread over asynchronous callbacks, timers and three processes,
which is what these modules check.

    browser -- REST, WebSocket --> pool-api -- TCP --> pool-guardian -- TCP --> ESP32 -- RS-485 --> pump
                                     |
                                    SQL
                                     v
                                  Postgres

Contents: 1 inventory, 2 modules, 3 runs, 4 fairness, 5 proofs,
6 disagreements found, 7 what is not modelled, 8 plan.

## 1. Inventory

Paths are relative to the repository (`src/` here).

| part | its state | its operations | properties that make it correct |
|---|---|---|---|
| **pump-guardian** `apps/guardian/src/guardian.ts`, `server.ts` | `_state`, the observed intent, buffered bytes, keep-alive interval, deadline; current client, grace timer | connect, data, close of app sockets; keep-alive tick; upstream up and down; grace timer | writes only when no app is connected; holds only a running setpoint; never past the ceiling; passes outages on, not blips |
| **Bridge connection** `apps/api/src/bridge/connection.ts` | socket, backoff position, three timers, stall and silence counters, receive buffer | start, open, connect, data, error, close, idle check, write, shutdown | never abandoned, never dialled twice, bounded redialling, listeners told the truth |
| **Upstream client** `apps/guardian/src/upstream.ts` | the same machine for the guardian's own link | the same | the same, and for nights without an app |
| **Control loop** `apps/api/src/core/{controlState,engine,commandQueue,poller}.ts`, `server.ts` | mode, speeds, override end, link flag; last applied mode; job queue and the write in flight | requests, scheduler notifications, keep-alive, poll, link up and down, write outcomes | the latest intent reaches the pump; a release is real; an override ends |
| **Schedules** `apps/api/src/db/repos/schedules.ts`, `core/scheduler.ts`, `api/rest.ts` | rows; the scheduler's cached copy | create, update, delete, activate, reload (per request and every 30 s) | the engine runs what the database says |
| **Schedule clock** `core/scheduler.ts`, `apps/web/src/lib/schedule.ts`, `components/ActiveScheduleCard.tsx` | none (functions of schedules and time) | speed in force; timeline; live card | engine, timeline and card agree |
| **Telemetry** `apps/api/src/db/repos/telemetry.ts` | buffer, batches under way, rows | record, flush, purge, queries | each sample in one place; a reset is a reset |
| **Wire protocol** `packages/protocol/src` | none; readers keep a remainder | build, scan, decode, commands | what is read is what was sent |
| **REST, sockets, sessions** `apps/api/src/api` | session secret, login attempts | control, schedule, settings, reset endpoints | they are the requests of the models |
| **Life of pool-api** `apps/api/src/server.ts` | what is running; the shutdown under way | boot, shutdown in its order, crash | a shutdown hands the pump back and keeps the samples |
| **Settings and persisted intent** `apps/api/src/db/repos/settings.ts` | one row; queries under way | load, save, update and read back | a restart resumes the last intent; saved settings are in force |
| **Broadcaster and socket server** `apps/api/src/api/{broadcaster,socket}.ts` | connected browsers | broadcast, greet | a browser that connects is told the state |
| **Watchdog, events** | none, or an append-only log | snapshot, insert | |
| **Database pool, migrations** `apps/api/src/db` | pool, schema | query, migrate | |
| **Energy aggregates** `apps/api/src/energy.ts`, `db/repos/telemetry.ts`, `api/rest.ts` | none | curves of power and flow, hourly buckets, summary, speed bands | what the page reports is what the pump did, also when samples are missing or repeated |
| **Web app: live page** `apps/web/src/lib/{store,controls,socket}.ts`, `components/{RadialRpmSlider,ControlPad}.tsx` | store with the optimistic control state; socket and failures; simulator; pending slide and its timer | taps, slides, broadcasts, fallback and return | shows what the server says; never passes the simulator off as live; a slide settles |
| **Web app: schedule page** `apps/web/src/app/schedule/page.tsx` | the list, the selection, `busy`; the seeding flag in `localStorage` | first load and seeding, pick, new, save, use, delete | one schedule active; the running one stays; the page shows the rows |
| **Web app: energy page** `apps/web/src/app/energy/page.tsx` | range, data, the reset under way | select a range, load, reset the statistics | shows the range that is selected, and nothing a reset wiped |
| **Web app: settings page, components** `apps/web/src/app/settings`, `components` | forms | edit settings, charts | |
| **Configuration, scripts, firmware, deployment** | | | |

How they interact:

- pool-api's requests, its schedule tick and its keep-alive interval all change or
  read one `ControlState` object, whose change callback starts `Engine.apply()`.
  `apply()` awaits the queue once per frame, so several of its runs are under way
  at once, and no lock orders them.
- The queue writes one job at a time through `BridgeConnection.write`, with a gap
  between jobs. Jobs are dropped when they are too many or too old.
- The guardian forwards the bytes and observes them. A frame of pool-api reaches
  guardian and pump alike, so what the guardian believes of the app is what the
  pump was told.
- The socket events of the link set `busConnected`, which runs `apply()` on
  connect. In the guardian they arm and disarm the grace timer.
- Every schedule request reloads the schedules without waiting for other reloads.
- Every change of the intent is saved, and nobody waits for the save. At boot the
  row is read once.
- The browser shows a tap before it posts it, and corrects itself from the
  broadcasts; requests and broadcasts travel on different connections.
- The schedule page decides from the list it has read what it writes: which presets
  to create, and whether the one it saves is enabled. Every write is followed by a
  new list. Other browsers write the same rows.
- The energy page sends three queries per load, which are answered one by one while
  the pump is sampled and the table may be wiped.

What is hard: overlapping chains of `apply()`, half-updated state between two
notifications, bytes of a write that "failed", lost releases, stall detection
against backoff, the close event of a superseded socket, deadlines checked by an
interval, reloads that overtake each other, queries whose answer is lost, flushes
against resets and shutdown, saves nobody waits for, optimistic state against late
broadcasts, writes decided from a list that has changed since, loads that overtake
each other, timeouts of one link that add up with the timer of another, frames cut
by TCP, noise that looks like a header. `PROJECT.json`
lists each under "hazards" at the line where it bites, with the properties that
watch it.

## 2. Modules

The state of a module has the names of the code's fields, and an action is one
callback of the Node event loop, with everything it does until it returns or
awaits. Variables described as *history* do not exist in the code; they let a
property speak of the past and appear in no guard. (The counters that bound a
model, such as `requests` and `faults`, do appear in guards, and each is declared
with the constant that bounds it.) Definitions named `X_Something` under the
comment "Mutant" are plausible bugs of the definition `X` that follows them. No
action uses them: they show that the properties are able to fail.

### BridgeLink (class `BridgeConnection`)

`sock` is the socket: `none`, `dialing`, `open`, `halfopen` (the other end is
gone and no FIN came), `dying` (destroyed or ended, the `close` event pending,
because Node delivers it later). Each of `Start`, `OnConnect`, `DialRefused`,
`ConnectTimeout`, `OnData`, `CheckIdle`, `OnClose`, `ReconnectFires`, `Close` is
the handler of that name. `scheduleReconnect` is three disjuncts, `SlowRetry`,
`RedialNow` and `Backoff`, under its early return. Two counters saturate where
the code stops telling their values apart: `attempt` at the end of the ladder,
`silentCycles` at its threshold. Times are not numbers here: `quiet` says that
the idle timeout has passed. `peer` is the ESP32, which changes at will.
`upstream.ts` is the same program line by line with other listeners, which Relay
uses.

### TimedLink (BridgeLink with a clock)

Extends BridgeLink with the numbers it leaves out: the age of the last byte
(`age`), the timers of the idle check, the keep-alive and the reconnect, and
`silence`, the time since a command has reached the pump. `Tick` is a unit of time,
and time does not pass a callback that is due. Each other action is an action of
BridgeLink with what it does to the clock. The faults are as mild as they come: a
bridge that loses its socket without a word and is back at once (`Away`, `Lost`,
`Back`).

### Guardian (class `Guardian` and `server.ts`)

`socks` has every app socket with its pending `close`; `client` is the one the
server thinks is current. `Connect` is the connection handler (destroy the
predecessor, stop the hold, reset the buffer). `Data` is one chunk that is a whole
frame, the beginning of one, or its end. `Closed` is the `close` event, whoever's
it is. `OnTick` is the interval, `GraceOver` the grace timer, `Restart` the
guardian's own process. Time is in ticks: timers count down, and time does not
pass a timer that is due. `intent` is what `sniff()` has learned. `out` is what
the guardian itself wrote in the last step.

### ControlLoop (`ControlState`, `Engine`, `CommandQueue`, `Poller`, `Scheduler.tick`)

`cs` is the `ControlState`. A call of `apply()` that decides to act starts a
*chain*, the frames it will send one after the other. A job in the queue carries
the rest of its chain: when its write is done the next frame is queued, which is
what `await` does in the code. `Realize` is the body of `apply()`, `Applied` the
state change of `tickOverride()` inside it, and `Apply` counts that the
notification of an expiry runs `apply()` again within `apply()`. `Send`, `GapOver`,
`WriteFlushed`, `WriteTimesOut` are `CommandQueue.send`, `drain` and
`BridgeConnection.write`. A write that times out leaves its bytes in the socket
(`wire`). `heard` is what the far end has been told.

### Failsafe (ControlLoop with the guardian and the pump)

Extends ControlLoop with the guardian's reaction to the app's connection, its
ceiling, and the pump's own timeout, counted in keep-alive periods (`missed`). That
clock runs on whatever is under way: a period may end with the frames of the one
before still in the queue, in a write that does not return, or in an open socket that
delivers nothing, so a keep-alive may be late as well as lost, and the pump then
leaves a live app. `cutOff` is history: for how many periods there has been no moment
at which all that the app had sent was heard (`AllHeard`).
Restarts of the app keep mode and manual speed and forget the end of a timed
override, as the boot sequence of `server.ts` does.

### Schedules (rows, requests, cached copy)

A statement is atomic in the database. Its answer arrives in a later step, in any
order among handlers, or is lost with the database. `pc` is how far a request is.
`listSchedules` answers an error with an empty list (`Answered`), and it is taken
for what it says. It is run within Pages.

### Telemetry and Server (the life of the pool-api process)

Telemetry is the buffer: samples are numbers, `Flush` takes the buffer, and
`Insert`, `InsertFails`, `Delete`, `DeleteFails` are the outcomes of the queries.
A failed insert may have run all the same. It has no run of its own.

Server extends it with the process. `phase` follows `shutdown()`: `Sigterm` stops
the intervals, `Release` ends with the beginning of the final flush,
`CloseBridge` is its answer, `Exit` waits for the requests and the queries, and
`Crash` may come at any time. `saves` are the saves of the intent under way, which
run in any order (the pool has several connections), `updates` the settings
requests with how far each is. The keep-alive period stands for all settings,
since they are read, handed over and forgotten together. Of the commands to the pump
the queue has those that take it or let it go (`orders`): the first frame of each
chain of `apply()`, and the release of `shutdown()`, which waits behind the chains
that are queued before it. `Written` and `Rejected` are what becomes of them, `held`
what the pump was last told. `Release` is the continuation of `await engine.release()`
and waits for either; meanwhile notifications come in and queue more. `handover` is
history: how far that release has come, and whether a notification has renewed the
wish to drive since the signal. A step that runs `apply()` may queue nothing, because
the bus may be down.

### Relay (Guardian over its upstream)

The whole guardian process: `Up == INSTANCE BridgeLink` with Guardian's `upstream`
for `_connected`, and the listeners of `main()` between them (`UpConnect`,
`UpClose`). `UpQuiet` is where it differs from BridgeLink: pool-api polls its link
at 1 Hz, but the guardian only passes bytes on, so with no app and nothing to hold
(`Talking` is false) a healthy bridge falls quiet too. `ImplementsGuardian` is
Guardian's `Spec`: the refinement mapping is the identity on Guardian's variables.

### Pages (LivePage, SchedulePage, EnergyPage)

A module per page of the web app, and Pages, in which `route` says which one is
open, or none, when requests to Schedules are anybody's. React state ends with its
page, and the store belongs to the live page, so a behaviour stays with its page.

LivePage is the browser against pool-api. `control`, `rpm`, `connected` are the
store. `posts` are control requests under way, which may overtake each other;
`live` is what the socket still has to deliver, in order. `Tap` and `OnApply` are
`controls.ts` (change the store, then send), `Commit`, `OnApply` and `Settle` the
slider with its 350 ms and its effect, `OnConnect`, `OnConnectError`, `DemoTick`
the socket and the simulator. The pump follows the server. The simulator's wobble
and the 90 rpm of tolerance are abstracted: speeds are equal or not.

SchedulePage extends Schedules by the page. It has two threads of requests: `First`,
the load of the first render, which does not set `busy`, and `Act`, what the user
does. `at` is how far each is: the statement to run (`write`), its answer to arrive
(`reply`), the list to read (`list`), the list to arrive (`listed`). `Save`, `Use`
and `DeletePreset` are the buttons. `Query`, `Answer`, `SeedStarts`, `SeedEnds` and
`Show` are the parts of `load()`: the list is read, missing starters are created one
after the other (`todo`), and the list is shown and a preset selected. `Catch` is
what the three `catch` blocks do. `Elsewhere` is another browser, `Reopen` a reload.
Two history variables excuse what nobody can prevent: `disturbed`, since the page
read a list that nothing overlapped, and `split`, since the last activation. The
server's cached copy follows at once here; how it really follows is Schedules.

EnergyPage keeps of the rows only their epoch, the number of times the table was
wiped. `loads[0]` is the load of the effect, which the next selection cancels
(`Cancel`), `loads[k]` the one after reset `k`, which nobody cancels. A load is
three queries (`Read`), each of which may be answered with nothing or throw.

### ScheduleClock and EnergyMeter (engine against web app)

`ActiveRpm` translates `activeRpm` (filter, sort, carry-over, last started
segment), `TimelineBlocks` and `RpmAt` translate the web app's functions, and
`CardRpm` the live card. The clock steps through a week. The reference is
declarative: the schedule `InForce`, the segment `Current`. The engine goes by the
clock of its machine in the zone of `POOL_TZ`. The card has clocks of its own, which
are arguments of `CardRpm`: the device's day, the pump's minute (or the device's, as
long as there is no telemetry), and the list it fetched when it was mounted.
`WebAgrees` compares the card with the engine at every day and minute those clocks
may show, and does not say that they are right (section 6).

EnergyMeter extends it by what telemetry records of the day: `samples`, rows of
the minutes, none for a silent bridge and several for a busy one. `Average` is
`avg()` over `HourlyBuckets`, `Summary` what `rest.ts` makes of them, `SpeedBands`
the query with `lead()`, `Interpolate` the two curves. Averages are kept exact by
counting in units that every count of rows divides.

### Protocol and FrameStream (bytes)

Protocol has the codec: `Build`, `Checksum`, the commands, the streaming
`ScanFrames`, `DecodeStatus`. Its two loops are recursive functions, `Sums` of the
number of bytes and `Scan` of the position, so that it can be proved that they are
defined. FrameStream puts the two readers on it, `Guardian.observe` on a clean
stream of commands and `BridgeConnection.onData` on a bus with noise and damaged
replies, and lets TCP cut the bytes. `Statuses` is what the fields of a status
frame have room for.

### MC modules

`MCX` extends `X` and defines the constants of its runs; the `.cfg` files assign
them. `server` uses the symmetry of its two flushes, which is sound since it checks
safety only; the other runs that could profit from symmetry check liveness.

## 3. Runs

Twelve runs. "Violation" runs state a sentence of the repository that the code
contradicts; see section 6.

| run | bounds | what it shows |
|---|---|---|
| `bridge_link` | the code's own ladder of five delays and threshold 3 | every interleaving of timers, events and peer changes: never stranded, bounded redial bursts, listeners agree, and recovery |
| `guardian` | 2 sockets, 2 speeds, period 2, ceiling 4, grace 2 | a single writer, bounded holds, no stitched frame, teardown only after a whole grace period, outages passed on |
| `relay` | 1 socket, times of one tick, ladder of one delay, threshold 2 | the process over its real upstream implements Guardian, is gentle on the bridge in quiet nights, and serves again when an app comes |
| `control_loop` | speeds {0, 1}, queue of 2, 2 requests, 1 fault | latest intent wins, a release is real, convergence, an override ends |
| `control_loop_stop` | 1 request | violation: a stop nobody asked for |
| `failsafe` | speeds {0, 1}, queue of 1, 1 request, 2 faults, pump timeout of 2 periods | the pump ends where asked, times out under a live app only when its frames have not come through for a whole timeout, is not held after a delivered release, goes home when the app is dead |
| `failsafe_off` | 1 fault | violation: mode off and yet held |
| `schedule_clock` | days of 6 minutes in hours of 2, week of 2; one schedule of up to 3 segments, or two schedules; up to 2 rows a minute | engine, declarative reading, timeline and card agree at every minute; bands are real minutes, and the summary errs only in hours that change speed or have no rows |
| `server` | 3 samples, buffer of 2, 2 flushes, 2 requests (samples and requests: 4), 1 reset, 1 failure or crash, 1 order of `apply()` in the queue besides the release | samples in one place, also across crashes and shutdown; a reset is a reset; the intent is durable; settings are in force; a shutdown hands back and loses nothing |
| `frame_stream` | 2 messages, 1 fault, chunks of 1, 2, 7, 26 bytes | readers read what was sent, whatever the cuts; nothing is held back |
| `pages` | 2 schedules named as the 2 starters, 2 requests and the interval, 3 writes, 1 outage, 1 fault of the schedule page, 2 resets, 1 failed load; Off and one speed, 3 commands, 1 lost request or socket, 2 events in flight | an undisturbed request is in force when over and the cache catches up; one schedule active, the running one stays, the page shows the rows; the energy page shows the selected range; the live page shows the server, and a slide settles |
| `link_window` | the deployed constants, in seconds | violation: more than 15 s without a command |

Why the bounds are enough:

- `bridge_link` has no bound but the constants of the code. The counters
  saturate, so the state space is the whole of it.
- `guardian`: a socket and its successor are the most that overlap, since a third
  connection only repeats the pattern. The ceiling is a multiple of the period so
  that the deadline falls exactly on an interval, the boundary case. The proofs
  of section 5 drop these bounds.
- `control_loop`: two requests give three overlapping chains together with the
  keep-alive, and a queue of 2 overflows with them, so that eviction happens in
  the middle of chains. The code's queue of 64 would make overflow unreachable in
  a small model, and the property is about what overflow does. `MAX_BACKLOG = 0`
  lets timers start a chain only when nothing waits in the queue (one may be in
  flight): seconds pass between them and 30 ms between frames. `MAX_WIRE` is the
  back pressure of the socket.
- `failsafe`: one request and two faults give every pair of restart, drop, slow
  and timed-out write around a change of mind. `MAX_BACKLOG = 1` lets a period end
  with a job still queued, and the queue of 1 overflows with it: keep-alives pile up
  behind a link that delivers nothing, are dropped, and the pump times out under a
  live app without a fault.
- `pages`: two requests and the interval give three reloads in any order. Three
  writes are a complete seeding and one action after it, or an action, a write from
  elsewhere and another action; the fault is a lost call, a page reload, a write
  from elsewhere or an outage, and the proofs of section 5 drop these bounds. Two
  resets give a load nobody cancels next to another reset; one failure is one query
  or load. Three commands of the live page are a slide, one that interferes with it,
  and one before or after. Failures to connect, ticks of the simulator and polls are
  not bounded.
- `server`: two flushes overlap and the cap drops samples; two requests are what
  it takes for saves, or settings requests, to overlap; one failure is one crash,
  failed query or failed read. One order of `apply()` in the queue is one before or
  behind the release, and as each leaves at any moment others follow it; the proofs
  drop the bound. Boots and shutdowns are not bounded.
- `relay`: what matters is how the two machines fit together, which one socket
  and short times show; the proofs drop the bounds. Restarts are not bounded.
- `schedule_clock`: starts at midnight, within an hour and on the hour, equal starts
  and equal priorities are all present. Three hours are what it takes for a gap longer
  than an hour, and two rows a minute for an average that is not the one of the
  minutes. Only some of the lists are recorded (`Metered`), one that changes within
  an hour among them.
- `link_window`: no bound but the deployed constants; time is relative, so the
  state space is finite.
- `frame_stream`: chunks of one byte reach every cut, and the larger ones make
  cuts that span frames. The messages contain start bytes in their data, a speed
  above the range, and a length that damage makes too long and too short.

`frame_stream` says `CHECK_DEADLOCK FALSE` because it stops when its messages are
read; every other run checks deadlock.

## 4. Fairness

Fairness is only assumed of what the runtime does by itself: timers fire, pending
`close` events and promise continuations are delivered, sockets flush and deliver
while the link is up, queries are answered or fail. It is not assumed of users,
of faults, of peers, or of the app coming back (Failsafe's `BusUp` has none).

- BridgeLink uses strong fairness for `OnConnect`: a dial to a peer that accepts
  competes with the connect timeout, and the timeout (seconds) does not always
  beat a healthy handshake (milliseconds). Weak fairness would allow that.
- ControlLoop has weak fairness of `BusUp`: `Recovers` of BridgeLink justifies
  it, since the link is redialled until it is up.
- Relay has BridgeLink's fairness for the callbacks of the upstream. `ServiceReturns`
  needs no more: that an app stays is its hypothesis.
- Pages has weak fairness of the live page's timers, of requests, queries and events
  under way, and of the socket's own reconnection; strong fairness only of the poll
  that reports the commanded speed, since the bound on events in flight keeps
  disabling polls where in the code they come once a second for ever. Weak fairness
  of `DbUp`, without which "catches up" has no meaning. The schedule page and the
  energy page have safety properties only: a `fetch` without a timeout may hang.
- Server and TimedLink are checked for safety only.
- Failsafe: the keep-alive comes, the guardian's timers fire, and frames and queue go
  on. Fairness does not say that they go on in time: a period may end with frames
  under way for ever again. `PumpEndsWhereAsked` has that as its hypothesis: the link
  is late (`Late`) finitely often. Known Issues.md:14-44 of the repository is the case
  in which it is late.
- `Recovers` and the `<>[]` properties are stated for the case that the
  environment calms down. Nothing forces it to; faults and requests are bounded.

## 5. Proofs

`BridgeLinkProofs`, `GuardianProofs` (with Relay), `FailsafeProofs`, `PagesProofs`,
`ScheduleClockProofs`, `EnergyMeterProofs`, `ServerProofs` (with Telemetry) and
`FrameStreamProofs` are checked by TLAPS. They assume only the named assumptions of
their modules and quantify over all constants that satisfy them: any number of
sockets, any ladder, any speeds, any ceiling, queue and buffer, any schedules, any
messages and cuts, any number of requests, faults, crashes and restarts. The
assumptions are

- `LinkAssumption`, `RelayAssumption`: a non-empty ladder of positive delays, positive
  thresholds;
- `GuardianAssumption`: positive period, ceiling and grace, speeds above zero;
- `ControlLoopAssumption`, `FailsafeAssumption`: speeds that are numbers, room for a job
  in the queue, a write that may take a tick, and a pump that waits for a keep-alive
  period at least;
- `SchedulesAssumption`, `SchedulePageAssumption`: the interval is no request, two
  threads, a sequence of starters; `EnergyPageAssumption`: bounds that are numbers;
  `LivePageAssumption`: the two speeds of the model and 0 are speeds;
- `ScheduleClockAssumption`: days and minutes there are; lists of what `ScheduleInput`
  admits (`packages/types/src/index.ts:62-82`, a schedule has a segment), in the order
  of the query (`db/repos/schedules.ts:28`); `EnergyMeterAssumption`: a day of whole
  hours, and a unit that every count of rows divides;
- `TelemetryAssumption`, `ServerAssumption`: a buffer of at least one sample, bounds
  that are numbers, a default period among the periods;
- `FrameStreamAssumption`: speeds that are numbers, statuses that fit their fields,
  noise of bytes, damage behind the preamble, chunks of a byte at least.

| theorem | says |
|---|---|
| `BridgeLinkProofs!TypeCorrect` | types, in particular the backoff position stays on the ladder |
| `LinkNeverStranded` | a started link has a socket or a reconnect timer |
| `LinkSingleDial` | a reconnect timer excludes a socket; dials are under the connect timeout (`DialIsWatched`, proved only) |
| `LinkNoRedialStorm` | redials without delay are bounded by the threshold; the stall flag does not leak (`StallFlagIsFresh`, proved only) |
| `LinkListenersAgree` | listeners know the truth between callbacks |
| `GuardianProofs!TypeCorrect` | types |
| `GuardianSingleWriter`, `GuardianWritesAlone` | a single bus writer: the interval runs only in a hold, a hold excludes a client, and what is written is written alone |
| `GuardianHoldsRunningOnly` | a held setpoint is enabled, running and not zero |
| `GuardianHoldBounded` | a hold outlasts its deadline by less than a period |
| `GuardianNoStitchedFrame` | bytes of two connections never merge |
| `GuardianTeardownJustified` | the guardian cuts its client off only after a whole grace period of outage |
| `ProcessImplementsGuardian` | the process over its real upstream implements Guardian (`ImplementsGuardian`) |
| `ProcessIsSafe` | hence a single writer, running setpoints, bounded holds and no stitched frame hold of the process |
| `ProcessIsGentle` | redials of a quiet bridge stay bounded when nobody talks and the process restarts at will |
| `FailsafeProofs!LoopTypeCorrect` | types of the control loop, in particular the queue is bounded in length and age |
| `LoopLatestIntentWins`, `ChainLatestIntentWins` | of overlapping chains the latest intent wins, alone and with the guardian, the pump and restarts of pool-api behind it (`LatestIntentWins`) |
| `NoHoldAfterReleaseHolds` | no hold after a release that was ticked off and not lost (`NoHoldAfterRelease`) |
| `TimesOutWhenCutOffHolds` | a pump the app drives times out only after a whole timeout without a moment at which all the app had sent was heard, late keep-alives included (`TimesOutWhenCutOff`, an action property) |
| `ScheduleClockProofs!ClockTypeCorrect` | the clock stays in its week |
| `EngineFollowsSchedules` | the engine runs the current segment of the schedule in force, for any schedules (`ActiveIsInForce`) |
| `TimelineFollowsEngine` | the timeline has the engine's speed at every minute, and so has the card of a single schedule at the day and minute of its own clocks (`WebAgrees`) |
| `RecordedDayFollowsSchedules` | the two hold of EnergyMeter, which `schedule_clock` runs |
| `EnergyMeterProofs!BandsAreRealMinutes` | the speed bands count real minutes, however rows are dropped and repeated (`BandsAreMinutes`) |
| `SummaryFollowsSchedules` | the summary is the schedule's but for uncertain hours, which err by an hour at most; a whole day runs as long as the schedule page says (`SummaryIsReal`) |
| `PagesProofs!UndisturbedIsInForce` | an undisturbed request is in force when it is over (`CacheFresh`) |
| `OneScheduleActive` | the page never enables a second schedule, unless it acted on a list that was out of date |
| `RestShowsRows` | a page at rest that read its list undisturbed shows the rows |
| `SavesLand` | an update answered 404 comes from an empty or a disturbed page |
| `RunningIsKept` | the schedule in force ends by being deleted only |
| `EnergyIsCurrent` | the energy page at rest shows the selected range, and nothing a reset wiped (`ShowsEnergy`) |
| `SimulatorIsOffline` | no demo mode while the socket is up (`DemoOffline`, proved only) |
| `LivePageIsCurrent` | the live page shows the server's state once it is told (`ShowsServer`) |
| `PagesKeepTheirPromises`, `RunningStaysOnEveryRoute` | all of these hold of the pages together next to the server, whichever is open: what `pages` runs |
| `ServerProofs!ServerEachSampleOnce`, `ServerResetWipes` | samples are in one place, and a reset is not undone, across flushes, crashes and restarts |
| `ServerShutdownKeepsSamples` | an orderly exit loses no sample silently |
| `ServerIntentIsDurable` | the row holds the intent, unless excused by name |
| `ServerSettingsInForce` | the engine has the saved period, unless excused by name |
| `ServerShutdownHandsBack` | the bridge is not closed under the release of a shutdown, and once it is written the pump is let go, whatever was queued around it, unless a notification since the signal had something to drive it for |
| `FrameStreamProofs!QuietReads` | both readers read what was sent, in order, while the wire is quiet (`ReadsWhatWasSent`) |
| `QuietReadsAtOnce` | and each message with its last byte (`NothingHeldBack`) |
| `GuardianReads` | both hold of the guardian's side without a condition |

Each specification has one inductive invariant, `IInv` or the same letter with the
specification's own (ServerProofs has four that do not need each other; ScheduleClock
needs the range of the clock only); the three facts `Init => IInv`,
`IInv /\ [Next]_vars => IInv'` and `IInv => property` are lemmas, and temporal
logic joins them. The strengthening is what makes the properties inductive:

- BridgeLink: `ConnectedFollowsSocket` (without it a `close` could find
  `_connected` set without a socket), `ConnectTimerOwner` (the connect timeout
  never watches a connected socket, so its check of `_connected` is never what
  saves it), `Stopped`, and `BurstCounted`. The last one is the accounting behind
  the redial bound: a burst is at most one ahead of `silentCycles`, and not ahead
  at all while a stall is pending.
- Guardian: `ClientIsLive` (the current client's `close` is still to come),
  `HoldClock` (deadline and interval move together, so the deadline cannot be
  more than a period behind), `LostClock` (grace timer plus time down is the grace
  period) and `BufferOwned`.
- Relay: the refinement needs no invariant, since each callback either is a step
  of Guardian or leaves Guardian's variables alone. `RedialsCounted` is
  BridgeLink's `BurstCounted` for an upstream that may fall quiet on a healthy
  bridge; it holds without the rest of BridgeLink's invariant.
- ControlLoop: what is still to come. `Pipe` is the chain in flight and those in the
  queue, in the order they are written; a chain is known by the frame it has come to
  (`Enables`, `Runs`, `Speeds`). `Coming(p, t)` says that the far end comes to be driven
  at `t`: the last chain of `p` that enables or releases is the one for `t`, or there is
  none, the enable has been told (`Told`: sent last of its kind, or heard), and the same
  holds of the stages after it. `IntentComing` claims that of the intent of the moment.
  A change of the intent appends its chain, and an older chain can only finish: its next
  frame is queued behind the newer chain's, but the newer one has a later frame of that
  kind to come. `ReleaseComing` is its like for a release that was ticked off,
  `InflightTold` that the frame in flight has reached the wire. Eviction and expiry take
  the oldest jobs only since ages fall along the queue (`AgesFall`).
- Failsafe: a hold starts without a link and with a holdable intent, and neither
  changes while it lasts; `DriveComing` says that an enable is on its way or the pump
  has heard the app within the period. So when all was heard the pump's count is zero,
  and what it counts it has counted since: `MissedCutOff`, at most what the app has
  been cut off for.
- ScheduleClock: the invariant is the range of the clock; the rest is about the
  algorithms. Induction over data is done by the least counterexample (`Least`), which
  first order provers can follow: that every list of starts can be sorted
  (`SortOneMore`, insertion of the last), and that the loop ends at the last segment
  that is due (`LoopIs`). The sort is the permutation that orders by start and
  position; the block of the timeline that covers a minute is the loop's segment
  (`TimelineAgrees`).
- EnergyMeter: `MIInv` adds to the clock that the rows of the day are in order, none is
  of a later minute, and each has the speed that today's schedule has at its minute
  (`SamplesOK`). The properties then follow by arithmetic on sums. Sums are folds, and
  the library states no induction over them that these provers can use; the proofs make
  their own: what a set of subsets contains that has the empty set and grows by any
  element contains the whole (`SubsetsInduction`), and the fold is the function of the
  subsets that adds one element at a time (`PartialIsDefined`). `SumOfSizes` turns a sum
  into a count: the credits of the rows of a band are disjoint sets of minutes, and so
  are the blocks of the timeline. Both curves rise (`CurvesRise`), so no hour exceeds
  full speed, which bounds what an uncertain hour may err.
- Schedules: `Alone` (without an excuse a single handler is under way) and
  `AnswerFresh` (what it has read is what the rows still say).
- SchedulePage (`PInv`): `Undisturbed` is what the page may rely on while nothing interferes:
  one thread at most is under way (`ThreadAlone`), the list it has read is still what the
  rows say (`HeardFresh`), and what the user asked for fits the rows (`CallFits`: a
  save that enables a preset finds it enabled, or no preset at all). `HadFresh` is the
  subtle one: the first starter is created enabled because the list was empty, and
  it is still empty as long as that starter is to come. That the selected preset is
  one that is shown (`SelectionShown`) holds undisturbed or not.
- EnergyPage: unless a load failed or crossed a reset, every load under way is for the
  selected range and has read the present epoch only (`LoadsFit`), a reset was asked for
  with the range that is selected (`ClosureFits`), and with no load under way the page
  shows both (`DataFits`).
- LivePage: the last broadcast on its way is the server's state (`NewsIsTrue`); when
  there is none, and no request either, the store has it (`StoreIsTrue`).
- Pages: the four invariants, and `RouteFits`: with a page open no request but the
  page's own is under way.
- Server: `SamplesIInv` is Telemetry's accounting, with `WipedIsGone` (what was
  wiped is in no buffer and no batch), proved operation by operation,
  and `DueLeft` (what the shutdown found in the buffer has left
  it for good). `SavedIsComing` and `AppliedIsComing` say that without an excuse
  the newest intent, or setting, is the stored one or the one request under way.
  `HandBackIInv` is about the queue: as long as the release is asked for it waits
  there, the shutdown waits for it, and nothing behind it takes the pump
  (`ReleaseIsLast`); once it is written nothing in the queue does (`NoneTakes`). It
  needs that the queue is served in order and that the interval ends before the
  release is queued.
- FrameStream (`JInv`): what the reader keeps, followed by what is still to come, holds
  exactly the frames of the messages not read yet, one behind the other, with no start
  byte outside of them (`Holds`), and the first of them is not complete in what the
  reader keeps. It is claimed while the wire is `Quiet`: no fault has happened, or noise
  has no start byte and no reply is damaged. The invariant has three parts to its proof.
  Each message becomes a frame that is read as that message (`CommandIs`, `ReplyIs`: the
  codec, for every speed and every status; bytes joined are the number that was split,
  `WordIs`). The loop of `scanFrames` is a recursive function that is shown to be
  defined for every buffer (`ScanRounds`) and to find exactly the complete frames from
  any position that is not inside one (`FindsEverywhere`, by the least counterexample).
  A start byte inside a frame's data is never looked at, since the loop jumps from the
  end of a frame to the next (`NextFrame`). The 4096 bytes of `MAX_RX_BUFFER` are never
  reached: no more than 262 bytes are kept, a frame without its last byte (`ChunkReads`).

Proved and not model-checked on their own: `OneDialAtATime`, `DialIsWatched`,
`StallFlagIsFresh`, `HoldsRunningOnly`, `WritesAlone`.

Model-checked only: liveness (`Recovers`, `OutageReachesApp`, `ServiceReturns`,
`Settles`, `OverrideEnds`, `DeadAppHandsBack`, `PumpEndsWhereAsked`, `CatchesUp`,
`SliderSettles`), which needs ENABLED; and what onData() of FrameStream reads after
damage, or noise with start bytes. For arbitrary noise its two properties are false:
noise can be a frame with a right checksum, and the header of a frame swallows what
follows. They hold of the messages and faults of `frame_stream`, which the constants
name; their theorems are therefore about a quiet wire.

## 6. Disagreements between code and text

Three have a run with a counterexample.

1. **A stop nobody asked for** (`control_loop_stop`, `core/scheduler.ts:93`).
   `tick()` sets `scheduleActive` and then `scheduledRpm`, and each notifies. The
   first notification runs `apply()` with the old speed 0, so enabling the first
   schedule sends remote-enable and stop before run and the speed.
   `core/engine.ts:59-60` promises that this never happens.
2. **Off, and still held** (`failsafe_off`, `core/engine.ts:69`). A failed
   release is recorded as done because "a missed release just means the pump times
   out instead" (`engine.ts:67`). Behind the guardian, whose last observed intent
   is a running one, the pump is held until the ceiling.
3. **Longer than the window** (`link_window`, `bridge/connection.ts:181`). A link
   that dies without a FIN is torn down after 12 s of silence. The last command may
   be a keep-alive period (5 s) older, so the pump goes 17 s and a redial without
   one. `connection.ts:172-174` and `config.ts:27-28` say that this stays inside the
   15 s after which it reverts. A fault as mild as a socket that is lost while the
   bridge is back at once is enough.

The others were met while modelling. The models have the behaviour, and the
passing properties are worded around it:

- *Idle, and something to hold.* The release at the ceiling (`guardian.ts:156`)
  leaves the observed intent running, although idle means "nothing to hold"
  (`guardian.ts:32`). A connection that sends nothing and goes away starts another
  full hold.
- *An outage empties the schedules.* `listSchedules` (`db/repos/schedules.ts:31`)
  turns an error into an empty list, so `refresh()` never reaches its "keep cached
  schedules if the DB is unavailable" (`scheduler.ts:70`), and the schedule page
  takes the database for empty. `Answered` of Schedules.
- *Activating a deleted schedule.* `activateSchedule` (`db/repos/schedules.ts:62-65`,
  "Make exactly one schedule active") with the id of a deleted row switches every
  row off. `Activate` of Schedules.
- *Two rules for the live card.* `ActiveScheduleCard.tsx:24` picks the first enabled
  schedule whatever the day; the engine picks the first that also runs today. They
  agree while at most one schedule is enabled (`WebAgrees`).
- *And other clocks.* "The schedule runs on the pump's clock"
  (`ActiveScheduleCard.tsx:17`), so the card takes the minute of the pump (line 18),
  which nothing synchronises (`docs/obsidian/Known Issues.md:115`); schedules "run off
  the server clock" (`Known Issues.md:108`), in `POOL_TZ`. The day is the device's
  (line 52), next to the pump's minute, and the list is fetched once at mount (line
  21). When these differ from the engine's, as near midnight, in another zone, or
  after an edit elsewhere, the card shows a speed that is not running. `WebAgrees`
  compares the rules, at whatever the clocks show, not the clocks.
- *Seeding in an outage.* The schedule page creates its starters disabled "so we never
  steal active" (`schedule/page.tsx:102-103`) unless the list is empty. During an
  outage the list is answered empty; if the database is back before the first
  create, the first starter is created enabled next to the schedule in force
  (`disturbed` and `split` of SchedulePage).
- *Saving what is gone.* After the last preset is deleted its id stays selected
  (`schedule/page.tsx:112-123`): the next save is an update of a row that does not
  exist, and its 404 is swallowed (`SaveFindsRow`). A save from an out-of-date list
  carries the old `enabled` and may enable a second schedule, or switch off the one
  another browser has activated.
- *A load nobody cancels.* `resetStats()` ends with a load for the range it was
  rendered with, which no later selection cancels, so a page may show one range under
  the title of another; and a load that throws shows the numbers of the demo
  (`energy/page.tsx:160`). `ShowsEnergy` excludes these.
- *Hours that are not over.* The summary counts each hour that has rows as a whole
  hour, the current one included: one sample makes an hour of running time, where the
  speed bands count real minutes. `SummaryIsReal` compares up to the end of the hour.
- *A reset is not total.* `purgeAll` (`db/repos/telemetry.ts:60-65`) does not reach
  a batch a flush has taken: its insert may run after the delete. `ResetWipes`
  excludes exactly these samples.
- *Nights without an app.* `checkIdle` reasons that the app polls at 1 Hz; with no
  app and nothing to hold nobody does, and the guardian takes a healthy bridge for
  mute, counts silent cycles and ends in the slow retry. An app that connects then
  may wait for it. `UpQuiet` of Relay; `ServiceReturns` says it ends.
- *Restarts.* A timed override is restored without its end (`controlState.ts:83`);
  saves may run in the wrong order, and the older intent is restored
  (`settings.ts:95`); `main()` never reads the saved settings, and a failed read in
  `PUT /api/settings` hands the defaults to the engine (`settings.ts:51`).
  `IntentIsDurable` and `SettingsInForce` of Server name these cases.
- *Shutdown.* `engine.stop()` ends the interval but the engine stays subscribed to
  ControlState: whatever notifies between the release and the end (a reload that
  was under way, a request, the bridge) drives the pump again, and so it does between
  the signal and the release, which waits in the queue (`renewed` in
  `ShutdownHandsBack`).
- *The live page.* A request that fails leaves the optimistic state until the next
  broadcast (`ShowsServer`). A slide stays "applying" for ever if the pad is tapped
  after it, another client overrides it, or its request fails; a tap within 350 ms
  of a slide is overridden by the slide; the simulator confirms slides while
  offline (`SliderSettles`).

## 7. Not modelled

- *Session authentication*: cryptography and a counter, apart from pump control.
- *Of the energy aggregates*: `series` and `recentDailyTotals` (the same averages cut
  at local days), costs (products of the summary), the exponential of `efficiencyPct`;
  hours of time zones that are not whole hours from UTC.
- *Settings page, components, styling, charts, the numbers of the simulator*:
  rendering, and a form whose request is one of Server.
- *Watchdog, events*: no state that anything reads back.
- *Migrations, configuration, scripts, firmware, deployment*: I/O and tools. The
  pump and the ESP32 are environment, modelled by how the code uses them.
- *Settings that change periods*: `setKeepAliveMs` restarts the interval
  (`engine.ts:44`), which TimedLink leaves out; its period is constant.
- *Segments of a preset on the schedule page*: nothing of its control depends on them.

## 8. Plan

Built so far: all modules of section 2 and eight proof modules. Worth doing next:

1. **BusOwner**, the abstract failsafe: who may write to the bus (app, guardian,
   nobody), the setpoint held, and the ceiling. Guardian, and with it Relay, is
   shown to implement it, then the step simulation is proved.
2. **Bounds in time**: how long TimedLink leaves the pump without a command, as a
   theorem over its constants, and keep-alive periods that change while it runs.
3. **Resynchronisation**: a bound on what noise with start bytes can make onData()
   lose or hold back, as a theorem.
