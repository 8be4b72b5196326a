------------------------------- MODULE Server -------------------------------
(***************************************************************************)
(* The life of the pool-api process (apps/api/src/server.ts) and what it   *)
(* shares with the database: the telemetry (module Telemetry), the control *)
(* intent it saves so that a restart resumes it, and the settings.  It     *)
(* boots, serves, shuts down in the order of shutdown(), or crashes.       *)
(*                                                                         *)
(* Queries go through a pool of connections: those under way at the same   *)
(* time run in any order, and one that was sent still runs after a crash.  *)
(* Of the commands to the pump only the first of a chain is here, the one  *)
(* that takes the pump or lets it go; ControlLoop has their detail.        *)
(***************************************************************************)
EXTENDS Telemetry

CONSTANTS
    Rpms,                \* speeds a request may ask for
    Periods,             \* keep-alive periods a settings request may ask for
    DEFAULT_PERIOD,      \* config.KEEP_ALIVE_MS
    RELEASE_ON_SHUTDOWN,
    MAX_ORDERS,          \* bound: orders of apply() in the command queue
    MAX_REQUESTS,        \* bound: requests that change something
    MAX_INPUTS           \* bound: samples and requests together

ASSUME ServerAssumption ==
    /\ DEFAULT_PERIOD \in Periods
    /\ RELEASE_ON_SHUTDOWN \in BOOLEAN
    /\ MAX_ORDERS \in Nat /\ MAX_REQUESTS \in Nat /\ MAX_INPUTS \in Nat

VARIABLES
    phase,           \* down, serving, releasing, flushing, closing
    finalFlush,      \* the flush that shutdown() awaits
    cs,              \* ControlState: controlMode, manualRpm, overrideUntil
    row,             \* control_mode and manual_rpm of the settings row
    saves,           \* saveControlIntent() calls under way, oldest first
    keepAliveMs,     \* the period of the engine's interval
    periodRow,       \* keep_alive_ms of the settings row
    updates,         \* PUT /api/settings requests under way, oldest first
    orders,          \* what waits in the command queue, oldest first: "enable",
                     \* "release", or the "shutdown" release
    held,            \* the pump was last told to obey the app
    due,             \* history: samples recorded before the shutdown
    handover,        \* history: the shutdown release was "asked" for, "written",
                     \* or "renewed" by a notification to drive since the signal
    saved, applied,  \* history: the newest save, or settings request, ran
                     \* alone and without a failure
    requests         \* how much of the bound is used

intents  == <<cs, row, saves, saved>>
settings == <<keepAliveMs, periodRow, updates, applied>>
process  == <<phase, finalFlush, due>>
pump     == <<orders, held, handover>>
svars    == <<vars, intents, settings, process, pump, requests>>

NoFlush == "none"

DefaultIntent == [mode |-> "schedule", rpm |-> 0]

SInit ==
    /\ Init
    /\ phase = "down" /\ finalFlush = NoFlush /\ due = {}
    /\ cs = [controlMode |-> "schedule", manualRpm |-> 0, timed |-> FALSE]
    /\ row = DefaultIntent
    /\ saves = <<>> /\ saved = TRUE
    /\ keepAliveMs = DEFAULT_PERIOD /\ periodRow = DEFAULT_PERIOD
    /\ updates = <<>> /\ applied = TRUE
    /\ orders = <<>> /\ held = FALSE /\ handover = "none"
    /\ requests = 0

\* The HTTP server and the bridge are open until bridge.close().
Open == phase \in {"serving", "releasing", "flushing"}

Bounded == recorded + requests < MAX_INPUTS

Request ==
    /\ Open /\ requests < MAX_REQUESTS /\ Bounded
    /\ requests' = requests + 1

-----------------------------------------------------------------------------
(* The control intent.                                                     *)

Orders(mode) ==
    {o \in {"enable", "release"} :
        mode # (IF o = "enable" THEN "off" ELSE "manual")}

Queue(order) == orders' = Append(orders, order)

Waiting == {i \in DOMAIN orders : orders[i] # "shutdown"}

\* apply(), if the bus is there and the pump is not released already.
Apply(mode) ==
    /\ \/ UNCHANGED orders
       \/ /\ Cardinality(Waiting) < MAX_ORDERS
          /\ \E order \in Orders(mode) : Queue(order)
    /\ UNCHANGED held

\* notify(): apply() stays registered with onChange after engine.stop().
Notify(mode) ==
    /\ Apply(mode)
    /\ handover' = IF mode # "off" /\ handover # "none" THEN "renewed" ELSE handover

Intent(s) == [mode |-> s.controlMode, rpm |-> s.manualRpm]

\* Mutant.
EmitIntent_NotWhenOff(s) ==
    /\ saves' = IF s.controlMode = "off" THEN saves ELSE Append(saves, Intent(s))
    /\ saved' = (saves = <<>>)

\* emitIntent(): nobody awaits the save.
EmitIntent(s) ==
    /\ saves' = Append(saves, Intent(s))
    /\ saved' = (saves = <<>>)

NewIntent(s) ==
    /\ cs' = s
    /\ Notify(s.controlMode)
    /\ EmitIntent(s)
    /\ UNCHANGED <<vars, row, settings, process>>

SetManual(rpm, timed) ==
    /\ Request
    /\ NewIntent([controlMode |-> "manual", manualRpm |-> rpm, timed |-> timed])

ResumeSchedule ==
    /\ Request
    /\ NewIntent([cs EXCEPT !.controlMode = "schedule", !.timed = FALSE])

SetOff ==
    /\ Request
    /\ NewIntent([cs EXCEPT !.controlMode = "off", !.timed = FALSE])

\* Mutant.
EngineRuns_UntilExit == Open

\* engine.stop() ends the keep-alive interval.
EngineRuns == phase = "serving"

KeepAlive ==
    /\ EngineRuns
    /\ Apply(cs.controlMode)
    /\ UNCHANGED <<vars, intents, settings, process, handover, requests>>

\* The command queue writes its oldest to the link.
Written ==
    /\ orders # <<>> /\ orders' = Tail(orders)
    /\ held' = (Head(orders) = "enable")
    /\ handover' = IF Head(orders) = "shutdown" /\ handover = "asked"
                   THEN "written" ELSE handover
    /\ UNCHANGED <<vars, intents, settings, process, requests>>

\* It is evicted, stale, or refused by the link.  Of a write that timed out the
\* bytes may still reach the pump.
Rejected(i) ==
    /\ orders' = RemoveAt(orders, i)
    /\ handover' = IF orders[i] = "shutdown" /\ handover = "asked"
                   THEN "none" ELSE handover
    /\ \/ UNCHANGED held
       \/ i = 1 /\ held' = (Head(orders) = "enable")
    /\ UNCHANGED <<vars, intents, settings, process, requests>>

\* apply(), run by the interval or by a notification, finds that a timed
\* override is over, and notifies.
OverrideEnds ==
    /\ Open /\ cs.controlMode = "manual" /\ cs.timed
    /\ NewIntent([cs EXCEPT !.controlMode = "schedule", !.timed = FALSE])
    /\ UNCHANGED requests

\* A notification from elsewhere: the bridge is back, or a reload of the
\* schedules that was under way when the scheduler stopped.
Notified ==
    /\ Open
    /\ Notify(cs.controlMode)
    /\ UNCHANGED <<vars, intents, settings, process, requests>>

SaveRuns(i) ==
    /\ row' = saves[i]
    /\ saves' = RemoveAt(saves, i)
    /\ UNCHANGED <<vars, cs, saved, settings, process, pump, requests>>

Fails ==
    /\ failures < MAX_FAILURES
    /\ failures' = failures + 1
    /\ UNCHANGED <<recorded, buffer, batch, stored, purging, wiped, given,
                   purges>>

\* "Non-fatal on failure".
SaveFails(i) ==
    /\ Fails
    /\ saves' = RemoveAt(saves, i)
    /\ saved' = FALSE
    /\ UNCHANGED <<cs, row, settings, process, pump, requests>>

-----------------------------------------------------------------------------
(* The settings: PUT /api/settings updates the row, reads it again, and     *)
(* hands what it read to the engine.                                        *)

PutSettings(p) ==
    /\ Request
    /\ updates' = Append(updates, [stage |-> "update", ms |-> p])
    /\ applied' = (updates = <<>>)
    /\ UNCHANGED <<vars, intents, keepAliveMs, periodRow, process, pump>>

UpdateRuns(i) ==
    /\ updates[i].stage = "update"
    /\ periodRow' = updates[i].ms
    /\ updates' = [updates EXCEPT ![i].stage = "read"]
    /\ UNCHANGED <<vars, intents, keepAliveMs, applied, process, pump, requests>>

Answer(i, p) == updates' = [updates EXCEPT ![i] = [stage |-> "answer", ms |-> p]]

\* getSettings() answers an error with the defaults.
ReadRuns(i) ==
    /\ updates[i].stage = "read"
    /\ \/ Answer(i, periodRow) /\ UNCHANGED <<vars, applied>>
       \/ Answer(i, DEFAULT_PERIOD) /\ Fails /\ applied' = FALSE
    /\ UNCHANGED <<intents, keepAliveMs, periodRow, process, pump, requests>>

\* Mutant.
SetKeepAliveMs_NextBoot(p) == UNCHANGED keepAliveMs

\* setKeepAliveMs(): the interval restarts with the new period.
SetKeepAliveMs(p) == keepAliveMs' = p

OnSettingsChange(i) ==
    /\ updates[i].stage = "answer"
    /\ SetKeepAliveMs(updates[i].ms)
    /\ updates' = RemoveAt(updates, i)
    /\ UNCHANGED <<vars, intents, periodRow, applied, process, pump, requests>>

-----------------------------------------------------------------------------
(* Telemetry, as long as its sources are open.                             *)

Samples ==
    /\ \/ Open /\ Bounded /\ Record
       \/ Open /\ \E f \in Flushes \ {finalFlush} : Flush(f)
       \/ \E f \in Flushes : Insert(f) \/ InsertFails(f)
       \/ Delete \/ DeleteFails
    /\ UNCHANGED <<intents, settings, process, pump, requests>>

Reset ==
    /\ Request /\ Purge
    /\ UNCHANGED <<intents, settings, process, pump>>

-----------------------------------------------------------------------------
(* main() and shutdown().                                                  *)

\* restoreIntent(): a timed override has lost its end.
Restored(intent) ==
    cs' = [controlMode |-> intent.mode, manualRpm |-> intent.rpm, timed |-> FALSE]

\* The intent is restored from its row, if it can be read; the settings are not
\* read.
Boot ==
    /\ phase = "down"
    /\ phase' = "serving" /\ finalFlush' = NoFlush /\ due' = {}
    /\ \/ Restored(row) /\ saved' = (saves = <<>>)
       \/ Restored(DefaultIntent) /\ saved' = FALSE
    /\ keepAliveMs' = DEFAULT_PERIOD /\ applied' = FALSE
    /\ Apply(cs'.controlMode) /\ handover' = "none"
    /\ UNCHANGED <<vars, row, saves, periodRow, updates, requests>>

Sigterm ==
    /\ phase = "serving"
    /\ phase' = "releasing"
    /\ due' = 1..recorded
    /\ IF RELEASE_ON_SHUTDOWN
       THEN Queue("shutdown") /\ handover' = "asked" /\ UNCHANGED held
       ELSE UNCHANGED pump
    /\ UNCHANGED <<vars, intents, settings, finalFlush, requests>>

\* stopFlusher() and bridge.close(): nothing is written any more.
Close == phase' = "closing" /\ orders' = <<>>

\* Mutant.
FinalFlush_LeftToTheTimer == Close /\ UNCHANGED <<vars, finalFlush>>

\* await flush(); an empty buffer is not waited for.
FinalFlush ==
    IF buffer = <<>>
    THEN Close /\ UNCHANGED <<vars, finalFlush>>
    ELSE /\ \E f \in Flushes : Flush(f) /\ finalFlush' = f
         /\ phase' = "flushing"
         /\ UNCHANGED orders

\* await engine.release() is over, best effort: its order was written or rejected.
Release ==
    /\ phase = "releasing" /\ "shutdown" \notin Range(orders)
    /\ FinalFlush
    /\ UNCHANGED <<intents, settings, due, held, handover, requests>>

CloseBridge ==
    /\ phase = "flushing" /\ batch[finalFlush] = <<>>
    /\ Close
    /\ UNCHANGED <<vars, intents, settings, finalFlush, due, held, handover,
                   requests>>

ProcessEnds ==
    /\ phase' = "down" /\ orders' = <<>>
    /\ buffer' = <<>> /\ given' = given \cup Range(buffer)
    /\ UNCHANGED <<recorded, batch, stored, purging, wiped, purges, cs, row,
                   saves, saved, keepAliveMs, applied, finalFlush, due, held,
                   handover, requests>>

\* app.close() waits for the requests, closeDb() for the queries.
Exit ==
    /\ phase = "closing"
    /\ updates = <<>> /\ saves = <<>> /\ batch = None /\ ~purging
    /\ ProcessEnds
    /\ UNCHANGED <<periodRow, updates, failures>>

\* Updates of the settings that were sent may still run.
Crash ==
    /\ phase # "down" /\ failures < MAX_FAILURES
    /\ failures' = failures + 1
    /\ periodRow' \in {periodRow}
         \cup {u.ms : u \in {v \in Range(updates) : v.stage = "update"}}
    /\ updates' = <<>>
    /\ ProcessEnds

SNext ==
    \/ \E rpm \in Rpms, timed \in BOOLEAN : SetManual(rpm, timed)
    \/ ResumeSchedule \/ SetOff \/ OverrideEnds \/ KeepAlive \/ Notified
    \/ Written \/ \E i \in DOMAIN orders : Rejected(i)
    \/ \E i \in DOMAIN saves : SaveRuns(i) \/ SaveFails(i)
    \/ \E p \in Periods : PutSettings(p)
    \/ \E i \in DOMAIN updates :
         UpdateRuns(i) \/ ReadRuns(i) \/ OnSettingsChange(i)
    \/ Samples \/ Reset
    \/ Boot \/ Sigterm \/ Release \/ CloseBridge \/ Exit \/ Crash

SSpec == SInit /\ [][SNext]_svars

-----------------------------------------------------------------------------
(* Properties, with EachSampleOnce and ResetWipes of Telemetry, which       *)
(* crashes and shutdowns put to the test here.                              *)

\* server.ts:33-35: a restart resumes what was selected last.  The row holds
\* the intent as soon as its save has run, also across restarts, unless two
\* saves were under way at once, a save failed, or a boot could not read it.
\* (Two saves on two connections may run in the wrong order, and do here.)
IntentIsDurable ==
    saved /\ saves = <<>> /\ phase # "down" =>
        row = [mode |-> cs.controlMode, rpm |-> cs.manualRpm]

\* The engine runs with the settings that were saved last, once the request is
\* over, unless two requests overlapped, a read failed, or the process was
\* restarted since: main() never reads the settings.
SettingsInForce ==
    applied /\ updates = <<>> /\ phase # "down" => keepAliveMs = periodRow

\* shutdown(): what was sampled before the signal is stored, or known to be
\* given up, when the process exits, although flushes of the interval, the final
\* flush and samples that still come in overlap.
ShutdownKeepsSamples ==
    [][Exit => due \subseteq stored \cup given]_svars

\* server.ts:155-159, RELEASE_ON_SHUTDOWN: the bridge is not closed under the
\* release, and once it was written the pump is left alone, whatever was queued
\* around it, unless a notification since the signal had something to drive the
\* pump for: the engine stays subscribed to ControlState after engine.stop().
ShutdownHandsBack ==
    /\ phase = "closing" => handover # "asked"
    /\ handover = "written" => ~held
=============================================================================
