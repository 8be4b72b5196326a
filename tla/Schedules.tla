------------------------------ MODULE Schedules ------------------------------
(***************************************************************************)
(* The schedules: rows in Postgres (db/repos/schedules.ts), the requests   *)
(* that change them (api/rest.ts), and the Scheduler's cached copy, which  *)
(* every request and a 30 s interval reload without waiting for each other.*)
(*                                                                         *)
(* A query is atomic in the database, but its answer arrives later, and    *)
(* answers on different pool connections in any order.                     *)
(***************************************************************************)
EXTENDS Integers

CONSTANTS
    Ids,             \* ids of rows
    Handlers,        \* requests that may be under way at once
    Timer,           \* the Scheduler's interval, a handler of its own
    MAX_WRITES,      \* bound: requests that change rows
    MAX_OUTAGES      \* bound: how often the database goes away

ASSUME SchedulesAssumption ==
    /\ Timer \notin Handlers
    /\ MAX_WRITES \in Nat /\ MAX_OUTAGES \in Nat

VARIABLES
    rows,            \* each row: absent, off or on (enabled)
    db,              \* the database answers
    cached,          \* Scheduler.schedules: the ids that are enabled
    pc,              \* each handler: idle, activated, written, loaded
    answer,          \* what its listSchedules() will return
    excused,         \* history: why cached may be behind (see CacheFresh)
    writes, outages  \* how much of the bounds is used

bounds == <<writes, outages>>
vars == <<rows, db, cached, pc, answer, excused, bounds>>

Loaders == Handlers \cup {Timer}

Enabled(r) == {id \in Ids : r[id] = "on"}

Idle(l) == pc[l] = "idle"

Init ==
    /\ rows \in [Ids -> {"absent", "off", "on"}]
    /\ db = TRUE
    /\ cached = Enabled(rows)
    /\ pc = [l \in Loaders |-> "idle"]
    /\ answer = [l \in Loaders |-> {}]
    /\ excused = FALSE
    /\ writes = 0 /\ outages = 0

-----------------------------------------------------------------------------
(* The requests.  A query that fails throws out of the handler, which then  *)
(* replies 500 and reloads nothing.                                         *)

\* A request arrives and its statement runs.
Begin(h) ==
    /\ Idle(h) /\ writes < MAX_WRITES
    /\ db
    /\ writes' = writes + 1
    /\ excused' = (excused \/ \E l \in Loaders \ {h} : ~Idle(l))
    /\ UNCHANGED <<db, cached, answer, outages>>

Goto(h, where) == pc' = [pc EXCEPT ![h] = where]

\* createSchedule().
Create(h, id, enabled) ==
    /\ rows[id] = "absent"
    /\ Begin(h) /\ Goto(h, "written")
    /\ rows' = [rows EXCEPT ![id] = IF enabled THEN "on" ELSE "off"]

\* Mutant.
Update_NoReload(h, id, enabled) ==
    /\ rows[id] # "absent"
    /\ Begin(h) /\ Goto(h, "idle")
    /\ rows' = [rows EXCEPT ![id] = IF enabled THEN "on" ELSE "off"]

\* updateSchedule() of a row that exists; of another it replies 404.
Update(h, id, enabled) ==
    /\ rows[id] # "absent"
    /\ Begin(h) /\ Goto(h, "written")
    /\ rows' = [rows EXCEPT ![id] = IF enabled THEN "on" ELSE "off"]

\* deleteSchedule(): reloads even if there was no such row.
Delete(h, id) ==
    /\ Begin(h) /\ Goto(h, "written")
    /\ rows' = [rows EXCEPT ![id] = "absent"]

\* activateSchedule(): one statement sets every row, whether the given id is
\* still among them or was deleted in the meantime; a second one reads it back.
Activate(h, id) ==
    /\ Begin(h) /\ Goto(h, "activated")
    /\ rows' = [i \in Ids |-> IF rows[i] = "absent" THEN "absent"
                              ELSE IF i = id THEN "on" ELSE "off"]

ReadBack(h) ==
    /\ pc[h] = "activated" /\ db
    /\ Goto(h, "written")
    /\ UNCHANGED <<rows, db, cached, answer, excused, bounds>>

\* The answer of a statement is lost with the database, done or not: the
\* handler throws and reloads nothing.
Throws(h) ==
    /\ pc[h] \in {"activated", "written"} /\ ~db
    /\ Goto(h, "idle")
    /\ excused' = TRUE
    /\ UNCHANGED <<rows, db, cached, answer, bounds>>

-----------------------------------------------------------------------------
(* Scheduler.refresh().                                                     *)

\* listSchedules(): an error is answered with an empty list.
Answered(l) ==
    answer' = [answer EXCEPT ![l] = IF db THEN Enabled(rows) ELSE {}]

\* A reload that has the field to itself makes up for earlier ones.
Excuse(l) ==
    excused' = (~db \/ (\E k \in Loaders \ {l} : ~Idle(k)))

\* A request reloads the schedules.
Reload(h) ==
    /\ pc[h] = "written"
    /\ Goto(h, "loaded")
    /\ Answered(h)
    /\ Excuse(h)
    /\ UNCHANGED <<rows, db, cached, bounds>>

\* Mutant.
Interval_RecomputeOnly == UNCHANGED vars

\* The interval reloads them too, not just the speed of the clock.
Interval ==
    /\ Idle(Timer)
    /\ Goto(Timer, "loaded")
    /\ Answered(Timer)
    /\ Excuse(Timer)
    /\ UNCHANGED <<rows, db, cached, bounds>>

\* The answer arrives; tick() follows.
Arrive(l) ==
    /\ pc[l] = "loaded"
    /\ cached' = answer[l]
    /\ Goto(l, "idle")
    /\ answer' = [answer EXCEPT ![l] = {}]
    /\ UNCHANGED <<rows, db, excused, bounds>>

DbDown ==
    /\ db /\ outages < MAX_OUTAGES
    /\ db' = FALSE /\ outages' = outages + 1
    /\ UNCHANGED <<rows, cached, pc, answer, excused, writes>>

DbUp ==
    /\ ~db
    /\ db' = TRUE
    /\ UNCHANGED <<rows, cached, pc, answer, excused, bounds>>

Next ==
    \/ \E h \in Handlers, id \in Ids :
          \/ \E enabled \in BOOLEAN : Create(h, id, enabled) \/ Update(h, id, enabled)
          \/ Delete(h, id) \/ Activate(h, id)
    \/ \E h \in Handlers : ReadBack(h) \/ Throws(h) \/ Reload(h)
    \/ Interval
    \/ \E l \in Loaders : Arrive(l)
    \/ DbDown \/ DbUp

Spec == Init /\ [][Next]_vars

-----------------------------------------------------------------------------
(* Properties.                                                             *)

\* A request that has the database to itself is in force when it is over: the
\* schedules the engine runs are the rows.  Only a query that failed or two
\* requests at once excuse it, and only until the next undisturbed reload.
CacheFresh ==
    (\A l \in Loaders : Idle(l)) /\ ~excused => cached = Enabled(rows)

\* scheduler.ts:76-79, "self-heals": whatever went wrong or overtook, the engine
\* ends up with the schedules of the database.
CatchesUp == <>[](cached = Enabled(rows))
=============================================================================
