---------------------------- MODULE SchedulePage ----------------------------
(***************************************************************************)
(* The schedule page of the web app (app/schedule/page.tsx) over the rows  *)
(* of Schedules.  The page has two threads of requests: the load of its    *)
(* first render, which does not set `busy', and what the user does, which  *)
(* does.  Other browsers change rows as they like.  How the server's       *)
(* cached copy follows is what Schedules is about; the page cannot tell,   *)
(* and here it follows at once.                                            *)
(*                                                                         *)
(* A preset is its id, its name (a function of the id) and whether it is   *)
(* enabled; segments are left out.  Postgres reuses no id; here the id of  *)
(* a deleted row may come back, which only adds behaviours.                *)
(***************************************************************************)
EXTENDS Schedules, Sequences

CONSTANTS
    First, Act,      \* the page's threads
    NoId,            \* selectedId === null
    NameOf,          \* the name of each id
    STARTERS,        \* the names of the default presets; the first is enabled
    MAX_FAULTS       \* bound: lost calls, page reloads, outages, other browsers

ASSUME SchedulePageAssumption ==
    /\ First # Act /\ NoId \notin Ids
    /\ STARTERS \in Seq(STRING)
    /\ MAX_FAULTS \in Nat

VARIABLES
    shown,           \* schedules: the list as the page has it
    sel,             \* selectedId
    busy,
    at,              \* each thread: idle, write, reply, list, listed
    call,            \* the write the user asked for
    heard,           \* the list each thread's GET is answered with
    seeding,         \* the threads inside the seeding of load(): none or one
    todo, had,       \* there: the starters still to create (positions in
                     \* STARTERS), and the list before it
    seeded,          \* seeded.current, which counts until the flag is set
    flag,            \* localStorage[SEED_FLAG]
    disturbed,       \* history: why shown may not be the rows
    split,           \* history: why more than one row may be enabled
    faults           \* how much of the bound is used

view   == <<shown, sel, busy>>
seeds  == <<seeding, todo, had, seeded, flag>>
page   == <<view, at, call, heard, seeds>>
notes  == <<disturbed, split, faults>>
pvars  == <<vars, page, notes>>

Threads == {First, Act}

Nothing == [id \in Ids |-> "absent"]
Listed(list) == {id \in Ids : list[id] # "absent"}

NoCall == [op |-> "none", id |-> NoId, on |-> FALSE]

\* A fresh page: its effect calls load().
Loading == [t \in Threads |-> IF t = First THEN "list" ELSE "idle"]

PInit ==
    /\ Init
    /\ shown = Nothing /\ sel = NoId /\ busy = FALSE
    /\ at = Loading /\ call = NoCall
    /\ heard = [t \in Threads |-> Nothing]
    /\ seeding = {} /\ todo = {} /\ had = Nothing
    /\ seeded = FALSE /\ flag \in BOOLEAN
    /\ disturbed = TRUE
    /\ split = (\E i, j \in Enabled(rows) : i # j)
    /\ faults = 0

Fault == faults < MAX_FAULTS /\ faults' = faults + 1

-----------------------------------------------------------------------------
(* What the user does.  The buttons are disabled while busy; the list and   *)
(* "+ New" are not.                                                         *)

Select(id) ==
    /\ sel # id
    /\ sel' = id
    /\ UNCHANGED <<vars, shown, busy, at, call, heard, seeds, notes>>

Pick(id) == shown[id] # "absent" /\ Select(id)

StartNew == Select(NoId)

Click(request) ==
    /\ ~busy
    /\ busy' = TRUE
    /\ call' = request
    /\ at' = [at EXCEPT ![Act] = "write"]
    /\ disturbed' = (disturbed \/ at[First] # "idle")
    /\ UNCHANGED <<vars, shown, sel, heard, seeds, split, faults>>

\* Mutant.
EnabledFlag_Off == FALSE

\* A preset that is shown keeps its flag; a new one runs if it is the only one.
EnabledFlag ==
    IF sel # NoId /\ shown[sel] # "absent" THEN shown[sel] = "on"
    ELSE Listed(shown) = {}

Save ==
    Click([op |-> IF sel = NoId THEN "create" ELSE "update",
           id |-> sel, on |-> EnabledFlag])

\* "Use", which every preset that is not enabled has.
Use(id) ==
    /\ shown[id] = "off"
    /\ Click([op |-> "activate", id |-> id, on |-> TRUE])

DeletePreset ==
    /\ sel # NoId
    /\ Click([op |-> "delete", id |-> sel, on |-> FALSE])

-----------------------------------------------------------------------------
(* load().                                                                  *)

Stage(t, where) == at' = [at EXCEPT ![t] = where]

\* The thread is over.
Ends(t) ==
    /\ Stage(t, "idle")
    /\ busy' = (busy /\ t # Act)
    /\ call' = IF t = Act THEN NoCall ELSE call

\* Mutant.
Show_KeepsSelection(t, list) ==
    /\ shown' = list
    /\ sel' \in IF sel # NoId THEN {sel}
               ELSE IF Listed(list) # {} THEN Listed(list) ELSE {sel}
    /\ Ends(t)

\* The end of load(): the list is shown and a preset of it selected, the one
\* load() was given, an enabled one or any; with an empty list the old id stays.
Show(t, list) ==
    /\ shown' = list
    /\ LET given   == IF t = Act /\ call.op \in {"update", "activate"}
                      THEN {call.id} \cap Listed(list) ELSE {}
           choices == IF given # {} THEN given
                      ELSE IF Enabled(list) # {} THEN Enabled(list)
                      ELSE IF Listed(list) # {} THEN Listed(list)
                      ELSE {sel}
       IN  sel' \in choices
    /\ Ends(t)

\* listSchedules() reads the rows; without a database it answers with none.
Query(t) ==
    /\ at[t] = "list"
    /\ heard' = [heard EXCEPT ![t] = IF db THEN rows ELSE Nothing]
    /\ Stage(t, "listed")
    /\ disturbed' = (~db \/ (\E s \in Threads \ {t} : at[s] # "idle"))
    /\ UNCHANGED <<vars, view, call, seeds, split, faults>>

Missing(list) ==
    {k \in DOMAIN STARTERS : \A id \in Listed(list) : NameOf[id] # STARTERS[k]}

\* They are created in their order.
Upcoming == CHOOSE k \in todo : \A j \in todo : k <= j

Heard(t) == heard' = [heard EXCEPT ![t] = Nothing]

\* The answer arrives.
Answer(t) ==
    /\ at[t] = "listed" /\ t \notin seeding
    /\ flag \/ seeded \/ Missing(heard[t]) = {}
    /\ Show(t, heard[t])
    /\ flag' = (flag \/ ~seeded)
    /\ Heard(t)
    /\ UNCHANGED <<vars, seeding, todo, had, seeded, notes>>

\* The first time ever, missing starters are created before it is shown.
SeedStarts(t) ==
    /\ at[t] = "listed" /\ t \notin seeding
    /\ ~flag /\ ~seeded /\ Missing(heard[t]) # {}
    /\ seeded' = TRUE
    /\ seeding' = {t} /\ todo' = Missing(heard[t]) /\ had' = heard[t]
    /\ Stage(t, "write")
    /\ Heard(t)
    /\ UNCHANGED <<vars, view, call, flag, notes>>

\* The list with the starters arrives.
SeedEnds(t) ==
    /\ at[t] = "listed" /\ t \in seeding
    /\ Show(t, heard[t])
    /\ flag' = TRUE /\ seeded' = FALSE
    /\ seeding' = {} /\ had' = Nothing
    /\ Heard(t)
    /\ UNCHANGED <<vars, todo, notes>>

\* A call of t fails.  load() catches it and, while seeding, shows what it had;
\* remove() loads in any case; save() and activate() give up.
Catch(t) ==
    /\ IF t \in seeding
       THEN /\ Show(t, had)
            /\ seeding' = {} /\ todo' = {} /\ had' = Nothing
       ELSE /\ UNCHANGED <<seeding, todo, had, shown, sel>>
            /\ IF at[t] \in {"write", "reply"} /\ call.op = "delete"
               THEN Stage(t, "list") /\ UNCHANGED <<busy, call>>
               ELSE Ends(t)
    /\ Heard(t)
    /\ disturbed' = TRUE
    /\ UNCHANGED <<seeded, flag>>

-----------------------------------------------------------------------------
(* The server.                                                              *)

\* Mutant.
After_ActivateOnly(op, id, on) ==
    CASE op = "delete"   -> [rows EXCEPT ![id] = "absent"]
      [] op = "activate" -> [rows EXCEPT ![id] = IF @ = "absent" THEN @ ELSE "on"]
      [] OTHER           -> [rows EXCEPT ![id] = IF on THEN "on" ELSE "off"]

\* The rows after the statement of a request.
After(op, id, on) ==
    CASE op = "delete"   -> [rows EXCEPT ![id] = "absent"]
      [] op = "activate" -> [i \in Ids |-> IF rows[i] = "absent" THEN "absent"
                                           ELSE IF i = id THEN "on" ELSE "off"]
      [] OTHER           -> [rows EXCEPT ![id] = IF on THEN "on" ELSE "off"]

\* The statement runs: it creates a row that is not there, updates one that is.
Statement(op, id, on) ==
    /\ db /\ writes < MAX_WRITES
    /\ op = "create" => rows[id] = "absent"
    /\ op = "update" => rows[id] # "absent"
    /\ rows' = After(op, id, on)
    /\ writes' = writes + 1
    /\ split' = IF op = "activate" /\ rows[id] # "absent" THEN FALSE
                ELSE split \/ disturbed'
    /\ cached' = Enabled(rows')
    /\ UNCHANGED <<db, pc, answer, excused, outages>>

Creates(t) == t \in seeding \/ call.op = "create"

\* The ids a create may be given.
Free(t) ==
    {id \in Ids \ Listed(rows) : t \in seeding => NameOf[id] = STARTERS[Upcoming]}

\* The request of t: the next starter, the first of them enabled if the list was
\* empty, or what the user asked for.
Request(t) ==
    IF t \in seeding
    THEN \E id \in Free(t) :
            Statement("create", id, Listed(had) = {} /\ Upcoming = 1)
    ELSE \E id \in IF Creates(t) THEN Free(t) ELSE {call.id} :
            Statement(call.op, id, call.on)

Runs(t) ==
    /\ at[t] = "write"
    /\ UNCHANGED disturbed
    /\ Request(t)
    /\ Stage(t, "reply")
    /\ UNCHANGED <<view, call, heard, seeds, faults>>

\* It fails at once: no database, or no such row to update (404).
Rejected(t) ==
    /\ at[t] = "write"
    /\ \/ ~db
       \/ ~Creates(t) /\ call.op = "update" /\ rows[call.id] = "absent"
       \/ writes = MAX_WRITES \/ (Creates(t) /\ Free(t) = {})   \* bounds
    /\ Catch(t)
    /\ UNCHANGED <<vars, split, faults>>

\* Mutant.
Reply_NoReload(t) ==
    /\ at[t] = "reply" /\ t \notin seeding
    /\ Ends(t)
    /\ UNCHANGED <<vars, shown, sel, heard, seeds, notes>>

\* The reply to a write: the next starter, or the list again.
Reply(t) ==
    /\ at[t] = "reply"
    /\ todo' = IF t \in seeding THEN todo \ {Upcoming} ELSE todo
    /\ Stage(t, IF t \in seeding /\ todo' # {} THEN "write" ELSE "list")
    /\ UNCHANGED <<vars, view, call, heard, seeding, had, seeded, flag, notes>>

\* The statement's answer is lost with the database, or activate does not find
\* the row when it reads it back.
ReplyFails(t) ==
    /\ at[t] = "reply"
    /\ ~db \/ (~Creates(t) /\ call.op = "activate" /\ rows[call.id] = "absent")
    /\ Catch(t)
    /\ UNCHANGED <<vars, split, faults>>

-----------------------------------------------------------------------------
(* Faults.                                                                  *)

\* A call is lost, before the server has it or after.
Lose(t) ==
    /\ at[t] # "idle"
    /\ Fault
    /\ Catch(t)
    /\ UNCHANGED <<vars, split>>

\* The page is reloaded.
Reopen ==
    /\ Fault
    /\ shown' = Nothing /\ sel' = NoId /\ busy' = FALSE
    /\ at' = Loading /\ call' = NoCall
    /\ heard' = [t \in Threads |-> Nothing]
    /\ seeding' = {} /\ todo' = {} /\ had' = Nothing
    /\ seeded' = FALSE
    /\ disturbed' = TRUE
    /\ UNCHANGED <<vars, flag, split>>

\* Another browser, or a request the page gave up on and the server did not.
Elsewhere ==
    /\ Fault
    /\ disturbed' = TRUE
    /\ \E op \in {"create", "update", "delete", "activate"}, id \in Ids, on \in BOOLEAN :
          Statement(op, id, on)
    /\ UNCHANGED page

Outage == Fault /\ DbDown /\ UNCHANGED <<page, disturbed, split>>

OutageOver == DbUp /\ UNCHANGED <<page, notes>>

PNext ==
    \/ \E id \in Ids : Pick(id) \/ Use(id)
    \/ StartNew \/ Save \/ DeletePreset
    \/ \E t \in Threads :
          \/ Query(t) \/ Answer(t) \/ SeedStarts(t) \/ SeedEnds(t)
          \/ Runs(t) \/ Rejected(t) \/ Reply(t) \/ ReplyFails(t) \/ Lose(t)
    \/ Reopen \/ Elsewhere \/ Outage \/ OutageOver

PSpec == PInit /\ [][PNext]_pvars

-----------------------------------------------------------------------------
(* Properties.                                                             *)

\* schedules.ts:62, "exactly one schedule active": activating makes it so, and
\* no sequence of saves, deletions and seedings of the page, with calls lost
\* and retried, enables a second one.  A write from elsewhere, or one based on
\* a list that is out of date, excuses it until the next activation.
OneActive == ~split => \A i, j \in Enabled(rows) : i = j

\* The schedule that is running is switched off by being deleted only: not by
\* saving an edit, by seeding, or by activating another one, unless the page
\* acted on a list that another browser or a fault had made out of date.
RunningStays ==
    [][Enabled(rows) # {} /\ Enabled(rows') = {} /\ ~disturbed'
         => \E id \in Enabled(rows) : rows'[id] = "absent"]_pvars

\* When the page has come to rest it shows the rows, "Running" badge included,
\* unless the load of its first render overlapped what the user did, a call
\* failed, or another browser wrote since.
PageShowsRows ==
    (\A t \in Threads : at[t] = "idle") /\ ~disturbed => shown = rows

\* A save that finds no row (and is lost without a word) is one from a page
\* whose list is empty: the last preset was deleted and its id stayed selected.
SaveFindsRow ==
    at[Act] = "write" /\ ~Creates(Act) /\ call.op = "update" /\ ~disturbed
      => rows[call.id] # "absent" \/ Listed(shown) = {}
=============================================================================
