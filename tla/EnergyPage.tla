----------------------------- MODULE EnergyPage -----------------------------
(***************************************************************************)
(* The energy page of the web app (app/energy/page.tsx): a load for the    *)
(* selected range, which the next selection cancels, and "reset energy     *)
(* stats", which wipes the table and then loads once more, a load nobody   *)
(* cancels.  A load is three queries, each answered in its own time from   *)
(* the rows of that moment; of the rows only their epoch is kept, the      *)
(* number of times the table was wiped.                                    *)
(***************************************************************************)
EXTENDS Integers

CONSTANTS
    Ranges,          \* today, 7d, 30d
    MAX_RESETS,      \* bound: resets
    MAX_MISSES       \* bound: loads and queries that fail

ASSUME EnergyPageAssumption == MAX_RESETS \in Nat /\ MAX_MISSES \in Nat

VARIABLES
    range,           \* the selected range
    loads,           \* 0: the effect's load, k: the load after reset k
    data,            \* what is shown: the range and the epochs it is from
    reset,           \* resetStats(): no, asked, done
    closure,         \* the range resetStats() was rendered with
    resets, misses,  \* how much of the bounds is used
    epoch,           \* how often telemetry_raw was wiped
    crossed          \* history: why data may not be what was asked for

epage == <<range, loads, data, reset, closure, resets, misses, epoch, crossed>>

NoLoad == [range |-> "none", left |-> 0, from |-> {}]

Failed == -1         \* in `from': a query was answered with an error or with nothing

\* load(): three queries are sent for range r.
Sent(r) == [range |-> r, left |-> 3, from |-> {}]

Pending(k) == loads[k] # NoLoad

EInit ==
    /\ range = "today"
    /\ loads = [k \in 0..MAX_RESETS |-> IF k = 0 THEN Sent("today") ELSE NoLoad]
    /\ data = NoLoad
    /\ reset = "no" /\ closure = "today"
    /\ resets = 0 /\ misses = 0 /\ epoch = 0
    /\ crossed = FALSE

-----------------------------------------------------------------------------
\* A load of a reset may overwrite what is selected now: it is under way, or
\* will be.
ResetPending == reset # "no" \/ \E k \in 1..MAX_RESETS : Pending(k)

\* Mutant.
Cancel_Not(r) == IF Pending(0) THEN loads[0] ELSE Sent(r)

\* The cleanup of the effect cancels its load; the effect starts another one.
Cancel(r) == Sent(r)

SetRange(r) ==
    /\ r # range
    /\ range' = r
    /\ loads' = [loads EXCEPT ![0] = Cancel(r)]
    /\ crossed' = ResetPending
    /\ UNCHANGED <<data, reset, closure, resets, misses, epoch>>

\* A query is answered.
Read(k) ==
    /\ loads[k].left > 0
    /\ loads' = [loads EXCEPT ![k].left = @ - 1, ![k].from = @ \cup {epoch}]
    /\ UNCHANGED <<range, data, reset, closure, resets, misses, epoch, crossed>>

\* A query is answered with no rows, as the server does when it fails there.
ReadNothing(k) ==
    /\ loads[k].left > 0 /\ misses < MAX_MISSES
    /\ misses' = misses + 1
    /\ loads' = [loads EXCEPT ![k].left = @ - 1, ![k].from = @ \cup {Failed}]
    /\ crossed' = TRUE
    /\ UNCHANGED <<range, data, reset, closure, resets, epoch>>

\* All three are there.
Loaded(k) ==
    /\ Pending(k) /\ loads[k].left = 0
    /\ data' = loads[k]
    /\ loads' = [loads EXCEPT ![k] = NoLoad]
    /\ UNCHANGED <<range, reset, closure, resets, misses, epoch, crossed>>

\* One throws: the page shows numbers of the demo.
LoadThrows(k) ==
    /\ Pending(k) /\ misses < MAX_MISSES
    /\ misses' = misses + 1
    /\ data' = [loads[k] EXCEPT !.left = 0, !.from = {Failed}]
    /\ loads' = [loads EXCEPT ![k] = NoLoad]
    /\ crossed' = TRUE
    /\ UNCHANGED <<range, reset, closure, resets, epoch>>

\* The button is disabled during a reset; the ranges are not.
ResetStats ==
    /\ reset = "no" /\ resets < MAX_RESETS
    /\ reset' = "asked" /\ resets' = resets + 1
    /\ closure' = range
    /\ UNCHANGED <<range, loads, data, misses, epoch, crossed>>

\* purgeAll() deletes the rows.
Wipe ==
    /\ reset = "asked"
    /\ reset' = "done"
    /\ epoch' = epoch + 1
    /\ crossed' = (crossed \/ \E k \in 0..MAX_RESETS : Pending(k))
    /\ UNCHANGED <<range, loads, data, closure, resets, misses>>

\* It fails, or the request is lost: the page goes on in the same way.
WipeFails ==
    /\ reset = "asked" /\ misses < MAX_MISSES
    /\ misses' = misses + 1
    /\ reset' = "done"
    /\ UNCHANGED <<range, loads, data, closure, resets, epoch, crossed>>

\* resetStats() ends with a load for the range it was rendered with.
ResetDone ==
    /\ reset = "done"
    /\ reset' = "no"
    /\ loads' = [loads EXCEPT ![resets] = Sent(closure)]
    /\ UNCHANGED <<range, data, closure, resets, misses, epoch, crossed>>

ENext ==
    \/ \E r \in Ranges : SetRange(r)
    \/ \E k \in 0..MAX_RESETS : Read(k) \/ ReadNothing(k) \/ Loaded(k) \/ LoadThrows(k)
    \/ ResetStats \/ Wipe \/ WipeFails \/ ResetDone

ESpec == EInit /\ [][ENext]_epage

-----------------------------------------------------------------------------
(* Properties.                                                             *)

Calm == ~ResetPending /\ ~Pending(0)

\* When nothing is under way the page shows the range that is selected, and the
\* numbers of the rows there are: what a reset has wiped is not shown again, and
\* an answer for a range that was left is not shown under the new one.  Only a
\* failure, or a selection or load that overlapped a reset, whose own load
\* nobody cancels, leaves the page wrong, and then until the next selection.
ShowsEnergy ==
    Calm /\ ~crossed => data.range = range /\ data.from = {epoch}
=============================================================================
