------------------------------ MODULE Telemetry ------------------------------
(***************************************************************************)
(* The write side of the telemetry (apps/api/src/db/repos/telemetry.ts):   *)
(* samples are buffered in memory, flushed in batches by an interval that  *)
(* does not wait for the previous flush, and wiped by "reset energy stats".*)
(* Samples are numbered in the order they are recorded.  Module Server has *)
(* the steps of the process they are part of.                              *)
(***************************************************************************)
EXTENDS Integers, Sequences, SequencesExt

CONSTANTS
    MAX_BUFFER,
    Flushes,         \* flush() calls that may be under way at once
    MAX_SAMPLES,     \* bound: samples recorded
    MAX_PURGES,      \* bound: resets
    MAX_FAILURES     \* bound: queries that fail, and crashes

ASSUME TelemetryAssumption ==
    /\ MAX_BUFFER \in Nat \ {0}
    /\ MAX_SAMPLES \in Nat /\ MAX_PURGES \in Nat /\ MAX_FAILURES \in Nat

VARIABLES
    recorded,        \* how many samples were recorded
    buffer,          \* samples not flushed yet
    batch,           \* the samples each flush has taken
    stored,          \* the rows of telemetry_raw
    purging,         \* a reset waits for its delete
    wiped,           \* history: samples the last reset has to remove for good
    given,           \* history: samples given up, and known to be
    purges, failures \* how much of the bounds is used

bounds == <<purges, failures>>
vars == <<recorded, buffer, batch, stored, purging, wiped, given, bounds>>

None == [f \in Flushes |-> <<>>]

InBatches == UNION {Range(batch[f]) : f \in Flushes}

Init ==
    /\ recorded = 0
    /\ buffer = <<>> /\ batch = None
    /\ stored = {}
    /\ purging = FALSE /\ wiped = {}
    /\ given = {}
    /\ purges = 0 /\ failures = 0

\* splice(0, length - MAX_BUFFER): the oldest are dropped.
Newest(s) ==
    IF Len(s) <= MAX_BUFFER THEN s
    ELSE SubSeq(s, Len(s) - MAX_BUFFER + 1, Len(s))

\* record(): one sample, from a pump status.
Record ==
    LET all == Append(buffer, recorded + 1)
    IN  /\ recorded < MAX_SAMPLES
        /\ recorded' = recorded + 1
        /\ buffer' = Newest(all)
        /\ given' = given \cup (Range(all) \ Range(buffer'))
        /\ UNCHANGED <<batch, stored, purging, wiped, bounds>>

\* Mutant.
TakeBuffer_Not == UNCHANGED buffer

TakeBuffer == buffer' = <<>>

\* flush() takes the buffer and starts the insert.
Flush(f) ==
    /\ batch[f] = <<>> /\ buffer # <<>>
    /\ batch' = [batch EXCEPT ![f] = buffer]
    /\ TakeBuffer
    /\ UNCHANGED <<recorded, stored, purging, wiped, given, bounds>>

\* The insert runs; two flushes' inserts in any order.
Insert(f) ==
    /\ batch[f] # <<>>
    /\ stored' = stored \cup Range(batch[f])
    /\ batch' = [batch EXCEPT ![f] = <<>>]
    /\ UNCHANGED <<recorded, buffer, purging, wiped, given, bounds>>

\* The insert fails, or its answer is lost after it ran: the batch is not kept.
InsertFails(f) ==
    /\ batch[f] # <<>> /\ failures < MAX_FAILURES
    /\ failures' = failures + 1
    /\ \/ stored' = stored \cup Range(batch[f]) /\ UNCHANGED given
       \/ given' = given \cup Range(batch[f]) /\ UNCHANGED stored
    /\ batch' = [batch EXCEPT ![f] = <<>>]
    /\ UNCHANGED <<recorded, buffer, purging, wiped, purges>>

\* Mutant.
DropBuffer_Not == UNCHANGED buffer

DropBuffer == buffer' = <<>>

\* purgeAll(): drops the buffer and starts the delete.
Purge ==
    /\ ~purging /\ purges < MAX_PURGES
    /\ purges' = purges + 1
    /\ purging' = TRUE
    /\ wiped' = 1..recorded \ InBatches
    /\ given' = given \cup Range(buffer)
    /\ DropBuffer
    /\ UNCHANGED <<recorded, batch, stored, failures>>

Delete ==
    /\ purging
    /\ purging' = FALSE
    /\ given' = given \cup stored
    /\ stored' = {}
    /\ UNCHANGED <<recorded, buffer, batch, wiped, bounds>>

DeleteFails ==
    /\ purging /\ failures < MAX_FAILURES
    /\ failures' = failures + 1
    /\ purging' = FALSE /\ wiped' = {}
    /\ UNCHANGED <<recorded, buffer, batch, stored, given, purges>>

-----------------------------------------------------------------------------
(* Properties.                                                             *)

\* A sample is in one place at a time, however flushes, failures and resets
\* interleave: none is stored twice, none vanishes without being dropped by the
\* cap, a failed insert or a reset.
EachSampleOnce ==
    /\ 1..recorded = Range(buffer) \cup InBatches \cup stored \cup given
    /\ Range(buffer) \cap (InBatches \cup stored \cup given) = {}
    /\ InBatches \cap (stored \cup given) = {}
    /\ stored \cap given = {}
    /\ \A f, g \in Flushes :
          f # g => Range(batch[f]) \cap Range(batch[g]) = {}

\* telemetry.ts:60-61, "Wipe all recorded telemetry", and the buffered samples
\* too, "so they don't repopulate on the next flush": once a reset is over, no
\* later flush brings a sample back.  One that was under way when it began may:
\* its samples are in neither the buffer nor the table, and not in `wiped'.
ResetWipes ==
    ~purging => stored \cap wiped = {}
=============================================================================
