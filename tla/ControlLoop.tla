----------------------------- MODULE ControlLoop -----------------------------
(***************************************************************************)
(* The control loop of pool-api: ControlState, Engine, CommandQueue,       *)
(* Poller and Scheduler.tick (apps/api/src/core) over one connection.      *)
(*                                                                         *)
(* Engine.apply() is asynchronous and nothing serialises its runs: every   *)
(* change of the intent and every keep-alive tick starts a chain of        *)
(* frames, and the chains interleave in the queue.  A job carries the rest *)
(* of its chain: the frame to write and those apply() sends after it.      *)
(***************************************************************************)
EXTENDS Integers, Sequences

CONSTANTS
    Rpms,             \* setpoints the requests and the schedules may ask for
    MAX_QUEUE_DEPTH,
    MAX_JOB_AGE,      \* MAX_JOB_AGE_MS, in units of 500 ms
    WRITE_TIMEOUT,    \* BRIDGE_WRITE_TIMEOUT_MS, in the same units
    MAX_REQUESTS,     \* bound: changes of the intent, and status polls
    MAX_FAULTS,       \* bound: link drops and slow or timed-out writes
    MAX_WIRE,         \* bound: bytes written and not delivered, in frames
    MAX_BACKLOG       \* bound: jobs a timer finds waiting when it fires

ASSUME ControlLoopAssumption ==
    /\ Rpms \subseteq Nat
    /\ MAX_QUEUE_DEPTH \in Nat \ {0}
    /\ MAX_JOB_AGE \in Nat /\ WRITE_TIMEOUT \in Nat \ {0}
    /\ MAX_REQUESTS \in Nat /\ MAX_FAULTS \in Nat /\ MAX_WIRE \in Nat
    /\ MAX_BACKLOG \in Nat

VARIABLES
    cs,               \* the fields of ControlState
    lastAppliedMode,  \* of the Engine
    queue,            \* CommandQueue.queue
    inflight,         \* the job bridge.write() was called for, or NoJob
    gap,              \* drain() sleeps between two commands
    wire,             \* frames the socket took, not yet delivered
    heard,            \* what the far end has been told: enabled, running, rpm
    lost,             \* history: a frame of a chain was lost (see Fresh)
    requests, faults  \* how much of the two bounds is used

frames == <<queue, inflight, gap, wire>>
bounds == <<requests, faults>>
vars == <<cs, lastAppliedMode, frames, heard, lost, bounds>>

Enable        == [cmd |-> "remote", val |-> 1]
Release       == [cmd |-> "remote", val |-> 0]
Run           == [cmd |-> "run", val |-> 1]
Stop          == [cmd |-> "run", val |-> 0]
SetRpm(r)     == [cmd |-> "rpm", val |-> r]
StatusRequest == [cmd |-> "status", val |-> 0]

Frames == {Enable, Release, Run, Stop, StatusRequest}
            \cup {SetRpm(r) : r \in Rpms}

\* What the scheduler has computed: is any schedule enabled, and its speed.
NoPlan == [active |-> FALSE, rpm |-> 0]
Plans  == [active: {TRUE}, rpm: Rpms] \cup {NoPlan}

Modes == {"schedule", "manual", "off"}

\* `to' is what lastAppliedMode becomes when the chain is done.
Jobs == [chain: Seq(Frames), to: {"schedule", "manual", "released", "poll"},
         age: Nat]

NoJob == [chain |-> <<>>, to |-> "poll", age |-> 0]

ControlStates ==
    [controlMode: Modes, manualRpm: Rpms \cup {0}, scheduledRpm: Rpms \cup {0},
     scheduleActive: BOOLEAN, overrideUntil: {"null", "ahead", "past"},
     busConnected: BOOLEAN]

-----------------------------------------------------------------------------
(* Engine.apply: the chains one call starts.                               *)

TargetRpm(s) ==
    CASE s.controlMode = "manual"   -> s.manualRpm
      [] s.controlMode = "schedule" -> s.scheduledRpm
      [] OTHER                      -> 0

ReleaseToOnboard(s) ==
    \/ s.controlMode = "off"
    \/ s.controlMode = "schedule" /\ ~s.scheduleActive

Job(chain, to) == [chain |-> chain, to |-> to, age |-> 0]

Drive(s) ==
    Job(IF TargetRpm(s) > 0 THEN <<Enable, Run, SetRpm(TargetRpm(s))>>
                            ELSE <<Enable, Stop>>,
        s.controlMode)

\* Mutant.
Realize_OncePerMode(s) ==
    IF lastAppliedMode = s.controlMode THEN <<>>
    ELSE IF ~ReleaseToOnboard(s) THEN <<Drive(s)>>
    ELSE IF lastAppliedMode = "released" THEN <<>>
    ELSE <<Job(<<Release>>, "released")>>

Realize(s) ==
    IF ~ReleaseToOnboard(s) THEN <<Drive(s)>>
    ELSE IF lastAppliedMode # "released" THEN <<Job(<<Release>>, "released")>>
    ELSE <<>>

\* Mutant.
TickOverride_Never(s) == s

\* tickOverride(): a manual override that is over becomes schedule mode.
TickOverride(s) ==
    IF s.controlMode = "manual" /\ s.overrideUntil = "past"
    THEN [s EXCEPT !.controlMode = "schedule", !.overrideUntil = "null"]
    ELSE s

\* The state apply() leaves, and the chains it starts: tickOverride() notifies,
\* so that an expiry runs apply() once more inside apply().
Applied(s) == IF s.busConnected THEN TickOverride(s) ELSE s

Apply(s) ==
    IF ~s.busConnected THEN <<>>
    ELSE IF TickOverride(s) = s THEN Realize(s)
    ELSE Realize(TickOverride(s)) \o Realize(TickOverride(s))

-----------------------------------------------------------------------------
(* CommandQueue.                                                           *)

Controls(job) == job # NoJob /\ job.to # "poll"

\* The jobs that are rejected.  apply() gives its chain up; for a release it
\* goes on as if it had been sent.
Reject(jobs) ==
    /\ lastAppliedMode' = IF \E j \in jobs : j.to = "released"
                          THEN "released" ELSE lastAppliedMode
    /\ lost' = (lost \/ \E j \in jobs : Controls(j))

\* Push onto a full queue: the oldest make room.
Kept(q)    == IF Len(q) <= MAX_QUEUE_DEPTH THEN q
              ELSE SubSeq(q, Len(q) - MAX_QUEUE_DEPTH + 1, Len(q))
Evicted(q) == {q[i] : i \in 1 .. Len(q) - MAX_QUEUE_DEPTH}

\* bridge.write(): refused at once when the link is down.
Write(job) ==
    IF cs'.busConnected
    THEN inflight' = job /\ gap' = FALSE /\ wire' = Append(wire, Head(job.chain))
    ELSE inflight' = NoJob /\ gap' = TRUE /\ UNCHANGED wire

Idle == inflight = NoJob /\ ~gap

\* Nothing is queued, on its way or undelivered.
Quiet == Idle /\ wire = <<>>

\* History: a chain that starts with nothing else on its way makes up for
\* whatever was lost before it.
Fresh(jobs) == Quiet /\ \E i \in DOMAIN jobs : Controls(jobs[i])

\* send() for each job in turn; the first is written at once if drain() is idle.
Send(jobs) ==
    IF jobs = <<>>
    THEN UNCHANGED <<frames, lastAppliedMode, lost>>
    ELSE IF Idle
    THEN /\ Write(Head(jobs))
         /\ queue' = Tail(jobs)
         /\ lost' = (lost /\ ~Fresh(jobs))
         /\ UNCHANGED lastAppliedMode
    ELSE /\ queue' = Kept(queue \o jobs)
         /\ Reject(Evicted(queue \o jobs))
         /\ UNCHANGED <<inflight, gap, wire>>

\* What the end of a chain leaves in lastAppliedMode.
ModeAfter(job) == IF job.to = "poll" THEN lastAppliedMode ELSE job.to

\* The write is flushed: apply() goes on with the next frame of its chain.
WriteDone(waited) ==
    LET rest  == [inflight EXCEPT !.chain = Tail(@), !.age = 0]
        older == [i \in DOMAIN queue |->
                    [queue[i] EXCEPT !.age = @ + waited]]
        all   == IF rest.chain = <<>> THEN older ELSE Append(older, rest)
    IN  /\ queue' = Kept(all)
        /\ lastAppliedMode' =
             IF rest.chain = <<>> THEN ModeAfter(inflight)
             ELSE IF \E j \in Evicted(all) : j.to = "released" THEN "released"
             ELSE lastAppliedMode
        /\ lost' = (lost \/ \E j \in Evicted(all) : Controls(j))
        /\ inflight' = NoJob /\ gap' = TRUE
        /\ UNCHANGED <<cs, wire, heard, requests>>

\* The write fails, or is not flushed in time: the bytes of a write that timed
\* out are still in the socket.
WriteFailed ==
    /\ Reject({inflight})
    /\ inflight' = NoJob /\ gap' = TRUE

Stale(job) == job.age > MAX_JOB_AGE

-----------------------------------------------------------------------------
(* The handlers.                                                           *)

\* A change of the intent that is notified: apply() runs on the new state.
Notify(s) ==
    /\ cs' = Applied(s)
    /\ Send(Apply(s))

Request ==
    /\ requests < MAX_REQUESTS
    /\ requests' = requests + 1
    /\ UNCHANGED <<heard, faults>>

SetManual(rpm, timed) ==
    /\ Request
    /\ Notify([cs EXCEPT !.controlMode = "manual", !.manualRpm = rpm,
                         !.overrideUntil = IF timed THEN "ahead" ELSE "null"])

ResumeSchedule ==
    /\ Request
    /\ Notify([cs EXCEPT !.controlMode = "schedule", !.overrideUntil = "null"])

SetOff ==
    /\ Request
    /\ Notify([cs EXCEPT !.controlMode = "off", !.overrideUntil = "null"])

\* The two setters of Scheduler.tick(): each notifies if it changed something
\* that matters in schedule mode.
SetScheduleActive(s, active) == [s EXCEPT !.scheduleActive = active]
SetScheduledRpm(s, rpm)      == [s EXCEPT !.scheduledRpm = rpm]

Notified(before, after) ==
    IF before # after /\ after.controlMode = "schedule"
    THEN Apply(after) ELSE <<>>

\* Scheduler.tick(), after a refresh or as the clock goes from one segment to
\* the next: setScheduleActive(), then setScheduledRpm().
SchedulerTick(plan) ==
    LET s1 == SetScheduleActive(cs, plan.active)
        s2 == SetScheduledRpm(s1, plan.rpm)
    IN  /\ s2 # cs
        /\ Request
        /\ cs' = s2
        /\ Send(Notified(cs, s1) \o Notified(s1, s2))

\* Time passes the end of a timed override.
OverridePasses ==
    /\ cs.overrideUntil = "ahead"
    /\ cs' = [cs EXCEPT !.overrideUntil = "past"]
    /\ UNCHANGED <<lastAppliedMode, frames, heard, lost, bounds>>

\* Commands are 30 ms apart and timers seconds.
TimerIsDue == Len(queue) <= MAX_BACKLOG

\* The engine's keep-alive interval.
KeepAlive ==
    /\ TimerIsDue
    /\ cs' = Applied(cs)
    /\ Send(Apply(cs))
    /\ UNCHANGED <<heard, bounds>>

\* The poller's interval, or pollNow().
Poll ==
    /\ TimerIsDue
    /\ Request
    /\ cs' = cs
    /\ Send(<<Job(<<StatusRequest>>, "poll")>>)

\* setBusConnected(true).
BusUp ==
    /\ ~cs.busConnected
    /\ Notify([cs EXCEPT !.busConnected = TRUE])
    /\ UNCHANGED <<heard, bounds>>

Fault ==
    /\ faults < MAX_FAULTS
    /\ faults' = faults + 1

\* The connection drops: what was not delivered is lost and the write that is
\* under way fails; then setBusConnected(false), which apply() ignores.
BusDown ==
    /\ cs.busConnected
    /\ Fault
    /\ cs' = [cs EXCEPT !.busConnected = FALSE]
    /\ wire' = <<>>
    /\ IF inflight # NoJob
       THEN /\ inflight' = NoJob /\ gap' = TRUE
            /\ lastAppliedMode' = IF inflight.to = "released"
                                  THEN "released" ELSE lastAppliedMode
       ELSE UNCHANGED <<inflight, gap, lastAppliedMode>>
    /\ lost' = (lost \/ Controls(inflight)
                     \/ \E i \in DOMAIN wire : wire[i] # StatusRequest)
    /\ UNCHANGED <<queue, heard, requests>>

\* The write is flushed while the socket holds few frames; a slow write counts
\* as a fault.
WriteFlushed ==
    /\ inflight # NoJob
    /\ Len(wire) <= MAX_WIRE
    /\ \/ WriteDone(0) /\ UNCHANGED faults
       \/ WriteDone(WRITE_TIMEOUT - 1) /\ Fault

WriteTimesOut ==
    /\ inflight # NoJob
    /\ Len(wire) <= MAX_WIRE
    /\ Fault
    /\ WriteFailed
    /\ queue' = [i \in DOMAIN queue |->
                    [queue[i] EXCEPT !.age = @ + WRITE_TIMEOUT]]
    /\ UNCHANGED <<cs, wire, heard, requests>>

\* drain() goes on after the gap: it takes jobs off the head, drops the stale
\* ones, and writes the first that is not.
GapOver ==
    /\ gap
    /\ UNCHANGED <<cs, heard, bounds>>
    /\ \E n \in 0..Len(queue) :
         LET dead == {queue[i] : i \in 1..n}
         IN  /\ \A j \in dead : Stale(j)
             /\ \/ /\ n = Len(queue)
                   /\ queue' = <<>> /\ gap' = FALSE
                   /\ Reject(dead)
                   /\ UNCHANGED <<inflight, wire>>
                \/ /\ n < Len(queue) /\ ~Stale(queue[n + 1])
                   /\ queue' = SubSeq(queue, n + 2, Len(queue))
                   /\ Write(queue[n + 1])
                   /\ Reject(dead \cup IF cs.busConnected THEN {}
                                       ELSE {queue[n + 1]})

\* A frame arrives at the far end (see Guardian!Sniff).
Hear(h, f) ==
    CASE f.cmd = "remote" -> [h EXCEPT !.remote = (f.val = 1)]
      [] f.cmd = "run"    -> [h EXCEPT !.running = (f.val = 1)]
      [] f.cmd = "rpm"    -> [h EXCEPT !.rpm = f.val]
      [] OTHER            -> h

Deliver ==
    /\ wire # <<>>
    /\ heard' = Hear(heard, Head(wire))
    /\ wire' = Tail(wire)
    /\ UNCHANGED <<cs, lastAppliedMode, queue, inflight, gap, lost, bounds>>

-----------------------------------------------------------------------------
\* engine.start(), with the intent restored and the schedules primed; the link
\* is not up yet.
Init ==
    /\ \E m \in Modes, r \in Rpms, p \in Plans :
          cs = [controlMode |-> m, manualRpm |-> IF m = "manual" THEN r ELSE 0,
                scheduledRpm |-> p.rpm, scheduleActive |-> p.active,
                overrideUntil |-> "null", busConnected |-> FALSE]
    /\ lastAppliedMode = "null"
    /\ queue = <<>> /\ inflight = NoJob /\ gap = FALSE /\ wire = <<>>
    /\ heard = [remote |-> FALSE, running |-> FALSE, rpm |-> 0]
    /\ lost = FALSE
    /\ requests = 0 /\ faults = 0

Next ==
    \/ \E r \in Rpms, timed \in BOOLEAN : SetManual(r, timed)
    \/ ResumeSchedule \/ SetOff
    \/ \E p \in Plans : SchedulerTick(p)
    \/ OverridePasses
    \/ KeepAlive \/ Poll
    \/ BusUp \/ BusDown
    \/ WriteFlushed \/ WriteTimesOut \/ GapOver \/ Deliver

Spec == Init /\ [][Next]_vars

\* Timers fire, sockets flush and deliver, the link is redialled (BridgeLink).
Fairness ==
    /\ WF_vars(KeepAlive) /\ WF_vars(BusUp) /\ WF_vars(OverridePasses)
    /\ WF_vars(WriteFlushed) /\ WF_vars(GapOver) /\ WF_vars(Deliver)

FairSpec == Spec /\ Fairness

-----------------------------------------------------------------------------
(* Properties.                                                             *)

\* The queue never holds more than MAX_QUEUE_DEPTH jobs, nor one that has
\* waited more than one write beyond MAX_JOB_AGE.
TypeOK ==
    /\ cs \in ControlStates
    /\ lastAppliedMode \in {"null", "released", "schedule", "manual"}
    /\ queue \in Seq(Jobs) /\ Len(queue) <= MAX_QUEUE_DEPTH
    /\ \A i \in DOMAIN queue : queue[i].age <= MAX_JOB_AGE + WRITE_TIMEOUT
    /\ inflight \in Jobs \cup {NoJob} /\ gap \in BOOLEAN
    /\ wire \in Seq(Frames)
    /\ heard \in [remote: BOOLEAN, running: BOOLEAN, rpm: Rpms \cup {0}]
    /\ lost \in BOOLEAN
    /\ requests \in 0..MAX_REQUESTS /\ faults \in 0..MAX_FAULTS

\* The far end has been told what the state asks for.
Driven(s) ==
    /\ heard.remote
    /\ IF TargetRpm(s) > 0
       THEN heard.running /\ heard.rpm = TargetRpm(s)
       ELSE ~heard.running

\* However many chains of apply() interleaved, when all is quiet and no frame was
\* lost the pump has been told the latest intent, no older chain overwrites a
\* newer one; and "released", which the engine does not repeat, is not a guess,
\* although a chain started before the release goes on after it.
LatestIntentWins ==
    Quiet /\ ~lost =>
        /\ cs.busConnected /\ ~ReleaseToOnboard(cs) => Driven(cs)
        /\ lastAppliedMode = "released" => ~heard.remote

\* Once requests and faults end, the pump is and stays told what the state asks
\* for; a release only if none of its frames was lost, for it is not repeated.
Settles ==
    <>[](IF ReleaseToOnboard(cs) THEN lost \/ ~heard.remote ELSE Driven(cs))

\* A timed override ends, even if its time passes while the link is down.
OverrideEnds == cs.overrideUntil = "past" ~> cs.overrideUntil # "past"

\* The jobs in the order they will be written.
Waiting == (IF inflight = NoJob THEN <<>> ELSE <<inflight>>) \o queue

\* engine.ts:58-60, "so "Schedule" never accidentally stops the pump": a chain
\* that stops the pump is started only for an intent of speed 0.  Checked by a
\* run that refutes it.
NeverStopsByAccident ==
    [][\A i \in Len(Waiting) + 1 .. Len(Waiting') :
         Waiting'[i].chain = <<Enable, Stop>> => TargetRpm(cs') = 0]_vars
=============================================================================
