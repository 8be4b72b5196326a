------------------------------ MODULE Failsafe ------------------------------
(***************************************************************************)
(* The chain that drives the pump: pool-api's control loop, the guardian   *)
(* between it and the ESP32, and the pump.  ControlLoop is taken whole;    *)
(* `heard' is the guardian's intent, for it forwards what it observes.     *)
(* Module Guardian has the guardian's sockets and timers in detail; here   *)
(* its clock is abstracted and the link to the ESP32 is up.                *)
(***************************************************************************)
EXTENDS ControlLoop

CONSTANT
    PUMP_TIMEOUT      \* the pump's own timeout, in keep-alive periods

ASSUME FailsafeAssumption == PUMP_TIMEOUT \in Nat \ {0}

VARIABLES
    client,          \* the guardian has a connected app
    hold,            \* its state: relaying, holding, idle
    pump,            \* "driven" by remote commands, or "onboard" schedule
    missed,          \* keep-alive periods the pump has heard no remote command
    cutOff           \* history: periods since the app last had all it sent heard

guard == <<client, hold>>
all   == <<vars, guard, pump, missed, cutOff>>

\* Mutant.
Holdable_IgnoreRelease == heard.running /\ heard.rpm > 0

Holdable == heard.remote /\ heard.running /\ heard.rpm > 0

\* The app is there and has a speed to keep the pump at.
AppDrives == cs.busConnected /\ ~ReleaseToOnboard(cs)

\* All that it sent was heard.
AllHeard == AppDrives /\ Quiet /\ ~lost

\* The pump listens to the app and would time out.
Listens == pump = "driven" /\ hold # "holding"

\* History, of each step.  Counting ends where the pump has timed out.
Counts(periods) ==
    cutOff' = IF AllHeard' \/ ~Listens' THEN 0
              ELSE IF cutOff + periods > PUMP_TIMEOUT THEN PUMP_TIMEOUT
              ELSE cutOff + periods

FInit ==
    /\ Init
    /\ client = FALSE /\ hold = "idle" /\ pump = "onboard" /\ missed = 0
    /\ cutOff = 0

\* The app's connection to the guardian is up: the guardian stands back.
Connects ==
    /\ BusUp
    /\ client' = TRUE /\ hold' = "relaying"
    /\ UNCHANGED <<pump, missed>>

\* The guardian learns that the app is gone.
ClientClosed ==
    /\ client /\ ~cs.busConnected
    /\ client' = FALSE
    /\ IF Holdable
       THEN hold' = "holding" /\ pump' = "driven" /\ missed' = 0
       ELSE hold' = "idle" /\ UNCHANGED <<pump, missed>>
    /\ UNCHANGED vars

\* Mutant.
Ceiling_Never == FALSE

\* FAILOVER_MAX_MS is over: one release.
Ceiling ==
    /\ hold = "holding"
    /\ hold' = "idle" /\ pump' = "onboard"
    /\ UNCHANGED <<vars, client, missed>>

\* A frame reaches the pump by way of the guardian.
Relays ==
    /\ Deliver
    /\ pump' = CASE Head(wire) = Enable  -> "driven"
                 [] Head(wire) = Release -> "onboard"
                 [] OTHER                -> pump
    /\ missed' = IF Head(wire).cmd = "remote" THEN 0 ELSE missed
    /\ UNCHANGED guard

\* A keep-alive period of the app, or as long a time without it.  The pump's clock
\* runs on whatever is under way: what the period before sent may still be queued,
\* or sit in a socket that delivers nothing.
Period ==
    LET silent == missed + 1
    IN  /\ KeepAlive
        /\ IF ~Listens
           THEN UNCHANGED <<pump, missed>>
           ELSE IF silent > PUMP_TIMEOUT
           THEN pump' = "onboard" /\ missed' = 0
           ELSE missed' = silent /\ UNCHANGED pump
        /\ UNCHANGED guard

\* pool-api is killed and started again: mode and manual speed are restored and
\* the schedules primed before the engine starts; an override is no longer timed.
AppRestarts ==
    /\ Fault
    /\ cs' = [cs EXCEPT !.busConnected = FALSE, !.overrideUntil = "null"]
    /\ lastAppliedMode' = "null"
    /\ queue' = <<>> /\ inflight' = NoJob /\ gap' = FALSE /\ wire' = <<>>
    /\ lost' = (lost \/ ~Idle \/ wire # <<>>)
    /\ UNCHANGED <<heard, requests, guard, pump, missed>>

\* The rest of the control loop does not touch the guardian or the pump.
LoopStep ==
    /\ \/ \E r \in Rpms, timed \in BOOLEAN : SetManual(r, timed)
       \/ ResumeSchedule \/ SetOff
       \/ \E p \in Plans : SchedulerTick(p)
       \/ OverridePasses
       \/ Poll \/ BusDown
       \/ WriteFlushed \/ WriteTimesOut \/ GapOver
    /\ UNCHANGED <<guard, pump, missed>>

FNext ==
    \/ Period /\ Counts(1)
    \/ /\ \/ Connects \/ ClientClosed \/ Ceiling \/ Relays
          \/ AppRestarts \/ LoopStep
       /\ Counts(0)

FSpec == FInit /\ [][FNext]_all

Counted(A) == A /\ Counts(0)
Sends(A)   == Counted(A /\ UNCHANGED <<guard, pump, missed>>)

\* Time passes and drain() goes on, but an app may stay away for good.
FairFSpec ==
    /\ FSpec
    /\ WF_all(Counted(ClientClosed \/ Ceiling)) /\ WF_all(Period /\ Counts(1))
    /\ WF_all(Counted(Relays) \/ Sends(WriteFlushed \/ GapOver))

-----------------------------------------------------------------------------
(* Properties.                                                             *)

\* guardian README, "a permanently-dead app hands scheduling back to the pump's
\* onboard program": an app that stays away is not held for ever.
DeadAppHandsBack ==
    ~cs.busConnected ~> (cs.busConnected \/ pump = "onboard")

\* A period is over and the pump has not heard the one before, whose frames are
\* still under way.
Late == AppDrives /\ ~Quiet /\ missed > 0 /\ Period

\* When requests and faults end, and the link is not late any more, the pump is
\* where the user asked it to be, even after a missed release: driven, or on its
\* own schedule.  It is on its own schedule too if the app never comes back.
PumpEndsWhereAsked ==
    <>[][~Late]_all => <>[](pump = IF AppDrives THEN "driven" ELSE "onboard")

\* The app keeps the pump in remote control: as long as it wants to drive, the pump
\* times out under it only after a whole timeout without a moment at which all that
\* the app had sent was heard, be it late, lost or held up by the link.
TimesOutWhenCutOff ==
    [][pump = "driven" /\ pump' = "onboard" /\ AppDrives
         => cutOff = PUMP_TIMEOUT \/ (wire # <<>> /\ Head(wire) = Release)]_all

\* What the guardian holds, it holds for an app that wanted it: not after a
\* release, unless one of its frames was lost.
NoHoldAfterRelease ==
    hold = "holding" /\ lastAppliedMode = "released" /\ Quiet => lost

\* engine.ts:67, "a missed release just means the pump times out instead": once
\* the user chose off and the engine has ticked the release off, nobody drives
\* the pump.  Checked by a run that refutes it.
OffIsLeftAlone ==
    cs.controlMode = "off" /\ lastAppliedMode = "released" /\ Quiet
      => hold # "holding"
=============================================================================
