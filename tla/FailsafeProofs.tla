---------------------------- MODULE FailsafeProofs ----------------------------
(***************************************************************************)
(* Theorems about the control loop of pool-api and the chain of fallbacks  *)
(* behind it, for every set of speeds, queue depth, job age and timeout.   *)
(***************************************************************************)
EXTENDS Failsafe, SequenceTheorems, TLAPS

-----------------------------------------------------------------------------
(* The chains of apply(), by the frame they have come to.                  *)

Targets == Rpms \cup {0}

First(t)  == IF t > 0 THEN <<Enable, Run, SetRpm(t)>> ELSE <<Enable, Stop>>
Second(t) == IF t > 0 THEN <<Run, SetRpm(t)>> ELSE <<Stop>>
Third(t)  == <<SetRpm(t)>>
StartStop(t) == IF t > 0 THEN Run ELSE Stop

Enables == {First(t) : t \in Targets}
Remotes == Enables \cup {<<Release>>}
Runs    == {Second(t) : t \in Targets}
Speeds  == {Third(t) : t \in Rpms \ {0}}
Drives  == Enables \cup Runs \cup Speeds

\* The jobs there really are.
Works ==
    [chain: Drives, to: {"schedule", "manual"}, age: Nat]
      \cup [chain: {<<Release>>}, to: {"released"}, age: Nat]
      \cup [chain: {<<StatusRequest>>}, to: {"poll"}, age: Nat]

-----------------------------------------------------------------------------
(* What is still to come.                                                  *)

\* The last element of f that is in S is e; and: f has no element in S.
Ends(f, S, e) ==
    \E i \in DOMAIN f : f[i] = e /\ \A k \in DOMAIN f : k > i => f[k] \notin S
None(f, S)    == \A i \in DOMAIN f : f[i] \notin S

\* The chains in the order they are written; <<>> if nothing is in flight.
PipeOf(job, q) == [i \in 0..Len(q) |-> IF i = 0 THEN job.chain ELSE q[i].chain]
Pipe == PipeOf(inflight, queue)

Same(f) == {g \in Frames : g.cmd = f.cmd}

\* Of the frames with f's command, f is the last the far end hears.
Told(f) ==
    \/ Ends(wire, Same(f), f)
    \/ None(wire, Same(f)) /\ Hear(heard, f) = heard

\* With the chains of p still to be written the far end comes to be driven at t.
SpeedComing(p, t) ==
    \/ Ends(p, Speeds, Third(t))
    \/ None(p, Speeds) /\ Told(SetRpm(t))

RunComing(p, t) ==
    \/ Ends(p, Runs, Second(t))
    \/ /\ None(p, Runs)
       /\ Told(StartStop(t))
       /\ t > 0 => SpeedComing(p, t)

Coming(p, t) ==
    \/ Ends(p, Remotes, First(t))
    \/ /\ None(p, Remotes)
       /\ Told(Enable)
       /\ RunComing(p, t)

Driving(s) == s.busConnected /\ ~ReleaseToOnboard(s)

QueueOK ==
    /\ queue \in Seq(Works) /\ inflight \in Works \cup {NoJob}
    /\ Len(queue) <= MAX_QUEUE_DEPTH
    /\ Idle => queue = <<>>
    /\ ~(inflight # NoJob /\ gap)
    /\ ~cs.busConnected => wire = <<>> /\ inflight = NoJob

AgesFall(q)      == \A i, j \in DOMAIN q : i <= j => q[j].age <= q[i].age
AgesWithin(q, a) == \A i \in DOMAIN q : q[i].age <= a

AgesOK ==
    /\ AgesFall(queue)
    /\ AgesWithin(queue, MAX_JOB_AGE + WRITE_TIMEOUT)
    /\ inflight # NoJob => AgesWithin(queue, MAX_JOB_AGE)

StateOK ==
    /\ cs \in ControlStates
    /\ lastAppliedMode \in {"null", "released", "schedule", "manual"}
    /\ gap \in BOOLEAN
    /\ wire \in Seq(Frames)
    /\ heard \in [remote: BOOLEAN, running: BOOLEAN, rpm: Rpms \cup {0}]
    /\ lost \in BOOLEAN
    /\ requests \in 0..MAX_REQUESTS /\ faults \in 0..MAX_FAULTS

InflightTold == inflight # NoJob => Told(Head(inflight.chain))

IntentComing == Driving(cs) /\ ~lost => Coming(Pipe, TargetRpm(cs))

ReleaseComing ==
    ~lost /\ lastAppliedMode = "released" => ~None(Pipe, Drives) \/ Told(Release)

IInv == StateOK /\ QueueOK /\ AgesOK /\ InflightTold /\ IntentComing /\ ReleaseComing

-----------------------------------------------------------------------------
(* The invariant of the chain of fallbacks.                                *)

\* A chain that enables remote control is on its way.
EnableComing ==
    \/ \E i \in DOMAIN wire : wire[i] = Enable
    \/ \E i \in DOMAIN queue : queue[i].chain \in Enables

DriveComing == AppDrives /\ ~lost => missed = 0 \/ EnableComing

\* What the pump counts, the app has been cut off for.
MissedCutOff == Listens => missed <= cutOff

FInv ==
   /\ client \in BOOLEAN /\ hold \in {"idle", "relaying", "holding"}
   /\ pump \in {"driven", "onboard"} /\ missed \in 0..PUMP_TIMEOUT
   /\ cutOff \in 0..PUMP_TIMEOUT
   /\ hold = "holding" => ~cs.busConnected /\ Holdable /\ missed = 0
   /\ DriveComing
   /\ MissedCutOff

-----------------------------------------------------------------------------
(* Lemmas about Ends and None.                                             *)

\* Something is added at the end.
LEMMA EndsPush ==
    ASSUME NEW m \in Nat, NEW f, NEW g, NEW S,
           DOMAIN f = 0..m, DOMAIN g = 0..m + 1,
           \A i \in 0..m : g[i] = f[i]
    PROVE  /\ g[m + 1] \in S => Ends(g, S, g[m + 1]) /\ ~None(g, S)
           /\ g[m + 1] \notin S =>
                /\ None(f, S) => None(g, S)
                /\ \A e : Ends(f, S, e) => Ends(g, S, e)
           /\ None(g, S) => None(f, S)
<1>1. ASSUME g[m + 1] \in S PROVE Ends(g, S, g[m + 1]) /\ ~None(g, S)
  <2>1. m + 1 \in DOMAIN g /\ \A k \in DOMAIN g : ~(k > m + 1)
    OBVIOUS
  <2> QED BY <1>1, <2>1 DEF Ends, None
<1>2. ASSUME g[m + 1] \notin S, None(f, S) PROVE None(g, S)
  BY <1>2 DEF None
<1>3. ASSUME g[m + 1] \notin S, NEW e, Ends(f, S, e) PROVE Ends(g, S, e)
  <2>1. PICK i \in 0..m : f[i] = e /\ \A k \in 0..m : k > i => f[k] \notin S
    BY <1>3 DEF Ends
  <2>2. g[i] = e /\ \A k \in 0..m + 1 : k > i => g[k] \notin S
    BY <1>3, <2>1
  <2> QED BY <2>2, i \in 0..m + 1 DEF Ends
<1>4. ASSUME None(g, S) PROVE None(f, S)
  BY <1>4 DEF None
<1> QED BY <1>1, <1>2, <1>3, <1>4

\* Elements that are not in S go from the head: all up to slot 0, or those
\* after slot 0, or those with slot 0, which is then vacant.
LEMMA EndsThin ==
    ASSUME NEW n \in Nat, NEW d \in Nat, NEW f, NEW g, NEW S,
           DOMAIN f = 0..n + d, DOMAIN g = 0..n,
           \A i \in 1..n : g[i] = f[i + d],
           \/ g[0] = f[d] /\ \A i \in 0..d - 1 : f[i] \notin S
           \/ g[0] = f[0] /\ \A i \in 1..d : f[i] \notin S
           \/ g[0] \notin S /\ \A i \in 0..d : f[i] \notin S
    PROVE  /\ None(f, S) <=> None(g, S)
           /\ \A e \in S : Ends(f, S, e) => Ends(g, S, e)
<1>1. ASSUME None(f, S) PROVE None(g, S)
  <2> SUFFICES ASSUME NEW i \in 0..n PROVE g[i] \notin S
    BY DEF None
  <2>1. CASE i = 0
    BY <1>1, <2>1, 0 \in 0..n + d, d \in 0..n + d DEF None
  <2>2. CASE i \in 1..n
    BY <1>1, <2>2, i + d \in 0..n + d DEF None
  <2> QED BY <2>1, <2>2
<1>2. ASSUME None(g, S) PROVE None(f, S)
  <2>1. \A i \in 1..n : f[i + d] \notin S
    BY <1>2, \A i \in 1..n : i \in 0..n DEF None
  <2>2. g[0] \notin S
    BY <1>2, 0 \in 0..n DEF None
  <2> SUFFICES ASSUME NEW i \in 0..n + d PROVE f[i] \notin S
    BY DEF None
  <2>3. CASE i > d
    BY <2>1, <2>3, i - d \in 1..n, (i - d) + d = i
  <2>4. CASE i <= d
    BY <2>2, <2>4
  <2> QED BY <2>3, <2>4
<1>3. ASSUME NEW e \in S, Ends(f, S, e) PROVE Ends(g, S, e)
  <2>1. PICK i \in 0..n + d :
              f[i] = e /\ \A k \in 0..n + d : k > i => f[k] \notin S
    BY <1>3 DEF Ends
  <2>2. CASE i > d
    <3>1. i - d \in 1..n /\ (i - d) + d = i
      BY <2>2
    <3>2. g[i - d] = e
      BY <2>1, <3>1
    <3>3. \A k \in 1..n : k > i - d => k + d \in 0..n + d /\ k + d > i
      OBVIOUS
    <3>4. \A k \in 0..n : k > i - d => g[k] \notin S
      BY <2>1, <2>2, <3>3
    <3> QED BY <3>1, <3>2, <3>4, i - d \in 0..n DEF Ends
  <2>3. CASE i <= d
    <3>1. g[0] = e
      BY <2>1, <2>3, <1>3
    <3>2. \A k \in 1..n : k + d \in 0..n + d /\ k + d > i
      BY <2>3
    <3>3. \A k \in 0..n : k > 0 => g[k] \notin S
      BY <2>1, <3>2
    <3> QED BY <3>1, <3>3, 0 \in 0..n DEF Ends
  <2> QED BY <2>2, <2>3
<1> QED BY <1>1, <1>2, <1>3

\* Slot 0 becomes vacant.
LEMMA EndsFinish ==
    ASSUME NEW n \in Nat, NEW f, NEW g, NEW S,
           DOMAIN f = 0..n, DOMAIN g = 0..n,
           \A i \in 1..n : g[i] = f[i], g[0] \notin S
    PROVE  /\ None(f, S) => None(g, S)
           /\ \A e \in S : Ends(f, S, e) =>
                Ends(g, S, e) \/ (f[0] = e /\ None(g, S))
<1>1. None(f, S) => None(g, S)
  BY DEF None
<1>2. ASSUME NEW e \in S, Ends(f, S, e)
      PROVE  Ends(g, S, e) \/ (f[0] = e /\ None(g, S))
  <2>1. PICK i \in 0..n : f[i] = e /\ \A k \in 0..n : k > i => f[k] \notin S
    BY <1>2 DEF Ends
  <2>2. CASE i = 0
    BY <2>1, <2>2 DEF None
  <2>3. CASE i > 0
    BY <2>1, <2>3 DEF Ends
  <2> QED BY <2>2, <2>3
<1> QED BY <1>1, <1>2

-----------------------------------------------------------------------------
(* Lemmas about the chains and their frames.                               *)

\* The frames of a chain that drives at t, one after the other.
LEMMA ChainSteps ==
    ASSUME NEW t \in Targets
    PROVE  /\ First(t) \in Enables /\ Tail(First(t)) = Second(t)
           /\ Second(t) \in Runs /\ Head(Second(t)) = StartStop(t)
           /\ t > 0 => /\ Tail(Second(t)) = Third(t)
                       /\ Third(t) \in Speeds /\ Head(Third(t)) = SetRpm(t)
           /\ ~(t > 0) => Tail(Second(t)) = <<>>
<1>1. First(t) \in Enables /\ Second(t) \in Runs
  BY DEF Enables, Runs
<1>2. Tail(First(t)) = Second(t)
  BY DEF First, Second
<1>3. Head(Second(t)) = StartStop(t)
  BY DEF Second, StartStop
<1>4. ASSUME t > 0
      PROVE  Tail(Second(t)) = Third(t) /\ Third(t) \in Speeds
               /\ Head(Third(t)) = SetRpm(t)
  <2>1. Tail(Second(t)) = Third(t) /\ Head(Third(t)) = SetRpm(t)
    BY <1>4 DEF Second, Third
  <2>2. t \in Rpms \ {0}
    BY <1>4 DEF Targets
  <2> QED BY <2>1, <2>2 DEF Speeds
<1>5. ASSUME ~(t > 0) PROVE Tail(Second(t)) = <<>>
  BY <1>5 DEF Second
<1> QED BY <1>1, <1>2, <1>3, <1>4, <1>5

\* A chain is at the stage its first frame says, and its rest at the next.
LEMMA ChainFrames ==
    /\ \A c \in Enables : c # <<>> /\ Head(c) = Enable /\ Tail(c) \in Runs
    /\ \A c \in Runs : /\ c # <<>> /\ Head(c) \in {Run, Stop}
                       /\ Tail(c) \in Speeds \cup {<<>>}
    /\ \A c \in Speeds : /\ c # <<>> /\ Head(c) \in {SetRpm(r) : r \in Rpms}
                         /\ Tail(c) = <<>>
    /\ <<Release>> # <<>> /\ Head(<<Release>>) = Release
    /\ Tail(<<Release>>) = <<>>
    /\ <<StatusRequest>> # <<>> /\ Head(<<StatusRequest>>) = StatusRequest
    /\ Tail(<<StatusRequest>>) = <<>>
<1>1. ASSUME NEW c \in Enables
      PROVE  c # <<>> /\ Head(c) = Enable /\ Tail(c) \in Runs
  <2>1. PICK t \in Targets : c = First(t)
    BY DEF Enables
  <2>2. First(t) # <<>> /\ Head(First(t)) = Enable
    BY DEF First
  <2> QED BY <2>1, <2>2, ChainSteps
<1>2. ASSUME NEW c \in Runs
      PROVE  c # <<>> /\ Head(c) \in {Run, Stop} /\ Tail(c) \in Speeds \cup {<<>>}
  <2>1. PICK t \in Targets : c = Second(t)
    BY DEF Runs
  <2>2. Second(t) # <<>> /\ Head(Second(t)) \in {Run, Stop}
    BY DEF Second
  <2> QED BY <2>1, <2>2, ChainSteps
<1>3. ASSUME NEW c \in Speeds
      PROVE  /\ c # <<>> /\ Head(c) \in {SetRpm(r) : r \in Rpms}
             /\ Tail(c) = <<>>
  <2>1. PICK t \in Rpms : c = Third(t)
    BY DEF Speeds
  <2> QED BY <2>1 DEF Third
<1>4. /\ <<Release>> # <<>> /\ Head(<<Release>>) = Release
      /\ Tail(<<Release>>) = <<>>
      /\ <<StatusRequest>> # <<>> /\ Head(<<StatusRequest>>) = StatusRequest
      /\ Tail(<<StatusRequest>>) = <<>>
  OBVIOUS
<1> QED BY <1>1, <1>2, <1>3, <1>4

\* The commands of the frames.
LEMMA FrameCommands ==
    /\ Frames \subseteq [cmd: {"remote", "run", "rpm", "status"}, val: Nat]
    /\ Enable \in Frames /\ Enable.cmd = "remote" /\ Enable.val = 1
    /\ Release \in Frames /\ Release.cmd = "remote" /\ Release.val = 0
    /\ Run \in Frames /\ Run.cmd = "run" /\ Run.val = 1
    /\ Stop \in Frames /\ Stop.cmd = "run" /\ Stop.val = 0
    /\ StatusRequest \in Frames /\ StatusRequest.cmd = "status"
    /\ \A r \in Rpms : SetRpm(r) \in Frames
    /\ \A r : SetRpm(r).cmd = "rpm" /\ SetRpm(r).val = r
<1> USE DEF Enable, Release, Run, Stop, StatusRequest, SetRpm
<1>1. Frames \subseteq [cmd: {"remote", "run", "rpm", "status"}, val: Nat]
  BY ControlLoopAssumption DEF Frames
<1>2. /\ Enable \in Frames /\ Enable.cmd = "remote" /\ Enable.val = 1
      /\ Release \in Frames /\ Release.cmd = "remote" /\ Release.val = 0
      /\ Run \in Frames /\ Run.cmd = "run" /\ Run.val = 1
      /\ Stop \in Frames /\ Stop.cmd = "run" /\ Stop.val = 0
      /\ StatusRequest \in Frames /\ StatusRequest.cmd = "status"
  BY DEF Frames
<1>3. \A r \in Rpms : SetRpm(r) \in Frames
  BY DEF Frames
<1>4. \A r : SetRpm(r).cmd = "rpm" /\ SetRpm(r).val = r
  OBVIOUS
<1> QED BY <1>1, <1>2, <1>3, <1>4

\* No chain is at two stages, nor is the rest of a finished one at any.
LEMMA Stages ==
    /\ \A c \in Enables \cup Runs \cup Speeds \cup {<<Release>>, <<StatusRequest>>} :
         c # <<>> /\ Head(c) \in Frames
    /\ \A c \in Remotes : Head(c).cmd = "remote"
    /\ \A c \in Runs : Head(c).cmd = "run"
    /\ \A c \in Speeds : Head(c).cmd = "rpm"
    /\ Remotes \cap Runs = {} /\ Remotes \cap Speeds = {} /\ Runs \cap Speeds = {}
    /\ \A S \in {Enables, Remotes, Runs, Speeds, Drives} :
         <<>> \notin S /\ <<StatusRequest>> \notin S
    /\ <<Release>> \notin Drives
<1> HIDE DEF Enables, Runs, Speeds
<1> USE ChainFrames, FrameCommands DEF Remotes, Drives
<1>1. \A c \in Enables \cup Runs \cup Speeds \cup {<<Release>>, <<StatusRequest>>} :
         c # <<>> /\ Head(c) \in Frames
  BY DEF Frames
<1>2. \A c \in Remotes : Head(c).cmd = "remote"
  OBVIOUS
<1>3. \A c \in Runs : Head(c).cmd = "run"
  OBVIOUS
<1>4. \A c \in Speeds : Head(c).cmd = "rpm"
  OBVIOUS
<1>5. Remotes \cap Runs = {} /\ Remotes \cap Speeds = {} /\ Runs \cap Speeds = {}
  BY <1>2, <1>3, <1>4
<1>6. \A S \in {Enables, Remotes, Runs, Speeds, Drives} :
         <<>> \notin S /\ <<StatusRequest>> \notin S
  BY <1>2, <1>3, <1>4
<1>7. <<Release>> \notin Drives
  <2>1. Head(<<Release>>) # Enable
    BY DEF Enable, Release
  <2> QED BY <1>3, <1>4, <2>1
<1> QED BY <1>1, <1>2, <1>3, <1>4, <1>5, <1>6, <1>7

-----------------------------------------------------------------------------
(* Lemmas about what the far end is told.                                  *)

\* A frame is written.
LEMMA ToldWritten ==
    ASSUME wire \in Seq(Frames), NEW g \in Frames,
           wire' = Append(wire, g), heard' = heard
    PROVE  /\ Told(g)'
           /\ \A f \in Frames : f.cmd # g.cmd /\ Told(f) => Told(f)'
<1> DEFINE n == Len(wire)
<1>1. /\ n \in Nat /\ DOMAIN wire = 1..n /\ DOMAIN wire' = 1..n + 1
      /\ wire'[n + 1] = g /\ \A i \in 1..n : wire'[i] = wire[i]
  OBVIOUS
<1> HIDE DEF n
<1>2. Told(g)'
  <2>1. n + 1 \in DOMAIN wire' /\ \A k \in DOMAIN wire' : ~(k > n + 1)
    BY <1>1
  <2>2. Ends(wire', Same(g), g)
    BY <1>1, <2>1 DEF Ends
  <2> QED BY <2>2 DEF Told
<1>3. ASSUME NEW f \in Frames, f.cmd # g.cmd, Told(f) PROVE Told(f)'
  <2>1. g \notin Same(f)
    BY <1>3 DEF Same
  <2>2. CASE None(wire, Same(f)) /\ Hear(heard, f) = heard
    <3>1. None(wire', Same(f))
      BY <1>1, <2>1, <2>2 DEF None
    <3> QED BY <2>2, <3>1 DEF Told
  <2>3. CASE Ends(wire, Same(f), f)
    <3>1. PICK i \in 1..n :
            wire[i] = f /\ \A k \in 1..n : k > i => wire[k] \notin Same(f)
      BY <1>1, <2>3 DEF Ends
    <3>2. /\ wire'[i] = f
          /\ \A k \in 1..n + 1 : k > i => wire'[k] \notin Same(f)
      BY <1>1, <2>1, <3>1
    <3>3. Ends(wire', Same(f), f)
      BY <1>1, <3>2 DEF Ends
    <3> QED BY <3>3 DEF Told
  <2> QED BY <1>3, <2>2, <2>3 DEF Told
<1> QED BY <1>2, <1>3

\* A frame arrives.
LEMMA ToldDelivered ==
    ASSUME wire \in Seq(Frames), wire # <<>>,
           heard \in [remote: BOOLEAN, running: BOOLEAN, rpm: Rpms \cup {0}],
           heard' = Hear(heard, Head(wire)), wire' = Tail(wire)
    PROVE  \A f \in Frames : Told(f) => Told(f)'
<1> SUFFICES ASSUME NEW f \in Frames, Told(f) PROVE Told(f)'
  OBVIOUS
<1> DEFINE n == Len(wire)
           g == Head(wire)
<1>1. /\ n \in Nat \ {0} /\ DOMAIN wire = 1..n /\ DOMAIN wire' = 1..n - 1
      /\ \A i \in 1..n - 1 : wire'[i] = wire[i + 1]
      /\ g = wire[1] /\ g \in Frames
  OBVIOUS
<1> HIDE DEF n
<1>2. \A h \in [remote: BOOLEAN, running: BOOLEAN, rpm: Rpms \cup {0}] :
        Hear(Hear(h, f), f) = Hear(h, f)
  BY FrameCommands DEF Hear
<1>3. ASSUME g.cmd # f.cmd, Hear(heard, f) = heard
      PROVE  Hear(heard', f) = heard'
  <2>1. f \in [cmd: {"remote", "run", "rpm", "status"}, val: Nat]
           /\ g \in [cmd: {"remote", "run", "rpm", "status"}, val: Nat]
    BY <1>1, FrameCommands
  <2>2. CASE f.cmd = "remote"
    BY <1>3, <2>1, <2>2 DEF Hear
  <2>3. CASE f.cmd = "run"
    BY <1>3, <2>1, <2>3 DEF Hear
  <2>4. CASE f.cmd = "rpm"
    BY <1>3, <2>1, <2>4 DEF Hear
  <2>5. CASE f.cmd = "status"
    BY <2>5 DEF Hear
  <2> QED BY <2>1, <2>2, <2>3, <2>4, <2>5
<1>4. CASE None(wire, Same(f)) /\ Hear(heard, f) = heard
  <2>1. g \notin Same(f) /\ None(wire', Same(f))
    BY <1>1, <1>4 DEF None
  <2>2. g.cmd # f.cmd
    BY <1>1, <2>1 DEF Same
  <2> QED BY <1>3, <1>4, <2>1, <2>2 DEF Told
<1>5. CASE Ends(wire, Same(f), f)
  <2>1. PICK i \in 1..n :
          wire[i] = f /\ \A k \in 1..n : k > i => wire[k] \notin Same(f)
    BY <1>1, <1>5 DEF Ends
  <2>2. CASE i = 1
    <3>1. None(wire', Same(f))
      BY <1>1, <2>1, <2>2 DEF None
    <3>2. Hear(heard', f) = heard'
      BY <1>1, <1>2, <2>1, <2>2
    <3> QED BY <3>1, <3>2 DEF Told
  <2>3. CASE i > 1
    <3>1. /\ i - 1 \in 1..n - 1 /\ wire'[i - 1] = f
          /\ \A k \in 1..n - 1 : k > i - 1 => wire'[k] \notin Same(f)
      BY <1>1, <2>1, <2>3
    <3>2. Ends(wire', Same(f), f)
      BY <1>1, <3>1 DEF Ends
    <3> QED BY <3>2 DEF Told
  <2> QED BY <2>2, <2>3
<1> QED BY <1>4, <1>5 DEF Told

-----------------------------------------------------------------------------
(* Lemmas about the pipe.                                                  *)

\* q has the chains of p at each stage, and the last one is the same.
Keeps(p, q) ==
    \A S \in {Remotes, Runs, Speeds, Drives} :
        /\ None(p, S) <=> None(q, S)
        /\ \A e \in S : Ends(p, S, e) => Ends(q, S, e)

\* Two such steps are one.
LEMMA KeepsTwice ==
    ASSUME NEW p, NEW q, NEW r, Keeps(p, q), Keeps(q, r)
    PROVE  Keeps(p, r)
BY DEF Keeps

\* A chain that is not at a stage of driving or releasing is <<>> or a poll.
LEMMA Unstaged ==
    /\ \A j \in Works \cup {NoJob} : ~Controls(j) =>
         \A S \in {Enables, Remotes, Runs, Speeds, Drives} : j.chain \notin S
    /\ \A j \in Works : j # NoJob /\ j.chain # <<>> /\ Head(j.chain) \in Frames
<1>1. \A j \in Works : j.chain # <<>> /\ Head(j.chain) \in Frames
  BY Stages DEF Works, Drives
<1>2. \A j \in Works : j # NoJob
  BY <1>1 DEF NoJob
<1>3. ASSUME NEW j \in Works, ~Controls(j) PROVE j.chain = <<StatusRequest>>
  BY <1>2, <1>3 DEF Controls, Works
<1>4. NoJob.chain = <<>>
  BY DEF NoJob
<1> QED BY <1>1, <1>2, <1>3, <1>4, Stages

\* What is to come does not change if the pipe keeps its chains, and the far
\* end is told nothing new at the stages it has none of.
LEMMA ComingKept ==
    ASSUME NEW p, NEW t \in Targets, Keeps(p, Pipe'), Coming(p, t),
           None(p, Remotes) /\ Told(Enable) => Told(Enable)',
           None(p, Runs) /\ Told(StartStop(t)) => Told(StartStop(t))',
           t > 0 /\ None(p, Speeds) /\ Told(SetRpm(t)) => Told(SetRpm(t))'
    PROVE  Coming(Pipe, t)'
<1>1. First(t) \in Remotes /\ Second(t) \in Runs /\ (t > 0 => Third(t) \in Speeds)
  BY ChainSteps DEF Remotes
<1>2. ASSUME SpeedComing(p, t), t > 0 PROVE SpeedComing(Pipe, t)'
  BY <1>1, <1>2 DEF Keeps, SpeedComing
<1>3. ASSUME RunComing(p, t) PROVE RunComing(Pipe, t)'
  BY <1>1, <1>2, <1>3 DEF Keeps, RunComing
<1> QED BY <1>1, <1>3 DEF Keeps, Coming

\* Slot 0 of the pipe is the job in flight, slot i the i-th of the queue.
LEMMA PipeIs ==
    ASSUME NEW job, NEW q, Len(q) \in Nat
    PROVE  /\ DOMAIN PipeOf(job, q) = 0..Len(q)
           /\ PipeOf(job, q)[0] = job.chain
           /\ \A i \in 1..Len(q) : PipeOf(job, q)[i] = q[i].chain
BY DEF PipeOf

\* The first d jobs of the queue go and the rest moves up: the job in flight
\* stays, or the last of the d takes its place, or its place is vacant; no
\* chain of S is lost.
Shortens(job, job2, q, d, S) ==
    \/ job2 = job /\ \A i \in 1..d : q[i].chain \notin S
    \/ /\ d > 0 /\ job2 = q[d] /\ job.chain \notin S
       /\ \A i \in 1..d - 1 : q[i].chain \notin S
    \/ /\ job2 = NoJob /\ job.chain \notin S
       /\ \A i \in 1..d : q[i].chain \notin S

\* drain() takes jobs off the head of the queue: a stage none of whose chains
\* went keeps its last chain.
LEMMA PipeShortened ==
    ASSUME NEW job, NEW job2, NEW q \in Seq(Works), NEW d \in 0..Len(q),
           NEW S, <<>> \notin S, Shortens(job, job2, q, d, S)
    PROVE  LET p == PipeOf(job, q)
               r == PipeOf(job2, SubSeq(q, d + 1, Len(q)))
           IN  /\ None(p, S) <=> None(r, S)
               /\ \A e \in S : Ends(p, S, e) => Ends(r, S, e)
<1> DEFINE n == Len(q) - d
           f == PipeOf(job, q)
           g == PipeOf(job2, SubSeq(q, d + 1, Len(q)))
<1>1. /\ n \in Nat /\ d \in Nat /\ n + d = Len(q)
      /\ Len(SubSeq(q, d + 1, Len(q))) = n
      /\ \A i \in 1..n : SubSeq(q, d + 1, Len(q))[i] = q[i + d]
  OBVIOUS
<1>2. /\ DOMAIN f = 0..n + d /\ DOMAIN g = 0..n
      /\ f[0] = job.chain /\ g[0] = job2.chain
      /\ \A i \in 1..n + d : f[i] = q[i].chain
      /\ \A i \in 1..n : g[i] = q[i + d].chain
  <2>1. /\ DOMAIN f = 0..Len(q) /\ f[0] = job.chain
        /\ \A i \in 1..Len(q) : f[i] = q[i].chain
    BY PipeIs
  <2> DEFINE r == SubSeq(q, d + 1, Len(q))
  <2>3. n \in Nat /\ Len(r) = n /\ \A i \in 1..n : r[i] = q[i + d]
    BY <1>1
  <2> HIDE DEF n, r
  <2>4. /\ DOMAIN PipeOf(job2, r) = 0..n /\ PipeOf(job2, r)[0] = job2.chain
        /\ \A i \in 1..n : PipeOf(job2, r)[i] = r[i].chain
    <3>1. Len(r) \in Nat
      BY <2>3
    <3>2. /\ DOMAIN PipeOf(job2, r) = 0..Len(r)
          /\ PipeOf(job2, r)[0] = job2.chain
          /\ \A i \in 1..Len(r) : PipeOf(job2, r)[i] = r[i].chain
      BY <3>1, PipeIs
    <3> QED BY <2>3, <3>2
  <2>5. g = PipeOf(job2, r)
    BY DEF r
  <2> HIDE DEF g
  <2> QED BY <1>1, <2>1, <2>3, <2>4, <2>5
<1> HIDE DEF n, f, g
<1>0. n \in Nat /\ d \in Nat
  BY <1>1
<1>3. /\ \A i \in 1..n : i + d \in 1..n + d
      /\ \A i \in 1..d : i \in 1..n + d
  BY <1>0
<1>4. \A i \in 1..n : g[i] = f[i + d]
  BY <1>2, <1>3
<1>5. NoJob.chain \notin S
  BY DEF NoJob
<1>6. \/ g[0] = f[d] /\ \A i \in 0..d - 1 : f[i] \notin S
      \/ g[0] = f[0] /\ \A i \in 1..d : f[i] \notin S
      \/ g[0] \notin S /\ \A i \in 0..d : f[i] \notin S
  <2>1. CASE job2 = job /\ \A i \in 1..d : q[i].chain \notin S
    BY <1>2, <1>3, <2>1
  <2>2. CASE /\ d > 0 /\ job2 = q[d] /\ job.chain \notin S
             /\ \A i \in 1..d - 1 : q[i].chain \notin S
    <3>1. d \in 1..n + d
      BY <1>1, <2>2
    <3> QED BY <1>1, <1>2, <2>2, <3>1
  <2>3. CASE /\ job2 = NoJob /\ job.chain \notin S
             /\ \A i \in 1..d : q[i].chain \notin S
    BY <1>1, <1>2, <1>5, <2>3
  <2> QED BY <2>1, <2>2, <2>3 DEF Shortens
<1>7. (None(f, S) <=> None(g, S)) /\ \A e \in S : Ends(f, S, e) => Ends(g, S, e)
  BY <1>1, <1>2, <1>4, <1>6, EndsThin
<1> QED BY <1>7 DEF f, g

\* A job is pushed.
LEMMA PipePushed ==
    ASSUME NEW job, NEW q \in Seq(Works), NEW j \in Works, NEW S
    PROVE  LET p == PipeOf(job, q)
               r == PipeOf(job, Append(q, j))
           IN  /\ j.chain \in S => Ends(r, S, j.chain) /\ ~None(r, S)
               /\ j.chain \notin S =>
                    /\ None(p, S) => None(r, S)
                    /\ \A e : Ends(p, S, e) => Ends(r, S, e)
               /\ None(r, S) => None(p, S)
<1> DEFINE m == Len(q)
           q2 == Append(q, j)
           f == PipeOf(job, q)
           g == PipeOf(job, q2)
<1>1. /\ m \in Nat /\ Len(q2) = m + 1
      /\ q2[m + 1] = j /\ \A i \in 1..m : q2[i] = q[i]
  OBVIOUS
<1> HIDE DEF m, q2
<1>2. /\ DOMAIN f = 0..m /\ f[0] = job.chain
      /\ \A i \in 1..m : f[i] = q[i].chain
  BY <1>1, PipeIs DEF m
<1>3. /\ DOMAIN g = 0..m + 1 /\ g[0] = job.chain
      /\ \A i \in 1..m + 1 : g[i] = q2[i].chain
  BY <1>1, PipeIs
<1> HIDE DEF f, g
<1>4. g[m + 1] = j.chain /\ \A i \in 0..m : g[i] = f[i]
  BY <1>1, <1>2, <1>3
<1>5. /\ g[m + 1] \in S => Ends(g, S, g[m + 1]) /\ ~None(g, S)
      /\ g[m + 1] \notin S =>
           /\ None(f, S) => None(g, S)
           /\ \A e : Ends(f, S, e) => Ends(g, S, e)
      /\ None(g, S) => None(f, S)
  BY <1>1, <1>2, <1>3, <1>4, EndsPush
<1>6. /\ j.chain \in S => Ends(g, S, j.chain) /\ ~None(g, S)
      /\ j.chain \notin S =>
           /\ None(f, S) => None(g, S)
           /\ \A e : Ends(f, S, e) => Ends(g, S, e)
      /\ None(g, S) => None(f, S)
  BY <1>4, <1>5
<1> QED BY <1>6 DEF f, g, q2

\* The waiting jobs age.
LEMMA PipeAged ==
    ASSUME NEW job, NEW q \in Seq(Works), NEW w \in Nat
    PROVE  LET r == [i \in DOMAIN q |-> [q[i] EXCEPT !.age = @ + w]]
           IN  /\ r \in Seq(Works) /\ Len(r) = Len(q)
               /\ PipeOf(job, r) = PipeOf(job, q)
               /\ AgesFall(q) => AgesFall(r)
               /\ \A a \in Nat : AgesWithin(q, a) => AgesWithin(r, a + w)
<1> DEFINE r == [i \in DOMAIN q |-> [q[i] EXCEPT !.age = @ + w]]
<1>1. ASSUME NEW j \in Works
      PROVE  /\ [j EXCEPT !.age = @ + w] \in Works
             /\ [j EXCEPT !.age = @ + w].chain = j.chain
             /\ [j EXCEPT !.age = @ + w].age = j.age + w
             /\ j.age \in Nat
  BY DEF Works
<1>2. \A i \in 1..Len(q) : q[i] \in Works
  OBVIOUS
<1>3. r \in Seq(Works) /\ Len(r) = Len(q)
  <2>1. r \in [1..Len(q) -> Works]
    BY <1>1, <1>2
  <2> QED BY <2>1
<1>4. /\ DOMAIN r = 1..Len(q) /\ DOMAIN q = 1..Len(q)
      /\ \A i \in 1..Len(q) : r[i].chain = q[i].chain /\ r[i].age = q[i].age + w
      /\ \A i \in 1..Len(q) : q[i].age \in Nat
  <2>1. DOMAIN q = 1..Len(q) /\ DOMAIN r = 1..Len(q)
    OBVIOUS
  <2>2. \A i \in 1..Len(q) : r[i] = [q[i] EXCEPT !.age = @ + w]
    OBVIOUS
  <2> HIDE DEF r
  <2> QED BY <1>1, <1>2, <2>1, <2>2
<1> HIDE DEF r
<1>5. PipeOf(job, r) = PipeOf(job, q)
  BY <1>3, <1>4 DEF PipeOf
<1>6. AgesFall(q) => AgesFall(r)
  BY <1>4 DEF AgesFall
<1>7. \A a \in Nat : AgesWithin(q, a) => AgesWithin(r, a + w)
  BY <1>4 DEF AgesWithin
<1> QED BY <1>3, <1>5, <1>6, <1>7 DEF r

\* The queue after a push, before the eviction.
LEMMA QueuePushed ==
    ASSUME NEW q \in Seq(Works), NEW j \in Works, j.age = 0
    PROVE  /\ Append(q, j) \in Seq(Works)
           /\ AgesFall(q) => AgesFall(Append(q, j))
           /\ \A a \in Nat : AgesWithin(q, a) => AgesWithin(Append(q, j), a)
<1> DEFINE m == Len(q)
           r == Append(q, j)
<1>1. /\ m \in Nat /\ DOMAIN q = 1..m /\ DOMAIN r = 1..m + 1
      /\ r[m + 1] = j /\ \A i \in 1..m : r[i] = q[i] /\ q[i] \in Works
      /\ r \in Seq(Works)
  OBVIOUS
<1>2. \A i \in 1..m : q[i].age \in Nat
  BY <1>1 DEF Works
<1> HIDE DEF m, r
<1>3. ASSUME AgesFall(q) PROVE AgesFall(r)
  <2> SUFFICES ASSUME NEW i \in 1..m + 1, NEW k \in 1..m + 1, i <= k
               PROVE  r[k].age <= r[i].age
    BY <1>1 DEF AgesFall
  <2>1. CASE k = m + 1
    BY <1>1, <1>2, <2>1
  <2>2. CASE k \in 1..m
    <3>1. i \in 1..m
      BY <1>1, <2>2
    <3> QED BY <1>1, <1>3, <2>2, <3>1 DEF AgesFall
  <2> QED BY <1>1, <2>1, <2>2
<1>4. ASSUME NEW a \in Nat, AgesWithin(q, a) PROVE AgesWithin(r, a)
  BY <1>1, <1>4 DEF AgesWithin
<1> QED BY <1>1, <1>3, <1>4 DEF r

\* The first d jobs are gone.
LEMMA QueueShortened ==
    ASSUME NEW q \in Seq(Works), NEW d \in 0..Len(q)
    PROVE  LET r == SubSeq(q, d + 1, Len(q))
           IN  /\ r \in Seq(Works) /\ Len(r) = Len(q) - d
               /\ AgesFall(q) => AgesFall(r)
               /\ \A a \in Nat : AgesWithin(q, a) => AgesWithin(r, a)
               /\ \A i \in 1..Len(r) : r[i] = q[i + d] /\ i + d \in 1..Len(q)
<1> DEFINE r == SubSeq(q, d + 1, Len(q))
           n == Len(q) - d
<1>1. /\ n \in Nat /\ d \in Nat /\ Len(q) = n + d
      /\ DOMAIN q = 1..n + d /\ DOMAIN r = 1..n /\ Len(r) = n
      /\ \A i \in 1..n : r[i] = q[i + d]
      /\ r \in Seq(Works)
  OBVIOUS
<1> HIDE DEF r, n
<1>2. \A i \in 1..n : i + d \in 1..n + d
  BY <1>1
<1>3. ASSUME AgesFall(q) PROVE AgesFall(r)
  <2> SUFFICES ASSUME NEW i \in 1..n, NEW k \in 1..n, i <= k
               PROVE  r[k].age <= r[i].age
    BY <1>1 DEF AgesFall
  <2>1. i + d \in 1..n + d /\ k + d \in 1..n + d /\ i + d <= k + d
    BY <1>1
  <2> QED BY <1>1, <1>3, <2>1 DEF AgesFall
<1>4. ASSUME NEW a \in Nat, AgesWithin(q, a) PROVE AgesWithin(r, a)
  BY <1>1, <1>2, <1>4 DEF AgesWithin
<1>5. Len(r) = Len(q) - d
  BY <1>1 DEF n
<1> QED BY <1>1, <1>2, <1>3, <1>4, <1>5 DEF r

\* A full queue makes room.
LEMMA QueueKept ==
    ASSUME NEW q \in Seq(Works)
    PROVE  /\ Kept(q) \in Seq(Works) /\ Len(Kept(q)) <= MAX_QUEUE_DEPTH
           /\ AgesFall(q) => AgesFall(Kept(q))
           /\ \A a \in Nat : AgesWithin(q, a) => AgesWithin(Kept(q), a)
           /\ Len(q) <= MAX_QUEUE_DEPTH + 1 =>
                \A j \in Evicted(q) : j = q[1]
<1>1. CASE Len(q) <= MAX_QUEUE_DEPTH
  BY <1>1, ControlLoopAssumption DEF Kept, Evicted
<1>2. CASE Len(q) > MAX_QUEUE_DEPTH
  <2> DEFINE d == Len(q) - MAX_QUEUE_DEPTH
  <2>1. d \in 0..Len(q) /\ Kept(q) = SubSeq(q, d + 1, Len(q))
          /\ Len(q) - d = MAX_QUEUE_DEPTH
    BY <1>2, ControlLoopAssumption DEF Kept
  <2>2. Evicted(q) = {q[i] : i \in 1..d}
    BY DEF Evicted
  <2>3. Len(q) <= MAX_QUEUE_DEPTH + 1 => \A i \in 1..d : i = 1
    BY <1>2, ControlLoopAssumption
  <2> HIDE DEF d
  <2> QED BY <2>1, <2>2, <2>3, QueueShortened, ControlLoopAssumption
<1> QED BY <1>1, <1>2, ControlLoopAssumption

\* A push onto a full queue evicts no chain of apply(): every stage keeps its
\* last chain.
LEMMA PipeEvicted ==
    ASSUME NEW job, NEW q \in Seq(Works), \A j \in Evicted(q) : ~Controls(j)
    PROVE  Keeps(PipeOf(job, q), PipeOf(job, Kept(q)))
<1>1. CASE Len(q) <= MAX_QUEUE_DEPTH
  BY <1>1 DEF Kept, Keeps
<1>2. CASE Len(q) > MAX_QUEUE_DEPTH
  <2> DEFINE d == Len(q) - MAX_QUEUE_DEPTH
  <2>1. d \in 0..Len(q) /\ Kept(q) = SubSeq(q, d + 1, Len(q))
    BY <1>2, ControlLoopAssumption DEF Kept
  <2>2. \A i \in 1..d : ~Controls(q[i]) /\ q[i] \in Works
    BY <2>1 DEF Evicted
  <2> HIDE DEF d
  <2>3. \A S \in {Remotes, Runs, Speeds, Drives} :
           \A i \in 1..d : q[i].chain \notin S
    BY <2>2, Unstaged
  <2>4. ASSUME NEW S \in {Remotes, Runs, Speeds, Drives}
        PROVE  /\ None(PipeOf(job, q), S) <=> None(PipeOf(job, Kept(q)), S)
               /\ \A e \in S : Ends(PipeOf(job, q), S, e)
                                 => Ends(PipeOf(job, Kept(q)), S, e)
    <3>1. \A i \in 1..d : q[i].chain \notin S
      BY <2>3
    <3>3. Shortens(job, job, q, d, S) /\ <<>> \notin S
      BY <3>1, Stages DEF Shortens
    <3>2. /\ None(PipeOf(job, q), S)
                <=> None(PipeOf(job, SubSeq(q, d + 1, Len(q))), S)
          /\ \A e \in S : Ends(PipeOf(job, q), S, e)
                => Ends(PipeOf(job, SubSeq(q, d + 1, Len(q))), S, e)
      BY <2>1, <3>3, PipeShortened
    <3> QED BY <2>1, <3>2
  <2> QED BY <2>4 DEF Keeps
<1> QED BY <1>1, <1>2, ControlLoopAssumption

-----------------------------------------------------------------------------
(* Lemmas about send().                                                    *)

\* A batch that is not empty has one job or two.
LEMMA NonEmpty ==
    ASSUME NEW S, NEW q \in Seq(S), q # <<>>
    PROVE  Len(q) \in Nat \ {0} /\ (Len(q) <= 2 => Len(q) \in 1..2)
<1>1. Len(q) \in Nat \ {0}
  OBVIOUS
<1>2. \A n \in Nat \ {0} : n <= 2 => n \in 1..2
  OBVIOUS
<1> QED BY <1>1, <1>2

\* A batch by its length.
LEMMA OneOrTwo ==
    ASSUME NEW S, NEW q \in Seq(S), Len(q) \in 1..2
    PROVE  (\E a \in S : q = <<a>>) \/ (\E a, b \in S : q = <<a, b>>)
<1>1. CASE Len(q) = 1
  BY <1>1, q[1] \in S, SeqEqual, <<q[1]>> \in Seq(S)
<1>2. CASE Len(q) = 2
  <2>1. q[1] \in S /\ q[2] \in S
    BY <1>2, ElementOfSeq
  <2> DEFINE r == <<q[1], q[2]>>
  <2>2. r \in Seq(S) /\ Len(r) = 2 /\ r[1] = q[1] /\ r[2] = q[2]
    BY <2>1
  <2> HIDE DEF r
  <2>3. \A i \in 1..Len(q) : q[i] = r[i]
    BY <1>2, <2>2
  <2>4. q = r
    BY <1>2, <2>2, <2>3, SeqEqual
  <2> QED BY <2>1, <2>4 DEF r
<1> QED BY <1>1, <1>2

\* One or two jobs are pushed.
LEMMA Pushed ==
    ASSUME NEW q \in Seq(Works), NEW jobs \in Seq(Works), Len(jobs) \in 1..2,
           \A i \in DOMAIN jobs : jobs[i].age = 0
    PROVE  /\ q \o jobs \in Seq(Works)
           /\ AgesFall(q) => AgesFall(q \o jobs)
           /\ \A a \in Nat : AgesWithin(q, a) => AgesWithin(q \o jobs, a)
           /\ \A job, S : jobs[Len(jobs)].chain \in S =>
                /\ Ends(PipeOf(job, q \o jobs), S, jobs[Len(jobs)].chain)
                /\ ~None(PipeOf(job, q \o jobs), S)
<1>1. CASE \E a \in Works : jobs = <<a>>
  <2>1. PICK j \in Works : jobs = <<j>> /\ j.age = 0
    BY <1>1
  <2>2. q \o jobs = Append(q, j) /\ jobs[Len(jobs)] = j
    BY <2>1
  <2> QED BY <2>1, <2>2, QueuePushed, PipePushed
<1>2. CASE \E a, b \in Works : jobs = <<a, b>>
  <2>1. PICK i \in Works, j \in Works :
          jobs = <<i, j>> /\ i.age = 0 /\ j.age = 0
    BY <1>2
  <2> DEFINE r == Append(q, i)
  <2>2. q \o jobs = Append(r, j) /\ jobs[Len(jobs)] = j
    BY <2>1
  <2>3. r \in Seq(Works) /\ (AgesFall(q) => AgesFall(r))
          /\ \A a \in Nat : AgesWithin(q, a) => AgesWithin(r, a)
    BY <2>1, QueuePushed
  <2> HIDE DEF r
  <2> QED BY <2>1, <2>2, <2>3, QueuePushed, PipePushed
<1> QED BY <1>1, <1>2, OneOrTwo

\* A poll is pushed: no stage changes.
LEMMA PollPushed ==
    ASSUME NEW job, NEW q \in Seq(Works), NEW j \in Works,
           j.chain = <<StatusRequest>>
    PROVE  Keeps(PipeOf(job, q), PipeOf(job, q \o <<j>>))
<1>1. q \o <<j>> = Append(q, j)
  OBVIOUS
<1>2. \A S \in {Remotes, Runs, Speeds, Drives} : j.chain \notin S
  BY Stages
<1>3. ASSUME NEW S \in {Remotes, Runs, Speeds, Drives}
      PROVE  /\ None(PipeOf(job, q), S) <=> None(PipeOf(job, Append(q, j)), S)
             /\ \A e \in S : Ends(PipeOf(job, q), S, e)
                               => Ends(PipeOf(job, Append(q, j)), S, e)
  BY <1>2, PipePushed
<1> QED BY <1>1, <1>3 DEF Keeps

\* Only one job is under way.
LEMMA PipeSingle ==
    ASSUME NEW job, NEW S
    PROVE  /\ job.chain \in S => /\ Ends(PipeOf(job, <<>>), S, job.chain)
                                 /\ ~None(PipeOf(job, <<>>), S)
           /\ job.chain \notin S => None(PipeOf(job, <<>>), S)
<1>1. /\ DOMAIN PipeOf(job, <<>>) = 0..0
      /\ PipeOf(job, <<>>)[0] = job.chain
  BY PipeIs, Len(<<>>) = 0
<1> QED BY <1>1 DEF Ends, None

\* What send() leaves is well formed, whatever it is given.
LEMMA SendWellFormed ==
    ASSUME StateOK, QueueOK, AgesOK, InflightTold,
           NEW jobs \in Seq(Works), Len(jobs) <= 2,
           \A i \in DOMAIN jobs : jobs[i].age = 0,
           cs.busConnected => cs'.busConnected,
           Send(jobs), heard' = heard
    PROVE  /\ QueueOK' /\ AgesOK' /\ InflightTold'
           /\ wire' \in Seq(Frames) /\ gap' \in BOOLEAN /\ lost' \in BOOLEAN
           /\ lastAppliedMode' \in {"null", "released", "schedule", "manual"}
<1>0. jobs # <<>> => Len(jobs) \in 1..2
  BY NonEmpty
<1> USE DEF StateOK
<1>1. CASE jobs = <<>>
  <2>1. UNCHANGED <<queue, inflight, gap, wire, lastAppliedMode, lost>>
    BY <1>1 DEF Send, frames
  <2>2. QueueOK'
    BY <2>1 DEF QueueOK, Idle
  <2>3. AgesOK' /\ InflightTold'
    BY <2>1 DEF AgesOK, InflightTold, Told
  <2> QED BY <2>1, <2>2, <2>3
<1>2. CASE jobs # <<>> /\ Idle
  <2> DEFINE j == Head(jobs)
             T == Tail(jobs)
  <2>1. /\ Write(j) /\ queue' = T /\ lost' = (lost /\ ~Fresh(jobs))
        /\ lastAppliedMode' = lastAppliedMode
    BY <1>2 DEF Send
  <2>2. /\ j \in Works /\ T \in Seq(Works) /\ Len(T) <= 1
        /\ \A i \in DOMAIN T : T[i].age = 0 /\ i = 1
    BY <1>2
  <2>3. j # NoJob /\ Head(j.chain) \in Frames
    BY <2>2, Unstaged
  <2> HIDE DEF j, T
  <2>7. lost' \in BOOLEAN
    BY <2>1
  <2>4. AgesFall(queue') /\ \A a \in Nat : AgesWithin(queue', a)
    BY <2>1, <2>2 DEF AgesFall, AgesWithin
  <2>5. CASE cs'.busConnected
    <3>1. /\ inflight' = j /\ gap' = FALSE
          /\ wire' = Append(wire, Head(j.chain))
      BY <2>1, <2>5 DEF Write
    <3>2. QueueOK'
      BY <2>1, <2>2, <2>3, <2>5, <3>1, ControlLoopAssumption DEF QueueOK, Idle
    <3>3. AgesOK'
      BY <2>4, ControlLoopAssumption DEF AgesOK
    <3>4. InflightTold'
      BY <2>3, <3>1, ToldWritten DEF InflightTold
    <3>5. gap' \in BOOLEAN /\ lastAppliedMode' = lastAppliedMode
      BY <2>1, <3>1
    <3>6. wire' \in Seq(Frames)
      BY <2>3, <3>1
    <3> QED BY <2>7, <3>2, <3>3, <3>4, <3>5, <3>6
  <2>6. CASE ~cs'.busConnected
    <3>1. inflight' = NoJob /\ gap' = TRUE /\ wire' = wire
      BY <2>1, <2>6 DEF Write
    <3>2. QueueOK'
      BY <2>1, <2>2, <2>6, <3>1, ControlLoopAssumption DEF QueueOK, Idle
    <3>3. AgesOK' /\ InflightTold'
      BY <2>4, <3>1, ControlLoopAssumption DEF AgesOK, InflightTold
    <3> QED BY <2>1, <2>7, <3>1, <3>2, <3>3
  <2> QED BY <2>5, <2>6
<1>3. CASE jobs # <<>> /\ ~Idle
  <2> DEFINE q == queue \o jobs
  <2>1. /\ queue' = Kept(q) /\ Reject(Evicted(q))
        /\ inflight' = inflight /\ gap' = gap /\ wire' = wire
    BY <1>3 DEF Send
  <2>2. Len(jobs) \in 1..2 /\ queue \in Seq(Works)
    BY <1>0, <1>3 DEF QueueOK
  <2>3. /\ q \in Seq(Works)
        /\ AgesFall(queue) => AgesFall(q)
        /\ \A a \in Nat : AgesWithin(queue, a) => AgesWithin(q, a)
    BY <2>2, Pushed
  <2> HIDE DEF q
  <2>4. QueueOK'
    BY <1>3, <2>1, <2>3, QueueKept DEF QueueOK, Idle
  <2>5. AgesOK'
    BY <2>1, <2>3, QueueKept, ControlLoopAssumption DEF AgesOK
  <2>6. InflightTold'
    BY <2>1 DEF InflightTold, Told
  <2>7. /\ lost' \in BOOLEAN
        /\ lastAppliedMode' \in {"null", "released", "schedule", "manual"}
    BY <2>1 DEF Reject
  <2> QED BY <2>1, <2>4, <2>5, <2>6, <2>7
<1> QED BY <1>1, <1>2, <1>3

\* Nothing that matters was evicted: what lastAppliedMode is, no rejection made.
LEMMA NothingRejected ==
    ASSUME NEW jobs, jobs \subseteq Works, Reject(jobs), lost \in BOOLEAN, ~lost'
    PROVE  /\ ~lost /\ lastAppliedMode' = lastAppliedMode
           /\ \A j \in jobs : ~Controls(j)
<1>1. ~lost /\ \A j \in jobs : ~Controls(j)
  BY DEF Reject
<1>2. \A j \in jobs : j # NoJob
  BY Unstaged
<1>3. \A j \in jobs : j.to # "released"
  BY <1>1, <1>2 DEF Controls
<1> QED BY <1>1, <1>3 DEF Reject

\* A batch of chains that drive or release is sent: the last one of them is the
\* last in the pipe.
LEMMA SendAsserts ==
    ASSUME lost \in BOOLEAN, QueueOK,
           NEW jobs \in Seq(Works), Len(jobs) \in 1..2,
           \A i \in DOMAIN jobs : jobs[i].age = 0 /\ Controls(jobs[i]),
           cs'.busConnected, Send(jobs), ~lost'
    PROVE  /\ lastAppliedMode' = lastAppliedMode
           /\ \A S : S \in {Remotes, Drives} /\ jobs[Len(jobs)].chain \in S =>
                /\ Ends(Pipe', S, jobs[Len(jobs)].chain)
                /\ ~None(Pipe', S)
<1> DEFINE c == jobs[Len(jobs)].chain
<1>0. jobs # <<>> /\ Pipe' = PipeOf(inflight', queue')
  BY EmptySeq DEF Pipe
<1>3. \/ \E j \in Works : jobs = <<j>>
      \/ \E i, j \in Works : jobs = <<i, j>>
  BY OneOrTwo
<1>1. CASE Idle
  <2>1. /\ Write(Head(jobs)) /\ queue' = Tail(jobs)
        /\ lastAppliedMode' = lastAppliedMode
    BY <1>0, <1>1 DEF Send
  <2>3. ASSUME NEW j \in Works, jobs = <<j>>
        PROVE  \A S : c \in S => Ends(Pipe', S, c) /\ ~None(Pipe', S)
    <3>1. c = j.chain /\ Head(jobs) = j /\ Tail(jobs) = <<>>
      BY <2>3
    <3>2. Pipe' = PipeOf(j, <<>>)
      BY <1>0, <2>1, <3>1 DEF Write
    <3> QED BY <3>1, <3>2, PipeSingle
  <2>4. ASSUME NEW i \in Works, NEW j \in Works, jobs = <<i, j>>
        PROVE  \A S : c \in S => Ends(Pipe', S, c) /\ ~None(Pipe', S)
    <3>1. /\ c = j.chain /\ Head(jobs) = i /\ Tail(jobs) = <<j>>
          /\ Append(<<>>, j) = <<j>> /\ <<>> \in Seq(Works)
      BY <2>4
    <3>2. Pipe' = PipeOf(i, Append(<<>>, j))
      BY <1>0, <2>1, <3>1 DEF Write
    <3> QED BY <3>1, <3>2, PipePushed
  <2> QED BY <1>3, <2>1, <2>3, <2>4
<1>2. CASE ~Idle
  <2> DEFINE q == queue \o jobs
  <2>1. /\ queue' = Kept(q) /\ Reject(Evicted(q)) /\ inflight' = inflight
    BY <1>0, <1>2 DEF Send
  <2>2. /\ q \in Seq(Works)
        /\ \A S : c \in S => /\ Ends(PipeOf(inflight, q), S, c)
                             /\ ~None(PipeOf(inflight, q), S)
    BY Pushed DEF QueueOK
  <2>3. Evicted(q) \subseteq Works
    <3>1. \A i \in 1 .. Len(q) - MAX_QUEUE_DEPTH : q[i] \in Works
      BY <2>2, ControlLoopAssumption
    <3> QED BY <3>1 DEF Evicted
  <2> HIDE DEF q, c
  <2>4. /\ lastAppliedMode' = lastAppliedMode
        /\ \A j \in Evicted(q) : ~Controls(j)
    BY <2>1, <2>3, NothingRejected
  <2>5. Keeps(PipeOf(inflight, q), Pipe')
    BY <1>0, <2>1, <2>2, <2>4, PipeEvicted
  <2>6. \A S \in {Remotes, Drives} : c \in S =>
           Ends(Pipe', S, c) /\ ~None(Pipe', S)
    BY <2>2, <2>5 DEF Keeps
  <2> QED BY <2>4, <2>6 DEF c
<1> QED BY <1>1, <1>2

\* A poll is sent.
LEMMA SendPolls ==
    ASSUME StateOK, QueueOK,
           NEW j \in Works, j.chain = <<StatusRequest>>, ~Controls(j),
           Send(<<j>>), heard' = heard, ~lost'
    PROVE  /\ ~lost /\ lastAppliedMode' = lastAppliedMode
           /\ Keeps(Pipe, Pipe')
           /\ \A f \in Frames : f.cmd # "status" /\ Told(f) => Told(f)'
<1>0. Pipe' = PipeOf(inflight', queue') /\ Pipe = PipeOf(inflight, queue)
  BY DEF Pipe
<1>1. /\ Head(j.chain) = StatusRequest /\ StatusRequest \in Frames
      /\ StatusRequest.cmd = "status"
  BY FrameCommands
<1>2. CASE Idle
  <2>1. /\ Write(j) /\ queue' = <<>> /\ lost' = (lost /\ ~Fresh(<<j>>))
        /\ lastAppliedMode' = lastAppliedMode
    BY <1>2 DEF Send
  <2>2. ~lost
    <3>1. ~Fresh(<<j>>)
      <4>1. \A i \in DOMAIN <<j>> : <<j>>[i] = j
        OBVIOUS
      <4> QED BY <4>1 DEF Fresh
    <3> QED BY <2>1, <3>1
  <2>3. Pipe = PipeOf(NoJob, <<>>)
    BY <1>0, <1>2 DEF QueueOK, Idle
  <2>4. inflight' = j \/ inflight' = NoJob
    BY <2>1 DEF Write
  <2>5. \A S \in {Remotes, Runs, Speeds, Drives} :
           j.chain \notin S /\ NoJob.chain \notin S
    BY Stages DEF NoJob
  <2>6. \A S \in {Remotes, Runs, Speeds, Drives} : None(Pipe, S) /\ None(Pipe', S)
    BY <1>0, <2>1, <2>3, <2>4, <2>5, PipeSingle
  <2>7. Keeps(Pipe, Pipe')
    BY <2>6 DEF Keeps, None, Ends
  <2>8. \A f \in Frames : f.cmd # "status" /\ Told(f) => Told(f)'
    <3>1. CASE wire' = wire
      BY <3>1 DEF Told
    <3>2. CASE wire' = Append(wire, StatusRequest)
      BY <1>1, <3>2, ToldWritten DEF StateOK
    <3> QED BY <1>1, <2>1, <3>1, <3>2 DEF Write
  <2> QED BY <2>1, <2>2, <2>7, <2>8
<1>3. CASE ~Idle
  <2> DEFINE q == queue \o <<j>>
  <2>1. /\ queue' = Kept(q) /\ Reject(Evicted(q)) /\ inflight' = inflight
        /\ wire' = wire
    BY <1>3 DEF Send
  <2>2. q \in Seq(Works) /\ queue \in Seq(Works)
    BY DEF QueueOK
  <2>3. Keeps(PipeOf(inflight, queue), PipeOf(inflight, q))
    BY <2>2, PollPushed
  <2>4. Evicted(q) \subseteq Works
    <3>1. \A i \in 1 .. Len(q) - MAX_QUEUE_DEPTH : q[i] \in Works
      BY <2>2, ControlLoopAssumption
    <3> QED BY <3>1 DEF Evicted
  <2> HIDE DEF q
  <2>5. /\ ~lost /\ lastAppliedMode' = lastAppliedMode
        /\ \A i \in Evicted(q) : ~Controls(i)
    BY <2>1, <2>4, NothingRejected DEF StateOK
  <2>6. Keeps(PipeOf(inflight, q), Pipe')
    BY <1>0, <2>1, <2>2, <2>5, PipeEvicted
  <2>7. Keeps(Pipe, Pipe')
    BY <1>0, <2>3, <2>6, KeepsTwice
  <2>8. \A f \in Frames : Told(f) => Told(f)'
    BY <2>1 DEF Told
  <2> QED BY <2>5, <2>7, <2>8
<1> QED BY <1>2, <1>3

-----------------------------------------------------------------------------
(* Lemmas about apply().                                                   *)

\* jobs are what apply() sends for the state s: if it sends anything, the last
\* chain drives at the speed s asks for, and after a release it only drives.
Answers(jobs, s) ==
    /\ jobs \in Seq(Works) /\ Len(jobs) <= 2
    /\ \A i \in DOMAIN jobs : jobs[i].age = 0 /\ Controls(jobs[i])
    /\ jobs # <<>> =>
         /\ s.busConnected
         /\ Driving(s) => jobs[Len(jobs)].chain = First(TargetRpm(s))
         /\ lastAppliedMode = "released" => jobs[Len(jobs)].chain \in Enables

\* The speed a state asks for is a setpoint or 0.
LEMMA TargetType ==
    \A s \in ControlStates : TargetRpm(s) \in Targets
BY ControlLoopAssumption DEF ControlStates, TargetRpm, Targets, Modes

\* The chain that drives, and the mode it leaves in lastAppliedMode.
LEMMA DriveIs ==
    ASSUME NEW s \in ControlStates, ~ReleaseToOnboard(s)
    PROVE  /\ Drive(s) \in Works /\ Drive(s).age = 0 /\ Controls(Drive(s))
           /\ Drive(s).chain = First(TargetRpm(s)) /\ Drive(s).chain \in Enables
<1>1. TargetRpm(s) \in Targets
  BY TargetType
<1>2. Drive(s).chain = First(TargetRpm(s))
  BY DEF Drive, Job, First
<1>3. Drive(s).chain \in Enables
  BY <1>1, <1>2, ChainSteps
<1>4. s.controlMode \in {"schedule", "manual"}
  BY DEF ReleaseToOnboard, ControlStates, Modes
<1>5. Drive(s).to = s.controlMode /\ Drive(s).age = 0
        /\ Drive(s) = [chain |-> Drive(s).chain, to |-> Drive(s).to, age |-> 0]
  BY DEF Drive, Job
<1>6. Drive(s) \in Works
  BY <1>3, <1>4, <1>5 DEF Works, Drives
<1>7. Controls(Drive(s))
  BY <1>4, <1>5, <1>6, Unstaged DEF Controls
<1> QED BY <1>2, <1>3, <1>5, <1>6, <1>7

\* The chain that releases.
LEMMA ReleaseIs ==
    LET j == Job(<<Release>>, "released")
    IN  j \in Works /\ j.age = 0 /\ Controls(j) /\ j.chain = <<Release>>
<1> DEFINE j == Job(<<Release>>, "released")
<1>1. j \in Works /\ j.age = 0 /\ j.to = "released" /\ j.chain = <<Release>>
  BY DEF Job, Works
<1> HIDE DEF j
<1>2. Controls(j)
  BY <1>1, Unstaged DEF Controls
<1> QED BY <1>1, <1>2 DEF j

\* realize() starts one chain, or none for a release that is ticked off.
LEMMA RealizeAnswers ==
    ASSUME NEW s \in ControlStates, s.busConnected
    PROVE  \/ /\ Realize(s) = <<>> /\ ~Driving(s)
              /\ ReleaseToOnboard(s) /\ lastAppliedMode = "released"
           \/ \E j \in Works :
                /\ Realize(s) = <<j>> /\ j.age = 0 /\ Controls(j)
                /\ Driving(s) => j.chain = First(TargetRpm(s))
                /\ lastAppliedMode = "released" => j.chain \in Enables
<1>1. CASE ~ReleaseToOnboard(s)
  <2>1. Realize(s) = <<Drive(s)>>
    BY <1>1 DEF Realize
  <2>2. /\ Drive(s) \in Works /\ Drive(s).age = 0 /\ Controls(Drive(s))
        /\ Drive(s).chain = First(TargetRpm(s)) /\ Drive(s).chain \in Enables
    BY <1>1, DriveIs
  <2> QED BY <2>1, <2>2
<1>2. CASE ReleaseToOnboard(s) /\ lastAppliedMode # "released"
  <2>1. Realize(s) = <<Job(<<Release>>, "released")>> /\ ~Driving(s)
    BY <1>2 DEF Realize, Driving
  <2> QED BY <1>2, <2>1, ReleaseIs
<1>3. CASE ReleaseToOnboard(s) /\ lastAppliedMode = "released"
  BY <1>3 DEF Realize, Driving
<1> QED BY <1>1, <1>2, <1>3

\* Two batches of one job.
LEMMA Pair ==
    ASSUME NEW S, NEW a \in S, NEW b \in S
    PROVE  <<a>> \o <<b>> = <<a, b>>
<1> DEFINE s == <<a>>
           t == <<b>>
           r == <<a, b>>
<1>1. /\ s \in Seq(S) /\ t \in Seq(S) /\ r \in Seq(S)
      /\ Len(s) = 1 /\ Len(t) = 1 /\ Len(r) = 2
      /\ s[1] = a /\ t[1] = b /\ r[1] = a /\ r[2] = b
  OBVIOUS
<1> HIDE DEF s, t, r
<1>2. /\ s \o t \in Seq(S) /\ Len(s \o t) = Len(s) + Len(t)
      /\ \A i \in 1 .. Len(s) + Len(t) :
           (s \o t)[i] = IF i <= Len(s) THEN s[i] ELSE t[i - Len(s)]
  BY <1>1, ConcatProperties
<1>3. Len(s \o t) = Len(r) /\ \A i \in 1..Len(s \o t) : (s \o t)[i] = r[i]
  BY <1>1, <1>2
<1>4. s \o t = r
  BY <1>1, <1>2, <1>3, SeqEqual
<1> QED BY <1>4 DEF s, t, r

\* apply() may have nothing to send.
LEMMA AnswersNone == ASSUME NEW s PROVE Answers(<<>>, s)
BY EmptySeq DEF Answers

\* One chain, or two, of which the last is for s.
LEMMA AnswersSome ==
    ASSUME NEW s, s.busConnected,
           NEW j \in Works, j.age = 0, Controls(j),
           Driving(s) => j.chain = First(TargetRpm(s)),
           lastAppliedMode = "released" => j.chain \in Enables
    PROVE  /\ Answers(<<j>>, s)
           /\ \A i \in Works : i.age = 0 /\ Controls(i) => Answers(<<i, j>>, s)
<1>1. Answers(<<j>>, s)
  BY DEF Answers
<1>2. ASSUME NEW i \in Works, i.age = 0, Controls(i) PROVE Answers(<<i, j>>, s)
  <2> DEFINE r == <<i, j>>
  <2>1. /\ r \in Seq(Works) /\ Len(r) = 2 /\ DOMAIN r = 1..2
        /\ r[1] = i /\ r[2] = j
    OBVIOUS
  <2> HIDE DEF r
  <2>2. Answers(r, s)
    BY <1>2, <2>1 DEF Answers
  <2> QED BY <2>2 DEF r
<1> QED BY <1>1, <1>2

\* apply(): up to two chains for the state it leaves, at least one if that
\* state drives.
LEMMA ApplyAnswers ==
    ASSUME NEW s \in ControlStates
    PROVE  /\ Applied(s) \in ControlStates
           /\ Applied(s).busConnected = s.busConnected
           /\ Answers(Apply(s), Applied(s))
           /\ Driving(Applied(s)) => Apply(s) # <<>>
<1> DEFINE u == TickOverride(s)
<1>1. u \in ControlStates /\ u.busConnected = s.busConnected
  BY DEF TickOverride, ControlStates, Modes
<1> HIDE DEF u
<1>2. CASE ~s.busConnected
  <2>1. Applied(s) = s /\ Apply(s) = <<>> /\ ~Driving(s)
    BY <1>2 DEF Applied, Apply, Driving
  <2> QED BY <2>1, AnswersNone
<1>3. CASE s.busConnected
  <2>1. Applied(s) = u
    BY <1>3 DEF Applied, u
  <2>2. Apply(s) = Realize(u) \/ Apply(s) = Realize(u) \o Realize(u)
    BY <1>3 DEF Apply, u
  <2>3. CASE /\ Realize(u) = <<>> /\ ~Driving(u)
    <3>1. Apply(s) = <<>>
      BY <2>2, <2>3
    <3> QED BY <1>1, <2>1, <2>3, <3>1, AnswersNone
  <2>4. ASSUME NEW j \in Works, Realize(u) = <<j>>, j.age = 0, Controls(j),
               Driving(u) => j.chain = First(TargetRpm(u)),
               lastAppliedMode = "released" => j.chain \in Enables
        PROVE  Answers(Apply(s), u) /\ Apply(s) # <<>>
    <3>1. Apply(s) = <<j>> \/ Apply(s) = <<j, j>>
      BY <2>2, <2>4
    <3>2. Answers(<<j>>, u) /\ Answers(<<j, j>>, u)
      BY <1>1, <1>3, <2>4, AnswersSome
    <3> QED BY <3>1, <3>2
  <2> QED BY <1>1, <1>3, <2>1, <2>3, <2>4, RealizeAnswers
<1> QED BY <1>2, <1>3 DEF ControlStates

\* Scheduler.tick(): up to two chains, of which the last is for the state after
\* both setters.
LEMMA TickAnswers ==
    ASSUME cs \in ControlStates, NEW plan \in Plans,
           NEW s1, s1 = SetScheduleActive(cs, plan.active),
           NEW s2, s2 = SetScheduledRpm(s1, plan.rpm), s2 # cs,
           NEW jobs, jobs = Notified(cs, s1) \o Notified(s1, s2)
    PROVE  /\ s2 \in ControlStates /\ s2.busConnected = cs.busConnected
           /\ Answers(jobs, s2)
           /\ jobs = <<>> /\ Driving(s2) =>
                Driving(cs) /\ TargetRpm(s2) = TargetRpm(cs)
<1>1. /\ s1 \in ControlStates /\ s2 \in ControlStates
      /\ s1.busConnected = cs.busConnected /\ s2.busConnected = cs.busConnected
      /\ s1.controlMode = cs.controlMode /\ s2.controlMode = cs.controlMode
      /\ s1.manualRpm = cs.manualRpm /\ s2.manualRpm = cs.manualRpm
      /\ s2.scheduleActive = s1.scheduleActive
  <2>1. plan.active \in BOOLEAN /\ plan.rpm \in Rpms \cup {0}
    <3>1. CASE plan = NoPlan
      BY <3>1 DEF NoPlan
    <3>2. CASE plan \in [active: {TRUE}, rpm: Rpms]
      BY <3>2
    <3> QED BY <3>1, <3>2 DEF Plans
  <2>2. /\ s1 = [cs EXCEPT !.scheduleActive = plan.active]
        /\ s2 = [s1 EXCEPT !.scheduledRpm = plan.rpm]
    BY DEF SetScheduleActive, SetScheduledRpm
  <2>3. /\ s1 \in ControlStates /\ s1.busConnected = cs.busConnected
        /\ s1.controlMode = cs.controlMode /\ s1.manualRpm = cs.manualRpm
    BY <2>1, <2>2 DEF ControlStates
  <2>4. /\ s2 \in ControlStates /\ s2.busConnected = s1.busConnected
        /\ s2.controlMode = s1.controlMode /\ s2.manualRpm = s1.manualRpm
        /\ s2.scheduleActive = s1.scheduleActive
    BY <2>1, <2>2, <2>3 DEF ControlStates
  <2> QED BY <2>3, <2>4
<1>2. CASE cs.controlMode # "schedule"
  <2>1. Notified(cs, s1) = <<>> /\ Notified(s1, s2) = <<>>
    BY <1>1, <1>2 DEF Notified
  <2>2. jobs = <<>>
    BY <2>1, EmptySeq, ConcatEmptySeq
  <2>3. TargetRpm(s2) = TargetRpm(cs) /\ (Driving(s2) => Driving(cs))
    BY <1>1, <1>2 DEF TargetRpm, Driving, ReleaseToOnboard
  <2> QED BY <1>1, <2>2, <2>3, AnswersNone
<1>3. CASE cs.controlMode = "schedule" /\ ~cs.busConnected
  <2>1. Notified(cs, s1) = <<>> /\ Notified(s1, s2) = <<>>
    BY <1>1, <1>3 DEF Notified, Apply
  <2>2. jobs = <<>> /\ ~Driving(s2)
    BY <1>1, <1>3, <2>1, EmptySeq, ConcatEmptySeq DEF Driving
  <2> QED BY <1>1, <2>2, AnswersNone
<1>4. CASE cs.controlMode = "schedule" /\ cs.busConnected
  <2>1. Apply(s1) = Realize(s1) /\ Apply(s2) = Realize(s2)
    BY <1>1, <1>4 DEF Apply, TickOverride
  <2>2. /\ Notified(cs, s1) = IF cs # s1 THEN Realize(s1) ELSE <<>>
        /\ Notified(s1, s2) = IF s1 # s2 THEN Realize(s2) ELSE <<>>
    BY <1>1, <1>4, <2>1 DEF Notified
  <2>3. CASE s1 = s2
    <3>1. Notified(cs, s1) = Realize(s2) /\ Notified(s1, s2) = <<>>
      BY <2>2, <2>3
    <3>2. CASE Realize(s2) = <<>> /\ ~Driving(s2)
      <4>1. jobs = <<>>
        BY <3>1, <3>2, EmptySeq, ConcatEmptySeq
      <4> QED BY <1>1, <3>2, <4>1, AnswersNone
    <3>3. ASSUME NEW j \in Works, Realize(s2) = <<j>>,
                 j.age = 0, Controls(j),
                 Driving(s2) => j.chain = First(TargetRpm(s2)),
                 lastAppliedMode = "released" => j.chain \in Enables
          PROVE  Answers(jobs, s2) /\ jobs # <<>>
      <4>1. jobs = <<j>>
        BY <3>1, <3>3, ConcatEmptySeq, <<j>> \in Seq(Works)
      <4>2. Answers(<<j>>, s2)
        BY <1>1, <1>4, <3>3, AnswersSome
      <4> QED BY <4>1, <4>2
    <3> QED BY <1>1, <1>4, <3>2, <3>3, RealizeAnswers
  <2>4. CASE s1 # s2
    <3>1. Notified(s1, s2) = Realize(s2)
      BY <2>2, <2>4
    <3>2. CASE /\ Realize(s2) = <<>> /\ ~Driving(s2)
               /\ ReleaseToOnboard(s2) /\ lastAppliedMode = "released"
      <4>1. ReleaseToOnboard(s1)
        BY <1>1, <3>2 DEF ReleaseToOnboard
      <4>2. Notified(cs, s1) = <<>>
        BY <2>2, <3>2, <4>1 DEF Realize
      <4>3. jobs = <<>>
        BY <3>1, <3>2, <4>2, EmptySeq, ConcatEmptySeq
      <4> QED BY <1>1, <3>2, <4>3, AnswersNone
    <3>3. ASSUME NEW j \in Works, Realize(s2) = <<j>>,
                 j.age = 0, Controls(j),
                 Driving(s2) => j.chain = First(TargetRpm(s2)),
                 lastAppliedMode = "released" => j.chain \in Enables
          PROVE  Answers(jobs, s2) /\ jobs # <<>>
      <4>1. /\ Answers(<<j>>, s2)
            /\ \A i \in Works : i.age = 0 /\ Controls(i) => Answers(<<i, j>>, s2)
        BY <1>1, <1>4, <3>3, AnswersSome
      <4>2. CASE Notified(cs, s1) = <<>>
        <5>1. jobs = <<j>>
          BY <3>1, <3>3, <4>2, ConcatEmptySeq, <<j>> \in Seq(Works)
        <5> QED BY <4>1, <5>1
      <4>3. ASSUME NEW i \in Works, Notified(cs, s1) = <<i>>,
                   i.age = 0, Controls(i)
            PROVE  Answers(jobs, s2) /\ jobs # <<>>
        <5>1. jobs = <<i, j>> /\ <<i, j>> # <<>>
          BY <3>1, <3>3, <4>3, Pair
        <5>2. Answers(<<i, j>>, s2)
          BY <4>1, <4>3
        <5> QED BY <5>1, <5>2
      <4>4. \/ Notified(cs, s1) = <<>>
            \/ \E i \in Works :
                 Notified(cs, s1) = <<i>> /\ i.age = 0 /\ Controls(i)
        BY <1>1, <1>4, <2>2, RealizeAnswers
      <4> QED BY <4>2, <4>3, <4>4
    <3> QED BY <1>1, <1>4, <3>2, <3>3, RealizeAnswers
  <2> QED BY <2>3, <2>4
<1> QED BY <1>2, <1>3, <1>4

\* What apply() sends keeps the invariant, if it sends something whenever the
\* intent changes.
LEMMA Answered ==
    ASSUME IInv, cs' \in ControlStates, cs'.busConnected \/ ~cs.busConnected,
           NEW jobs, Answers(jobs, cs'), Send(jobs), heard' = heard,
           jobs = <<>> /\ Driving(cs') =>
              Driving(cs) /\ TargetRpm(cs') = TargetRpm(cs),
           requests' \in 0..MAX_REQUESTS, faults' \in 0..MAX_FAULTS
    PROVE  IInv'
<1>1. /\ StateOK /\ QueueOK /\ AgesOK /\ InflightTold
      /\ IntentComing /\ ReleaseComing
  BY DEF IInv
<1>2. /\ jobs \in Seq(Works) /\ Len(jobs) <= 2
      /\ \A i \in DOMAIN jobs : jobs[i].age = 0 /\ Controls(jobs[i])
  BY DEF Answers
<1>3. /\ QueueOK' /\ AgesOK' /\ InflightTold'
      /\ wire' \in Seq(Frames) /\ gap' \in BOOLEAN /\ lost' \in BOOLEAN
      /\ lastAppliedMode' \in {"null", "released", "schedule", "manual"}
  BY <1>1, <1>2, SendWellFormed
<1>4. StateOK'
  BY <1>1, <1>3 DEF StateOK
<1>5. IntentComing' /\ ReleaseComing'
  <2>1. CASE jobs = <<>>
    <3>1. UNCHANGED <<queue, inflight, gap, wire, lastAppliedMode, lost>>
      BY <2>1 DEF Send, frames
    <3>2. Pipe' = Pipe /\ \A f : Told(f)' <=> Told(f)
      BY <3>1 DEF Pipe, PipeOf, Told
    <3>3. IntentComing'
      BY <1>1, <2>1, <3>1, <3>2
         DEF IntentComing, Coming, RunComing, SpeedComing
    <3>4. ReleaseComing'
      BY <1>1, <3>1, <3>2 DEF ReleaseComing
    <3> QED BY <3>3, <3>4
  <2>2. CASE jobs # <<>> /\ ~lost'
    <3> DEFINE c == jobs[Len(jobs)].chain
    <3>1. Len(jobs) \in 1..2
      BY <1>2, <2>2, NonEmpty
    <3>2. cs'.busConnected
      BY <2>2 DEF Answers
    <3>3. /\ lastAppliedMode' = lastAppliedMode
          /\ \A S : S \in {Remotes, Drives} /\ c \in S =>
               Ends(Pipe', S, c) /\ ~None(Pipe', S)
      BY <1>1, <1>2, <2>2, <3>1, <3>2, SendAsserts DEF StateOK
    <3>4. /\ Driving(cs') => c = First(TargetRpm(cs'))
          /\ lastAppliedMode = "released" => c \in Enables
      BY <2>2 DEF Answers
    <3> HIDE DEF c
    <3>5. IntentComing'
      <4> SUFFICES ASSUME Driving(cs') PROVE Coming(Pipe, TargetRpm(cs))'
        BY DEF IntentComing
      <4>1. c = First(TargetRpm(cs')) /\ c \in Remotes
        BY <3>4, TargetType, ChainSteps DEF Remotes
      <4> QED BY <3>3, <4>1 DEF Coming
    <3>6. ReleaseComing'
      BY <3>3, <3>4 DEF ReleaseComing, Drives
    <3> QED BY <3>5, <3>6
  <2>3. CASE lost'
    BY <2>3 DEF IntentComing, ReleaseComing
  <2> QED BY <2>1, <2>2, <2>3
<1> QED BY <1>3, <1>4, <1>5 DEF IInv

-----------------------------------------------------------------------------
(* Lemmas about drain().                                                   *)

\* A job's first frame says at which stage its chain is.
LEMMA StageOf ==
    ASSUME NEW j \in Works
    PROVE  /\ Head(j.chain).cmd = "remote" => j.chain \in Remotes
           /\ Head(j.chain).cmd = "run" => j.chain \in Runs
           /\ Head(j.chain).cmd = "rpm" => j.chain \in Speeds
           /\ Head(j.chain) = Enable => j.chain \in Enables
<1>1. j.chain \in Drives \cup {<<Release>>, <<StatusRequest>>}
  BY DEF Works
<1>2. Enable # Release /\ Enable.cmd # "run" /\ Enable.cmd # "rpm"
         /\ Enable # StatusRequest
  BY DEF Enable, Release, StatusRequest
<1> QED BY <1>1, <1>2, Stages, ChainFrames, FrameCommands DEF Drives, Remotes

\* No chain under way is about to say another frame of f's command.
Unspoken(f) ==
    /\ f.cmd = "remote" => None(Pipe, Remotes)
    /\ f.cmd = "run" => None(Pipe, Runs)
    /\ f.cmd = "rpm" => None(Pipe, Speeds)

\* A step that is not a change of the intent: the pipe keeps its chains, and a
\* frame is only written for a chain that was in it.
LEMMA InternalStep ==
    ASSUME IInv, cs' \in ControlStates,
           Driving(cs') => Driving(cs) /\ TargetRpm(cs') = TargetRpm(cs),
           ~lost' =>
             /\ ~lost /\ lastAppliedMode' = lastAppliedMode
             /\ Keeps(Pipe, Pipe')
             /\ \A f \in Frames : f.cmd # "status" /\ Told(f) /\ Unspoken(f)
                                => Told(f)'
             /\ Told(Release) => Told(Release)' \/ ~None(Pipe', Drives)
    PROVE  IntentComing' /\ ReleaseComing'
<1>1. IntentComing'
  <2> SUFFICES ASSUME Driving(cs)', ~lost' PROVE Coming(Pipe, TargetRpm(cs))'
    BY DEF IntentComing
  <2>1. PICK t \in Targets :
             t = TargetRpm(cs) /\ TargetRpm(cs') = t /\ Coming(Pipe, t)
    BY TargetType DEF IInv, IntentComing, StateOK
  <2>2. /\ Enable \in Frames /\ Enable.cmd = "remote"
        /\ StartStop(t) \in Frames /\ StartStop(t).cmd = "run"
    BY FrameCommands DEF StartStop
  <2>3. t > 0 => SetRpm(t) \in Frames /\ SetRpm(t).cmd = "rpm"
    BY <2>1, FrameCommands DEF Targets
  <2>4. None(Pipe, Remotes) /\ Told(Enable) => Told(Enable)'
    BY <2>2 DEF Unspoken, Told
  <2>5. None(Pipe, Runs) /\ Told(StartStop(t)) => Told(StartStop(t))'
    BY <2>2 DEF Unspoken, Told
  <2>6. t > 0 /\ None(Pipe, Speeds) /\ Told(SetRpm(t)) => Told(SetRpm(t))'
    BY <2>3 DEF Unspoken, Told
  <2>7. Coming(Pipe, t)'
    BY <2>1, <2>4, <2>5, <2>6, ComingKept
  <2> QED BY <2>1, <2>7 DEF Coming, RunComing, SpeedComing, Told
<1>2. ReleaseComing'
  BY DEF IInv, ReleaseComing, Keeps
<1> QED BY <1>1, <1>2

\* The job in flight fails: only a poll may without a frame being lost.
LEMMA TimesOutKeeps == ASSUME IInv, WriteTimesOut PROVE IInv'
<1>1. /\ StateOK /\ QueueOK /\ AgesOK
  BY DEF IInv
<1>2. /\ inflight # NoJob /\ Reject({inflight}) /\ inflight' = NoJob /\ gap' = TRUE
      /\ UNCHANGED <<cs, wire, heard, requests>> /\ Fault
      /\ queue' = [i \in DOMAIN queue |->
                     [queue[i] EXCEPT !.age = @ + WRITE_TIMEOUT]]
  BY DEF WriteTimesOut, WriteFailed
<1>3. queue \in Seq(Works) /\ inflight \in Works
  BY <1>1, <1>2 DEF QueueOK
<1>4. /\ queue' \in Seq(Works) /\ Len(queue') = Len(queue)
      /\ \A job : PipeOf(job, queue') = PipeOf(job, queue)
      /\ AgesFall(queue') /\ AgesWithin(queue', MAX_JOB_AGE + WRITE_TIMEOUT)
  BY <1>1, <1>2, <1>3, PipeAged, ControlLoopAssumption DEF AgesOK
<1>5. QueueOK' /\ AgesOK' /\ InflightTold'
  BY <1>1, <1>2, <1>4 DEF QueueOK, AgesOK, Idle, InflightTold
<1>6. StateOK'
  <2>1. /\ lost' \in BOOLEAN
        /\ lastAppliedMode' \in {"null", "released", "schedule", "manual"}
    BY <1>1, <1>2 DEF Reject, StateOK
  <2>2. faults' \in 0..MAX_FAULTS
    BY <1>1, <1>2, ControlLoopAssumption DEF Fault, StateOK
  <2>3. gap' \in BOOLEAN
    BY <1>2
  <2> QED BY <1>1, <1>2, <2>1, <2>2, <2>3 DEF StateOK
<1>7. ASSUME ~lost'
      PROVE  /\ ~lost /\ lastAppliedMode' = lastAppliedMode
             /\ Keeps(Pipe, Pipe')
  <2>1. ~lost /\ lastAppliedMode' = lastAppliedMode /\ ~Controls(inflight)
    BY <1>1, <1>2, <1>3, <1>7, NothingRejected DEF StateOK
  <2>2. \A S \in {Remotes, Runs, Speeds, Drives} : inflight.chain \notin S
    BY <1>3, <2>1, Unstaged
  <2>3. SubSeq(queue, 0 + 1, Len(queue)) = queue
    BY <1>3, SubSeqFull
  <2>4. ASSUME NEW S \in {Remotes, Runs, Speeds, Drives}
        PROVE  /\ None(Pipe, S) <=> None(PipeOf(NoJob, queue), S)
               /\ \A e \in S : Ends(Pipe, S, e) => Ends(PipeOf(NoJob, queue), S, e)
    <3>1. Shortens(inflight, NoJob, queue, 0, S) /\ <<>> \notin S
      BY <2>2, Stages DEF Shortens
    <3>2. 0 \in 0..Len(queue)
      BY <1>3
    <3>3. LET p == PipeOf(inflight, queue)
              r == PipeOf(NoJob, SubSeq(queue, 0 + 1, Len(queue)))
          IN  /\ None(p, S) <=> None(r, S)
              /\ \A e \in S : Ends(p, S, e) => Ends(r, S, e)
      BY <1>3, <3>1, <3>2, PipeShortened
    <3> QED BY <2>3, <3>3 DEF Pipe
  <2>5. Pipe' = PipeOf(NoJob, queue)
    BY <1>2, <1>4 DEF Pipe
  <2> QED BY <2>1, <2>4, <2>5 DEF Keeps
<1>8. IntentComing' /\ ReleaseComing'
  <2>1. /\ \A f \in Frames : Told(f) /\ Unspoken(f) => Told(f)'
        /\ Told(Release) => Told(Release)'
    BY <1>2 DEF Told
  <2> QED BY <1>1, <1>2, <1>7, <2>1, InternalStep DEF StateOK
<1> QED BY <1>5, <1>6, <1>8 DEF IInv

\* A frame arrives.
LEMMA DeliverKeeps == ASSUME IInv, Deliver PROVE IInv'
<1>1. /\ StateOK /\ QueueOK /\ AgesOK /\ InflightTold
  BY DEF IInv
<1>2. /\ wire # <<>> /\ heard' = Hear(heard, Head(wire)) /\ wire' = Tail(wire)
      /\ UNCHANGED <<cs, lastAppliedMode, queue, inflight, gap, lost, bounds>>
  BY DEF Deliver
<1>3. \A f \in Frames : Told(f) => Told(f)'
  BY <1>1, <1>2, ToldDelivered DEF StateOK
<1>4. StateOK'
  <2>1. wire \in Seq(Frames) /\ Head(wire) \in Frames /\ wire' \in Seq(Frames)
    BY <1>1, <1>2, HeadTailProperties DEF StateOK
  <2>2. heard' \in [remote: BOOLEAN, running: BOOLEAN, rpm: Rpms \cup {0}]
    <3>1. Head(wire).cmd = "rpm" => Head(wire).val \in Rpms
      BY <2>1 DEF Frames, Enable, Release, Run, Stop, StatusRequest, SetRpm
    <3> QED BY <1>1, <1>2, <3>1 DEF StateOK, Hear
  <2> QED BY <1>1, <1>2, <2>1, <2>2 DEF StateOK, bounds
<1>5. QueueOK' /\ AgesOK'
  BY <1>1, <1>2 DEF QueueOK, AgesOK, Idle
<1>6. InflightTold'
  <2>1. inflight # NoJob => Head(inflight.chain) \in Frames
    BY <1>1, Unstaged DEF QueueOK
  <2> QED BY <1>1, <1>2, <1>3, <2>1 DEF InflightTold, Told
<1>7. IntentComing' /\ ReleaseComing'
  <2>1. Pipe' = Pipe
    BY <1>2 DEF Pipe, PipeOf
  <2>2. Keeps(Pipe, Pipe')
    BY <2>1 DEF Keeps
  <2>3. Told(Release) => Told(Release)'
    BY <1>3, FrameCommands DEF Told
  <2> QED BY <1>1, <1>2, <1>3, <2>2, <2>3, InternalStep DEF StateOK
<1> QED BY <1>4, <1>5, <1>6, <1>7 DEF IInv

\* The end of an override passes: nothing is sent before the next apply().
LEMMA OverrideKeeps == ASSUME IInv, OverridePasses PROVE IInv'
<1>1. /\ StateOK /\ QueueOK /\ AgesOK /\ InflightTold
  BY DEF IInv
<1>2. /\ cs' = [cs EXCEPT !.overrideUntil = "past"]
      /\ UNCHANGED <<lastAppliedMode, frames, heard, lost, bounds>>
  BY DEF OverridePasses
<1>3. /\ cs' \in ControlStates /\ cs'.busConnected = cs.busConnected
      /\ TargetRpm(cs') = TargetRpm(cs) /\ (Driving(cs') => Driving(cs))
  BY <1>1, <1>2
     DEF StateOK, ControlStates, TargetRpm, Driving, ReleaseToOnboard
<1>4. StateOK'
  BY <1>1, <1>2, <1>3 DEF StateOK, frames, bounds
<1>5. QueueOK' /\ AgesOK' /\ InflightTold'
  BY <1>1, <1>2, <1>3
     DEF QueueOK, AgesOK, Idle, InflightTold, Told, frames
<1>6. IntentComing' /\ ReleaseComing'
  <2>1. Pipe' = Pipe
    BY <1>2 DEF Pipe, PipeOf, frames
  <2>2. Keeps(Pipe, Pipe')
    BY <2>1 DEF Keeps
  <2>3. /\ \A f \in Frames : Told(f) /\ Unspoken(f) => Told(f)'
        /\ Told(Release) => Told(Release)'
    BY <1>2 DEF Told, frames
  <2> QED BY <1>2, <1>3, <2>2, <2>3, InternalStep
<1> QED BY <1>4, <1>5, <1>6 DEF IInv

\* A poll is sent.
LEMMA PollKeeps == ASSUME IInv, Poll PROVE IInv'
<1>1. /\ StateOK /\ QueueOK /\ AgesOK /\ InflightTold
  BY DEF IInv
<1> DEFINE j == Job(<<StatusRequest>>, "poll")
<1>2. /\ cs' = cs /\ Send(<<j>>) /\ heard' = heard /\ faults' = faults
      /\ requests' \in 0..MAX_REQUESTS
  BY <1>1, ControlLoopAssumption DEF Poll, Request, StateOK
<1>3. /\ j \in Works /\ j.age = 0 /\ ~Controls(j)
      /\ j.chain = <<StatusRequest>>
  BY DEF Job, Works, Controls
<1> HIDE DEF j
<1>4. /\ <<j>> \in Seq(Works) /\ Len(<<j>>) <= 2
      /\ \A i \in DOMAIN <<j>> : <<j>>[i].age = 0
  BY <1>3
<1>5. /\ QueueOK' /\ AgesOK' /\ InflightTold'
      /\ wire' \in Seq(Frames) /\ gap' \in BOOLEAN /\ lost' \in BOOLEAN
      /\ lastAppliedMode' \in {"null", "released", "schedule", "manual"}
  BY <1>1, <1>2, <1>4, SendWellFormed
<1>6. StateOK'
  BY <1>1, <1>2, <1>5 DEF StateOK
<1>7. ~lost' => /\ ~lost /\ lastAppliedMode' = lastAppliedMode
                /\ Keeps(Pipe, Pipe')
                /\ \A f \in Frames : f.cmd # "status" /\ Told(f) => Told(f)'
  BY <1>1, <1>2, <1>3, SendPolls
<1>8. ~lost' => (Told(Release) => Told(Release)')
  BY <1>7, FrameCommands DEF Told
<1>9. IntentComing' /\ ReleaseComing'
  BY <1>1, <1>2, <1>7, <1>8, InternalStep DEF StateOK
<1> QED BY <1>5, <1>6, <1>9 DEF IInv

\* The connection drops: nothing that matters was under way, or a frame is lost.
LEMMA DownKeeps == ASSUME IInv, BusDown PROVE IInv'
<1>1. /\ StateOK /\ QueueOK /\ AgesOK /\ InflightTold /\ ReleaseComing
  BY DEF IInv
<1>2. /\ cs' = [cs EXCEPT !.busConnected = FALSE] /\ wire' = <<>>
      /\ Fault /\ UNCHANGED <<queue, heard, requests>>
      /\ IF inflight # NoJob
         THEN /\ inflight' = NoJob /\ gap' = TRUE
              /\ lastAppliedMode' = IF inflight.to = "released"
                                    THEN "released" ELSE lastAppliedMode
         ELSE UNCHANGED <<inflight, gap, lastAppliedMode>>
      /\ lost' = (lost \/ Controls(inflight)
                       \/ \E i \in DOMAIN wire : wire[i] # StatusRequest)
  BY DEF BusDown
<1>3. /\ inflight' = NoJob
      /\ inflight # NoJob => gap' = TRUE
      /\ inflight = NoJob => gap' = gap /\ lastAppliedMode' = lastAppliedMode
  BY <1>2
<1>4. StateOK'
  <2>1. cs' \in ControlStates
    BY <1>1, <1>2 DEF StateOK, ControlStates
  <2>2. lastAppliedMode' \in {"null", "released", "schedule", "manual"}
    BY <1>1, <1>2 DEF StateOK
  <2>3. gap' \in BOOLEAN
    BY <1>1, <1>3 DEF StateOK
  <2>4. lost' \in BOOLEAN
    BY <1>2
  <2>5. faults' \in 0..MAX_FAULTS
    BY <1>1, <1>2, ControlLoopAssumption DEF Fault, StateOK
  <2>6. wire' \in Seq(Frames)
    BY <1>2
  <2> QED BY <1>1, <1>2, <2>1, <2>2, <2>3, <2>4, <2>5, <2>6 DEF StateOK
<1>5. QueueOK' /\ AgesOK' /\ InflightTold'
  <2>1. Idle' => Idle /\ inflight = NoJob
    BY <1>1, <1>3 DEF Idle, StateOK
  <2> QED BY <1>1, <1>2, <1>3, <2>1 DEF QueueOK, AgesOK, InflightTold
<1>6. IntentComing'
  <2>1. ~cs'.busConnected
    BY <1>1, <1>2 DEF StateOK, ControlStates
  <2> QED BY <2>1 DEF IntentComing, Driving
<1>7. ReleaseComing'
  <2> SUFFICES ASSUME ~lost', lastAppliedMode' = "released"
               PROVE  ~None(Pipe, Drives)' \/ Told(Release)'
    BY DEF ReleaseComing
  <2>1. /\ ~lost /\ ~Controls(inflight)
        /\ \A i \in DOMAIN wire : wire[i] = StatusRequest
    BY <1>2
  <2>2. lastAppliedMode' = lastAppliedMode
    BY <1>2, <1>3, <2>1 DEF Controls
  <2>3. ~None(Pipe, Drives) \/ Told(Release)
    BY <1>1, <2>1, <2>2 DEF ReleaseComing
  <2>4. CASE Told(Release)
    <3>1. ~Ends(wire, Same(Release), Release)
      BY <2>1, FrameCommands DEF Ends
    <3>2. Hear(heard, Release) = heard
      BY <2>4, <3>1 DEF Told
    <3>3. None(wire', Same(Release))
      BY <1>2 DEF None
    <3> QED BY <1>2, <3>2, <3>3 DEF Told
  <2>5. CASE ~None(Pipe, Drives)
    <3>1. DOMAIN Pipe' = DOMAIN Pipe /\ Len(queue) \in Nat
      BY <1>1, <1>2 DEF Pipe, PipeOf, QueueOK
    <3>2. PICK i \in 0..Len(queue) : Pipe[i] \in Drives
      BY <2>5, <3>1 DEF None, Pipe, PipeOf
    <3>3. inflight.chain \notin Drives
      BY <1>1, <2>1, Unstaged DEF QueueOK
    <3>4. i # 0 /\ i \in 0..Len(queue) /\ Pipe'[i] = Pipe[i]
      BY <1>2, <3>1, <3>2, <3>3 DEF Pipe, PipeOf
    <3>5. i \in DOMAIN Pipe'
      BY <3>1, <3>4 DEF Pipe, PipeOf
    <3> QED BY <3>2, <3>4, <3>5 DEF None
  <2> QED BY <2>3, <2>4, <2>5
<1> QED BY <1>4, <1>5, <1>6, <1>7 DEF IInv

\* drain() takes the next job: n stale ones are dropped before it.
LEMMA GapKeeps == ASSUME IInv, GapOver PROVE IInv'
<1>1. /\ StateOK /\ QueueOK /\ AgesOK /\ ReleaseComing
  BY DEF IInv
<1>2. gap /\ UNCHANGED <<cs, heard, bounds>>
  BY DEF GapOver
<1>3. inflight = NoJob /\ queue \in Seq(Works) /\ Pipe = PipeOf(NoJob, queue)
  BY <1>1, <1>2 DEF QueueOK, Pipe
<1> DEFINE Dead(n) == {queue[i] : i \in 1..n}
<1>4. PICK n \in 0..Len(queue) :
        /\ \A j \in Dead(n) : Stale(j)
        /\ \/ /\ n = Len(queue)
              /\ queue' = <<>> /\ gap' = FALSE
              /\ Reject(Dead(n))
              /\ UNCHANGED <<inflight, wire>>
           \/ /\ n < Len(queue) /\ ~Stale(queue[n + 1])
              /\ queue' = SubSeq(queue, n + 2, Len(queue))
              /\ Write(queue[n + 1])
              /\ Reject(Dead(n) \cup IF cs.busConnected THEN {}
                                     ELSE {queue[n + 1]})
  BY DEF GapOver
<1>5. Dead(n) \subseteq Works
  BY <1>3, ElementOfSeq
<1>6. \A i \in 1..n : queue[i] \in Dead(n) /\ queue[i] \in Works
  BY <1>3, ElementOfSeq
<1> HIDE DEF Dead
<1>7. ASSUME \A j \in Dead(n) : ~Controls(j),
             NEW S \in {Remotes, Runs, Speeds, Drives}
      PROVE  <<>> \notin S /\ NoJob.chain \notin S
               /\ \A i \in 1..n : queue[i].chain \notin S
  BY <1>6, <1>7, Unstaged, Stages DEF NoJob
<1>8. CASE /\ n = Len(queue)
           /\ queue' = <<>> /\ gap' = FALSE
           /\ Reject(Dead(n))
           /\ UNCHANGED <<inflight, wire>>
  <2>1. lastAppliedMode' \in {"null", "released", "schedule", "manual"}
           /\ lost' \in BOOLEAN
    BY <1>1, <1>8 DEF Reject, StateOK
  <2>2. gap' \in BOOLEAN
    BY <1>8
  <2>3. StateOK'
    BY <1>1, <1>2, <1>8, <2>1, <2>2 DEF StateOK, bounds
  <2>4. QueueOK' /\ AgesOK' /\ InflightTold'
    BY <1>1, <1>2, <1>3, <1>8, ControlLoopAssumption, EmptySeq
       DEF QueueOK, AgesOK, AgesFall, AgesWithin, Idle, InflightTold
  <2>5. ASSUME ~lost'
        PROVE  ~lost /\ lastAppliedMode' = lastAppliedMode /\ Keeps(Pipe, Pipe')
    <3>1. /\ ~lost /\ lastAppliedMode' = lastAppliedMode
          /\ \A j \in Dead(n) : ~Controls(j)
      BY <1>1, <1>5, <1>8, <2>5, NothingRejected DEF StateOK
    <3>2. SubSeq(queue, n + 1, Len(queue)) = <<>>
      BY <1>3, <1>8, SubSeqEmpty
    <3>3. ASSUME NEW S \in {Remotes, Runs, Speeds, Drives}
          PROVE  /\ None(Pipe, S) <=> None(Pipe', S)
                 /\ \A e \in S : Ends(Pipe, S, e) => Ends(Pipe', S, e)
      <4>1. Shortens(NoJob, NoJob, queue, n, S) /\ <<>> \notin S
        BY <1>7, <3>1 DEF Shortens
      <4>2. Pipe' = PipeOf(NoJob, SubSeq(queue, n + 1, Len(queue)))
        BY <1>3, <1>8, <3>2 DEF Pipe
      <4> QED BY <1>3, <4>1, <4>2, PipeShortened
    <3> QED BY <3>1, <3>3 DEF Keeps
  <2>6. /\ \A f \in Frames : f.cmd # "status" /\ Told(f) /\ Unspoken(f) => Told(f)'
        /\ Told(Release) => Told(Release)'
    BY <1>2, <1>8 DEF Told
  <2>7. IntentComing' /\ ReleaseComing'
    BY <1>1, <1>2, <2>5, <2>6, InternalStep DEF StateOK
  <2> QED BY <2>3, <2>4, <2>7 DEF IInv
<1>9. CASE /\ n < Len(queue) /\ ~Stale(queue[n + 1])
           /\ queue' = SubSeq(queue, n + 2, Len(queue))
           /\ Write(queue[n + 1])
           /\ Reject(Dead(n) \cup IF cs.busConnected THEN {} ELSE {queue[n + 1]})
  <2> DEFINE d == n + 1
  <2>1. PICK j \in Works, g \in Frames :
           j = queue[d] /\ g = Head(j.chain) /\ j # NoJob
    <3>1. queue[d] \in Works
      BY <1>3, <1>9, ElementOfSeq
    <3> QED BY <3>1, Unstaged
  <2>2. /\ d \in 1..Len(queue) /\ d \in 0..Len(queue) /\ d > 0 /\ d - 1 = n
        /\ ~Stale(j)
        /\ queue' = SubSeq(queue, d + 1, Len(queue))
        /\ Write(j)
        /\ Reject(Dead(n) \cup IF cs.busConnected THEN {} ELSE {j})
    BY <1>3, <1>9, <2>1
  <2> HIDE DEF d
  <2>3. /\ queue' \in Seq(Works) /\ Len(queue') = Len(queue) - d
        /\ AgesFall(queue')
        /\ \A a \in Nat : AgesWithin(queue, a) => AgesWithin(queue', a)
        /\ \A i \in 1..Len(queue') : queue'[i] = queue[i + d]
                                     /\ i + d \in 1..Len(queue)
    BY <1>1, <1>3, <2>2, QueueShortened DEF AgesOK
  <2>4. lastAppliedMode' \in {"null", "released", "schedule", "manual"}
           /\ lost' \in BOOLEAN
    BY <1>1, <2>2 DEF Reject, StateOK
  <2>5. AgesWithin(queue', MAX_JOB_AGE)
    <3> SUFFICES ASSUME NEW i \in 1..Len(queue')
                 PROVE  queue'[i].age <= MAX_JOB_AGE
      BY <2>3 DEF AgesWithin
    <3>1. i + d \in DOMAIN queue /\ d \in DOMAIN queue /\ d <= i + d
      BY <1>3, <2>2, <2>3
    <3>2. queue[i + d].age <= j.age
      BY <1>1, <2>1, <3>1 DEF AgesOK, AgesFall
    <3>3. \A k \in Works : k.age \in Nat
      BY DEF Works
    <3>4. j.age \in Nat /\ queue[i + d].age \in Nat
      BY <1>3, <2>3, <3>3, ElementOfSeq
    <3>5. j.age <= MAX_JOB_AGE
      BY <2>2, <3>4, ControlLoopAssumption DEF Stale
    <3> QED BY <2>3, <3>2, <3>4, <3>5, ControlLoopAssumption
  <2>6. CASE cs.busConnected
    <3>1. /\ inflight' = j /\ gap' = FALSE /\ wire' = Append(wire, g)
          /\ Reject(Dead(n))
      BY <1>2, <2>1, <2>2, <2>6 DEF Write
    <3>2. wire' \in Seq(Frames) /\ gap' \in BOOLEAN
      <4>1. gap' \in BOOLEAN
        BY <3>1
      <4>2. wire' \in Seq(Frames)
        BY <1>1, <3>1 DEF StateOK
      <4> QED BY <4>1, <4>2
    <3>3. StateOK'
      BY <1>1, <1>2, <2>4, <3>2 DEF StateOK, bounds
    <3>4. QueueOK'
      BY <1>1, <1>2, <2>2, <2>3, <2>1, <2>6, <3>1, ControlLoopAssumption
         DEF QueueOK, Idle
    <3>5. AgesOK'
      BY <1>1, <2>3, <2>5, ControlLoopAssumption DEF AgesOK
    <3>6. /\ Told(g)'
          /\ \A f \in Frames : f.cmd # g.cmd /\ Told(f) => Told(f)'
      BY <1>1, <1>2, <3>1, ToldWritten DEF StateOK
    <3>7. InflightTold'
      BY <2>1, <3>1, <3>6 DEF InflightTold, Told
    <3>8. ASSUME ~lost'
          PROVE  ~lost /\ lastAppliedMode' = lastAppliedMode /\ Keeps(Pipe, Pipe')
      <4>1. /\ ~lost /\ lastAppliedMode' = lastAppliedMode
            /\ \A i \in Dead(n) : ~Controls(i)
        BY <1>1, <1>5, <3>1, <3>8, NothingRejected DEF StateOK
      <4>2. ASSUME NEW S \in {Remotes, Runs, Speeds, Drives}
            PROVE  /\ None(Pipe, S) <=> None(Pipe', S)
                   /\ \A e \in S : Ends(Pipe, S, e) => Ends(Pipe', S, e)
        <5>1. Shortens(NoJob, j, queue, d, S) /\ <<>> \notin S
          BY <1>7, <2>1, <2>2, <4>1 DEF Shortens
        <5>2. Pipe' = PipeOf(j, SubSeq(queue, d + 1, Len(queue)))
          BY <2>2, <3>1 DEF Pipe
        <5> QED BY <1>3, <2>2, <5>1, <5>2, PipeShortened
      <4> QED BY <4>1, <4>2 DEF Keeps
    <3>9. 0 \in DOMAIN Pipe' /\ Pipe'[0] = j.chain
      <4>1. Len(queue') \in Nat
        BY <2>3
      <4> QED BY <3>1, <4>1, PipeIs DEF Pipe
    <3>10. \A f \in Frames : f.cmd # "status" /\ Told(f) /\ Unspoken(f) /\ ~lost'
                               => Told(f)'
      <4> SUFFICES ASSUME NEW f \in Frames, f.cmd # "status", Told(f),
                          Unspoken(f), ~lost', f.cmd = g.cmd
                   PROVE  FALSE
        BY <3>6 DEF Told
      <4>1. f.cmd \in {"remote", "run", "rpm"}
        BY FrameCommands
      <4>2. j.chain \notin Remotes \/ f.cmd # "remote"
        BY <3>8, <3>9 DEF Unspoken, Keeps, None
      <4>3. j.chain \notin Runs \/ f.cmd # "run"
        BY <3>8, <3>9 DEF Unspoken, Keeps, None
      <4>4. j.chain \notin Speeds \/ f.cmd # "rpm"
        BY <3>8, <3>9 DEF Unspoken, Keeps, None
      <4> QED BY <2>1, <4>1, <4>2, <4>3, <4>4, StageOf
    <3>11. Told(Release) => Told(Release)' \/ ~None(Pipe', Drives)
      <4>1. CASE g.cmd # "remote"
        BY <3>6, <4>1, FrameCommands DEF Told
      <4>2. CASE g.cmd = "remote"
        <5>1. j.chain \in Remotes
          BY <2>1, <4>2, StageOf
        <5>2. CASE j.chain \in Enables
          BY <3>9, <5>2 DEF None, Drives
        <5>3. CASE j.chain = <<Release>>
          <6>1. g = Release
            BY <2>1, <5>3, ChainFrames
          <6> QED BY <3>6, <6>1 DEF Told
        <5> QED BY <5>1, <5>2, <5>3 DEF Remotes
      <4> QED BY <4>1, <4>2
    <3>12. IntentComing' /\ ReleaseComing'
      BY <1>1, <1>2, <3>8, <3>10, <3>11, InternalStep DEF StateOK
    <3> QED BY <3>3, <3>4, <3>5, <3>7, <3>12 DEF IInv
  <2>7. CASE ~cs.busConnected
    <3>1. /\ inflight' = NoJob /\ gap' = TRUE /\ wire' = wire
          /\ Reject(Dead(n) \cup {j})
      BY <1>2, <2>2, <2>7 DEF Write
    <3>2. gap' \in BOOLEAN
      BY <3>1
    <3>3. StateOK'
      BY <1>1, <1>2, <2>4, <3>1, <3>2 DEF StateOK, bounds
    <3>4. QueueOK' /\ AgesOK' /\ InflightTold'
      BY <1>1, <1>2, <1>3, <2>2, <2>3, <2>7, <3>1, ControlLoopAssumption
         DEF QueueOK, AgesOK, Idle, InflightTold
    <3>5. ASSUME ~lost'
          PROVE  ~lost /\ lastAppliedMode' = lastAppliedMode /\ Keeps(Pipe, Pipe')
      <4>1. /\ ~lost /\ lastAppliedMode' = lastAppliedMode
            /\ \A i \in Dead(n) \cup {j} : ~Controls(i)
        <5>1. Dead(n) \cup {j} \subseteq Works
          BY <1>5
        <5> QED BY <1>1, <3>1, <3>5, <5>1, NothingRejected DEF StateOK
      <4>2. ASSUME NEW S \in {Remotes, Runs, Speeds, Drives}
            PROVE  /\ None(Pipe, S) <=> None(Pipe', S)
                   /\ \A e \in S : Ends(Pipe, S, e) => Ends(Pipe', S, e)
        <5>1. queue[d].chain \notin S
          BY <2>1, <4>1, Unstaged
        <5>2. \A i \in 1..d : i \in 1..n \/ i = d
          BY <2>2
        <5>3. Shortens(NoJob, NoJob, queue, d, S) /\ <<>> \notin S
          BY <1>7, <4>1, <5>1, <5>2 DEF Shortens
        <5>4. Pipe' = PipeOf(NoJob, SubSeq(queue, d + 1, Len(queue)))
          BY <2>2, <3>1 DEF Pipe
        <5> QED BY <1>3, <2>2, <5>3, <5>4, PipeShortened
      <4> QED BY <4>1, <4>2 DEF Keeps
    <3>6. /\ \A f \in Frames : f.cmd # "status" /\ Told(f) /\ Unspoken(f) => Told(f)'
          /\ Told(Release) => Told(Release)'
      BY <1>2, <3>1 DEF Told
    <3>7. IntentComing' /\ ReleaseComing'
      BY <1>1, <1>2, <3>5, <3>6, InternalStep DEF StateOK
    <3> QED BY <3>3, <3>4, <3>7 DEF IInv
  <2> QED BY <2>6, <2>7
<1> QED BY <1>4, <1>8, <1>9

-----------------------------------------------------------------------------
(* Lemmas about the end of a write.                                        *)

\* What apply() goes on with when the frame of a job is flushed.
RestOf(j) == [j EXCEPT !.chain = Tail(@), !.age = 0]

\* The rest of a chain is at the next stage, or there is none.
LEMMA RestIs ==
    ASSUME NEW j \in Works
    PROVE  /\ RestOf(j).chain = Tail(j.chain)
           /\ RestOf(j).chain # <<>> =>
                /\ RestOf(j) \in Works /\ RestOf(j).age = 0
                /\ RestOf(j).chain \in Drives
           /\ RestOf(j).chain \notin Remotes
           /\ RestOf(j).chain \in Runs => j.chain \in Enables
           /\ RestOf(j).chain \in Speeds => j.chain \in Runs
<1> DEFINE r == RestOf(j)
<1>1. r = [chain |-> Tail(j.chain), to |-> j.to, age |-> 0]
  <2> DEFINE c == Tail(j.chain)
  <2>1. r = [j EXCEPT !.chain = c, !.age = 0]
    BY DEF RestOf
  <2>2. DOMAIN j = {"chain", "to", "age"}
    BY DEF Works
  <2> HIDE DEF c, r
  <2>3. r = [chain |-> c, to |-> j.to, age |-> 0]
    BY <2>1, <2>2
  <2> QED BY <2>3 DEF c
<1> HIDE DEF r
<1>2. CASE j.chain \in Drives
  <2>1. j.to \in {"schedule", "manual"}
    BY <1>2, Stages DEF Works
  <2>2. r.chain \in Runs \cup Speeds \cup {<<>>}
    BY <1>1, <1>2, ChainFrames DEF Drives
  <2>3. ASSUME r.chain # <<>> PROVE r \in Works /\ r.chain \in Drives
    <3>1. Tail(j.chain) \in Drives /\ r.chain = Tail(j.chain)
      BY <1>1, <2>2, <2>3 DEF Drives
    <3> QED BY <1>1, <2>1, <3>1 DEF Works
  <2>4. /\ r.chain \notin Remotes
        /\ r.chain \in Runs => j.chain \in Enables
        /\ r.chain \in Speeds => j.chain \in Runs
    BY <1>1, <1>2, <2>2, ChainFrames, Stages DEF Drives
  <2> QED BY <1>1, <2>3, <2>4 DEF r
<1>3. CASE j.chain \notin Drives
  <2>1. j.chain = <<Release>> \/ j.chain = <<StatusRequest>>
    BY <1>3 DEF Works
  <2>2. r.chain = <<>>
    BY <1>1, <2>1, ChainFrames
  <2>3. \A S \in {Remotes, Runs, Speeds} : <<>> \notin S
    BY Stages
  <2>4. <<>> \notin Remotes /\ <<>> \notin Runs /\ <<>> \notin Speeds
    BY <2>3
  <2>5. r.chain = Tail(j.chain)
    BY <1>1
  <2> QED BY <2>2, <2>4, <2>5 DEF r
<1> QED BY <1>2, <1>3

\* From p to r: the job j leaves the pipe and its rest joins it.
Finishes(p, r, j, S) ==
    /\ RestOf(j).chain \in S => Ends(r, S, RestOf(j).chain) /\ ~None(r, S)
    /\ RestOf(j).chain \notin S =>
         /\ None(p, S) => None(r, S)
         /\ \A e \in S : Ends(p, S, e) =>
              Ends(r, S, e) \/ (j.chain = e /\ None(r, S))
    /\ None(r, S) /\ j.chain \notin S => None(p, S)

\* A write that is flushed changes the pipe so.
LEMMA PipeFinished ==
    ASSUME NEW j \in Works, NEW q \in Seq(Works), NEW q2,
           q2 = IF RestOf(j).chain = <<>> THEN q ELSE Append(q, RestOf(j)),
           NEW S \in {Remotes, Runs, Speeds, Drives}
    PROVE  Finishes(PipeOf(j, q), PipeOf(NoJob, q2), j, S)
<1> DEFINE p == PipeOf(j, q)
           f == PipeOf(NoJob, q)
           r == PipeOf(NoJob, q2)
<1>1. NoJob.chain \notin S /\ <<>> \notin S
  BY Stages DEF NoJob
<1>2. /\ Len(q) \in Nat /\ DOMAIN p = 0..Len(q) /\ DOMAIN f = 0..Len(q)
      /\ p[0] = j.chain /\ f[0] = NoJob.chain
      /\ \A i \in 1..Len(q) : f[i] = p[i]
  BY PipeIs
<1>3. CASE RestOf(j).chain = <<>>
  <2>1. r = f
    BY <1>3
  <2> HIDE DEF p, f, r
  <2>2. /\ None(p, S) => None(f, S)
        /\ \A e \in S : Ends(p, S, e) =>
             Ends(f, S, e) \/ (j.chain = e /\ None(f, S))
    BY <1>1, <1>2, EndsFinish
  <2>3. None(f, S) /\ j.chain \notin S => None(p, S)
    BY <1>2 DEF None
  <2> QED BY <1>1, <1>3, <2>1, <2>2, <2>3 DEF p, r, Finishes
<1>4. CASE RestOf(j).chain # <<>>
  <2>1. RestOf(j) \in Works
    BY <1>4, RestIs
  <2>2. q2 = Append(q, RestOf(j))
    BY <1>4
  <2>3. /\ RestOf(j).chain \in S => Ends(r, S, RestOf(j).chain) /\ ~None(r, S)
        /\ RestOf(j).chain \notin S =>
             /\ None(f, S) => None(r, S)
             /\ \A e : Ends(f, S, e) => Ends(r, S, e)
        /\ None(r, S) => None(f, S)
    BY <2>1, <2>2, PipePushed
  <2> HIDE DEF p, f, r
  <2>4. /\ None(p, S) => None(f, S)
        /\ \A e \in S : Ends(p, S, e) =>
             Ends(f, S, e) \/ (j.chain = e /\ None(f, S))
    BY <1>1, <1>2, EndsFinish
  <2>5. None(f, S) /\ j.chain \notin S => None(p, S)
    BY <1>2 DEF None
  <2> QED BY <2>3, <2>4, <2>5 DEF p, r, Finishes
<1> QED BY <1>3, <1>4

\* The frame that is flushed was the one to be told, and the rest of its chain
\* comes to the next.
LEMMA FinishComing ==
    ASSUME NEW j \in Works, NEW q \in Seq(Works), NEW q2,
           q2 = IF RestOf(j).chain = <<>> THEN q ELSE Append(q, RestOf(j)),
           NEW t \in Targets, Told(Head(j.chain)), Coming(PipeOf(j, q), t)
    PROVE  Coming(PipeOf(NoJob, q2), t)
<1> DEFINE p == PipeOf(j, q)
           r == PipeOf(NoJob, q2)
           c == RestOf(j).chain
<1>1. \A S \in {Remotes, Runs, Speeds, Drives} :
        /\ c \in S => Ends(r, S, c)
        /\ c \notin S =>
             /\ None(p, S) => None(r, S)
             /\ \A e \in S : Ends(p, S, e) =>
                  Ends(r, S, e) \/ (j.chain = e /\ None(r, S))
  <2>1. \A S \in {Remotes, Runs, Speeds, Drives} : Finishes(p, r, j, S)
    BY PipeFinished
  <2> QED BY <2>1 DEF Finishes
<1>2. /\ c = Tail(j.chain) /\ c \notin Remotes
      /\ c \in Runs => j.chain \in Enables
      /\ c \in Speeds => j.chain \in Runs
  BY RestIs
<1>3. None(p, Remotes) => c \notin Runs
  <2>1. 0 \in DOMAIN p /\ p[0] = j.chain
    BY PipeIs, Len(q) \in Nat
  <2> QED BY <1>2, <2>1 DEF None, Remotes
<1>4. None(p, Runs) => c \notin Speeds
  <2>1. 0 \in DOMAIN p /\ p[0] = j.chain
    BY PipeIs, Len(q) \in Nat
  <2> QED BY <1>2, <2>1 DEF None
<1> HIDE DEF p, r, c
<1>5. /\ First(t) \in Remotes /\ Head(First(t)) = Enable
      /\ Tail(First(t)) = Second(t)
      /\ Second(t) \in Runs /\ Head(Second(t)) = StartStop(t)
      /\ t > 0 => /\ Tail(Second(t)) = Third(t)
                  /\ Third(t) \in Speeds /\ Head(Third(t)) = SetRpm(t)
  BY ChainSteps, ChainFrames DEF Remotes
<1>6. ASSUME t > 0, c \notin Speeds, SpeedComing(p, t) PROVE SpeedComing(r, t)
  BY <1>1, <1>5, <1>6 DEF SpeedComing
<1>7. ASSUME c \notin Runs, RunComing(p, t) PROVE RunComing(r, t)
  <2>1. CASE Ends(p, Runs, Second(t)) /\ ~Ends(r, Runs, Second(t))
    <3>1. j.chain = Second(t) /\ None(r, Runs)
      BY <1>1, <1>5, <1>7, <2>1
    <3>2. Told(StartStop(t))
      BY <1>5, <3>1
    <3>3. ASSUME t > 0 PROVE SpeedComing(r, t)
      <4>1. c = Third(t)
        BY <1>2, <1>5, <3>1, <3>3
      <4> QED BY <1>1, <1>5, <3>3, <4>1 DEF SpeedComing
    <3> QED BY <3>1, <3>2, <3>3 DEF RunComing
  <2>2. CASE Ends(r, Runs, Second(t))
    BY <2>2 DEF RunComing
  <2>3. CASE ~Ends(p, Runs, Second(t))
    <3>1. /\ None(p, Runs) /\ Told(StartStop(t))
          /\ t > 0 => SpeedComing(p, t)
      BY <1>7, <2>3 DEF RunComing
    <3>2. None(r, Runs)
      BY <1>1, <1>7, <3>1
    <3> QED BY <1>4, <1>6, <3>1, <3>2 DEF RunComing
  <2> QED BY <2>1, <2>2, <2>3
<1>8. CASE Ends(p, Remotes, First(t)) /\ ~Ends(r, Remotes, First(t))
  <2>1. j.chain = First(t) /\ None(r, Remotes)
    BY <1>1, <1>2, <1>5, <1>8
  <2>2. Told(Enable) /\ c = Second(t)
    BY <1>2, <1>5, <2>1
  <2>3. RunComing(r, t)
    BY <1>1, <1>5, <2>2 DEF RunComing
  <2>4. Coming(r, t)
    BY <2>1, <2>2, <2>3 DEF Coming
  <2> QED BY <2>4 DEF r
<1>9. CASE Ends(r, Remotes, First(t))
  BY <1>9 DEF Coming, r
<1>10. CASE ~Ends(p, Remotes, First(t))
  <2>1. None(p, Remotes) /\ Told(Enable) /\ RunComing(p, t)
    BY <1>10 DEF Coming, p
  <2>2. None(r, Remotes)
    BY <1>1, <1>2, <2>1
  <2>3. Coming(r, t)
    BY <1>3, <1>7, <2>1, <2>2 DEF Coming
  <2> QED BY <2>3 DEF r
<1> QED BY <1>8, <1>9, <1>10

\* A write is flushed after w: the queue aged, the chain goes on at its end.
LEMMA DoneKeeps ==
    ASSUME IInv, inflight # NoJob, NEW w \in 0..WRITE_TIMEOUT, WriteDone(w),
           faults' \in 0..MAX_FAULTS
    PROVE  IInv'
<1>1. /\ StateOK /\ QueueOK /\ AgesOK /\ IntentComing /\ ReleaseComing
  BY DEF IInv
<1>2. /\ queue \in Seq(Works) /\ Len(queue) <= MAX_QUEUE_DEPTH
      /\ inflight \in Works
  BY <1>1 DEF QueueOK
<1>3. PICK j \in Works, g \in Frames : j = inflight /\ g = Head(j.chain)
  BY <1>2, Unstaged
<1>4. j # NoJob /\ Told(g)
  BY <1>3, Unstaged DEF IInv, InflightTold
<1>5. PICK older :
        older = [i \in DOMAIN queue |-> [queue[i] EXCEPT !.age = @ + w]]
  OBVIOUS
<1>6. PICK full :
        full = IF RestOf(j).chain = <<>> THEN older ELSE Append(older, RestOf(j))
  OBVIOUS
<1>7. /\ queue' = Kept(full)
      /\ lastAppliedMode' =
           IF RestOf(j).chain = <<>> THEN ModeAfter(j)
           ELSE IF \E k \in Evicted(full) : k.to = "released" THEN "released"
           ELSE lastAppliedMode
      /\ lost' = (lost \/ \E k \in Evicted(full) : Controls(k))
      /\ inflight' = NoJob /\ gap' = TRUE
      /\ UNCHANGED <<cs, wire, heard, requests>>
  BY <1>3, <1>5, <1>6 DEF WriteDone, RestOf
<1>8. /\ older \in Seq(Works) /\ Len(older) = Len(queue)
      /\ \A job : PipeOf(job, older) = PipeOf(job, queue)
      /\ AgesFall(older) /\ AgesWithin(older, MAX_JOB_AGE + w)
  <2>1. AgesFall(queue) /\ AgesWithin(queue, MAX_JOB_AGE)
    BY <1>1, <1>3, <1>4 DEF AgesOK
  <2>2. w \in Nat /\ MAX_JOB_AGE \in Nat /\ MAX_JOB_AGE + w \in Nat
    BY ControlLoopAssumption
  <2> QED BY <1>2, <1>5, <2>1, <2>2, PipeAged
<1>9. /\ full \in Seq(Works) /\ Len(full) <= MAX_QUEUE_DEPTH + 1
      /\ AgesFall(full) /\ AgesWithin(full, MAX_JOB_AGE + w)
  <2>1. CASE RestOf(j).chain = <<>>
    BY <1>2, <1>6, <1>8, <2>1, ControlLoopAssumption
  <2>2. CASE RestOf(j).chain # <<>>
    <3>1. RestOf(j) \in Works /\ RestOf(j).age = 0
      BY <2>2, RestIs
    <3>2. full = Append(older, RestOf(j))
      BY <1>6, <2>2
    <3>3. MAX_JOB_AGE + w \in Nat
      BY ControlLoopAssumption
    <3>4. /\ full \in Seq(Works) /\ AgesFall(full)
          /\ AgesWithin(full, MAX_JOB_AGE + w)
      BY <1>8, <3>1, <3>2, <3>3, QueuePushed
    <3>5. Len(full) = Len(older) + 1
      BY <1>8, <3>1, <3>2
    <3> QED BY <1>2, <1>8, <3>4, <3>5, ControlLoopAssumption
  <2> QED BY <2>1, <2>2
<1>10. /\ queue' \in Seq(Works) /\ Len(queue') <= MAX_QUEUE_DEPTH
       /\ AgesFall(queue') /\ AgesWithin(queue', MAX_JOB_AGE + WRITE_TIMEOUT)
  <2>1. /\ queue' \in Seq(Works) /\ Len(queue') <= MAX_QUEUE_DEPTH
        /\ AgesFall(queue') /\ AgesWithin(queue', MAX_JOB_AGE + w)
    <3>1. MAX_JOB_AGE + w \in Nat
      BY ControlLoopAssumption
    <3> QED BY <1>7, <1>9, <3>1, QueueKept
  <2>2. \A k \in Works : k.age \in Nat
    BY DEF Works
  <2>3. \A i \in DOMAIN queue' : queue'[i].age \in Nat
    BY <2>1, <2>2, ElementOfSeq
  <2>4. AgesWithin(queue', MAX_JOB_AGE + WRITE_TIMEOUT)
    BY <2>1, <2>3, ControlLoopAssumption DEF AgesWithin
  <2> QED BY <2>1, <2>4
<1>11. QueueOK' /\ AgesOK' /\ InflightTold'
  BY <1>1, <1>3, <1>4, <1>7, <1>10 DEF QueueOK, AgesOK, Idle, InflightTold
<1>12. StateOK'
  <2>1. lastAppliedMode' \in {"null", "released", "schedule", "manual"}
    <3>1. j.to \in {"released", "schedule", "manual", "poll"}
      BY DEF Works
    <3> QED BY <1>1, <1>7, <3>1 DEF StateOK, ModeAfter
  <2>2. lost' \in BOOLEAN
    BY <1>1, <1>7 DEF StateOK
  <2>3. gap' \in BOOLEAN
    BY <1>7
  <2> QED BY <1>1, <1>7, <2>1, <2>2, <2>3 DEF StateOK
<1>13. ASSUME ~lost'
       PROVE  /\ ~lost /\ \A k \in Evicted(full) : k \in Works /\ ~Controls(k)
              /\ Keeps(PipeOf(NoJob, full), Pipe')
  <2>1. ~lost /\ \A k \in Evicted(full) : ~Controls(k)
    BY <1>1, <1>7, <1>13 DEF StateOK
  <2>2. \A i \in 1 .. Len(full) - MAX_QUEUE_DEPTH : full[i] \in Works
    BY <1>9, ControlLoopAssumption, ElementOfSeq
  <2>3. Evicted(full) \subseteq Works
    BY <2>2 DEF Evicted
  <2> QED BY <1>7, <1>9, <2>1, <2>3, PipeEvicted DEF Pipe
<1>14. /\ Pipe = PipeOf(j, older)
       /\ \A S \in {Remotes, Runs, Speeds, Drives} :
            Finishes(PipeOf(j, older), PipeOf(NoJob, full), j, S)
  BY <1>3, <1>6, <1>8, PipeFinished DEF Pipe
<1>15. IntentComing'
  <2> SUFFICES ASSUME Driving(cs)', ~lost' PROVE Coming(Pipe, TargetRpm(cs))'
    BY DEF IntentComing
  <2>1. PICK t \in Targets :
             t = TargetRpm(cs) /\ TargetRpm(cs') = t /\ Coming(Pipe, t)
    BY <1>1, <1>7, <1>13, TargetType DEF IntentComing, StateOK
  <2>2. Coming(PipeOf(NoJob, full), t)
    BY <1>3, <1>4, <1>6, <1>8, <1>14, <2>1, FinishComing
  <2>3. \A f \in Frames : Told(f) => Told(f)'
    BY <1>7 DEF Told
  <2>4. /\ Told(Enable) => Told(Enable)'
        /\ Told(StartStop(t)) => Told(StartStop(t))'
        /\ t > 0 /\ Told(SetRpm(t)) => Told(SetRpm(t))'
    BY <1>7 DEF Told
  <2>5. Coming(Pipe, t)'
    BY <1>13, <2>2, <2>4, ComingKept
  <2> QED BY <2>1, <2>5 DEF Coming, RunComing, SpeedComing, Told
<1>16. ReleaseComing'
  <2> SUFFICES ASSUME ~lost', lastAppliedMode' = "released"
               PROVE  ~None(Pipe', Drives) \/ Told(Release)'
    BY DEF ReleaseComing
  <2>1. ~None(PipeOf(NoJob, full), Drives) => ~None(Pipe', Drives)
    BY <1>13 DEF Keeps
  <2>2. Finishes(PipeOf(j, older), PipeOf(NoJob, full), j, Drives)
    BY <1>14
  <2>3. CASE RestOf(j).chain # <<>>
    <3>1. RestOf(j).chain \in Drives
      BY <2>3, RestIs
    <3> QED BY <2>1, <2>2, <3>1 DEF Finishes
  <2>4. CASE RestOf(j).chain = <<>>
    <3>1. ModeAfter(j) = "released"
      BY <1>7, <2>4
    <3>2. CASE j.to = "poll"
      <4>1. lastAppliedMode = "released" /\ ~Controls(j)
        BY <3>1, <3>2 DEF ModeAfter, Controls
      <4>2. ~None(Pipe, Drives) \/ Told(Release)
        BY <1>1, <1>13, <4>1 DEF ReleaseComing
      <4>3. j.chain \notin Drives
        BY <4>1, Unstaged
      <4>4. ~None(Pipe, Drives) => ~None(PipeOf(NoJob, full), Drives)
        BY <1>14, <2>2, <4>3 DEF Finishes
      <4> QED BY <1>7, <2>1, <4>2, <4>4 DEF Told
    <3>3. CASE j.to # "poll"
      <4>1. j.chain = <<Release>>
        BY <3>1, <3>3 DEF ModeAfter, Works
      <4>2. g = Release
        BY <1>3, <4>1, ChainFrames
      <4> QED BY <1>4, <1>7, <4>2 DEF Told
    <3> QED BY <3>2, <3>3
  <2> QED BY <2>3, <2>4
<1> QED BY <1>11, <1>12, <1>15, <1>16 DEF IInv

\* The write in flight is flushed.
LEMMA FlushKeeps == ASSUME IInv, WriteFlushed PROVE IInv'
<1>1. inflight # NoJob
  BY DEF WriteFlushed
<1>2. CASE WriteDone(0) /\ UNCHANGED faults
  <2>1. faults' \in 0..MAX_FAULTS /\ 0 \in 0..WRITE_TIMEOUT
    BY <1>2, ControlLoopAssumption DEF IInv, StateOK
  <2> QED BY <1>1, <1>2, <2>1, DoneKeeps
<1>3. CASE WriteDone(WRITE_TIMEOUT - 1) /\ Fault
  <2>1. faults' \in 0..MAX_FAULTS /\ WRITE_TIMEOUT - 1 \in 0..WRITE_TIMEOUT
    BY <1>3, ControlLoopAssumption DEF IInv, StateOK, Fault
  <2> QED BY <1>1, <1>3, <2>1, DoneKeeps
<1> QED BY <1>2, <1>3 DEF WriteFlushed

-----------------------------------------------------------------------------
(* The control loop.                                                       *)

\* engine.start() begins with nothing on its way and the link down.
LEMMA InitKeeps == ASSUME Init PROVE IInv
<1>1. PICK m \in Modes, r \in Rpms, p \in Plans :
        cs = [controlMode |-> m, manualRpm |-> IF m = "manual" THEN r ELSE 0,
              scheduledRpm |-> p.rpm, scheduleActive |-> p.active,
              overrideUntil |-> "null", busConnected |-> FALSE]
  BY DEF Init
<1>2. p.rpm \in Rpms \cup {0} /\ p.active \in BOOLEAN
  <2>1. CASE p = NoPlan
    BY <2>1 DEF NoPlan
  <2>2. CASE p \in [active: {TRUE}, rpm: Rpms]
    BY <2>2
  <2> QED BY <2>1, <2>2 DEF Plans
<1>3. cs \in ControlStates /\ ~cs.busConnected
  <2>1. (IF m = "manual" THEN r ELSE 0) \in Rpms \cup {0}
    OBVIOUS
  <2> QED BY <1>1, <1>2, <2>1 DEF ControlStates
<1>4. StateOK
  <2>1. gap \in BOOLEAN /\ lost \in BOOLEAN
    BY DEF Init
  <2>2. heard \in [remote: BOOLEAN, running: BOOLEAN, rpm: Rpms \cup {0}]
    BY DEF Init
  <2>3. wire \in Seq(Frames)
    BY EmptySeq DEF Init
  <2>4. requests \in 0..MAX_REQUESTS /\ faults \in 0..MAX_FAULTS
    BY ControlLoopAssumption DEF Init
  <2> QED BY <1>3, <2>1, <2>2, <2>3, <2>4 DEF Init, StateOK
<1>5. QueueOK /\ AgesOK /\ InflightTold
  BY EmptySeq, ControlLoopAssumption
     DEF Init, QueueOK, AgesOK, AgesFall, AgesWithin, InflightTold
<1>6. IntentComing /\ ReleaseComing
  BY <1>3 DEF Init, IntentComing, ReleaseComing, Driving
<1> QED BY <1>4, <1>5, <1>6 DEF IInv

\* A step that runs apply(): jobs are what it sends.
Applies(jobs) ==
    /\ cs' \in ControlStates /\ Answers(jobs, cs') /\ Send(jobs)
    /\ jobs = <<>> /\ Driving(cs') =>
         Driving(cs) /\ TargetRpm(cs') = TargetRpm(cs)
    /\ BusUp \/ cs'.busConnected = cs.busConnected
    /\ ~cs.busConnected \/ cs'.busConnected
    /\ heard' = heard /\ faults' = faults
    /\ requests' = requests \/ Request

\* A change of the intent that is notified: apply() runs on the state s.
LEMMA NotifyApplies ==
    ASSUME NEW s \in ControlStates, Notify(s),
           BusUp \/ s.busConnected = cs.busConnected,
           ~cs.busConnected \/ s.busConnected,
           heard' = heard, faults' = faults, requests' = requests \/ Request
    PROVE  \E jobs : Applies(jobs)
<1>1. PICK jobs : jobs = Apply(s)
  OBVIOUS
<1>2. cs' = Applied(s) /\ Send(jobs)
  BY <1>1 DEF Notify
<1>3. /\ cs' \in ControlStates /\ cs'.busConnected = s.busConnected
      /\ Answers(jobs, cs') /\ ~(jobs = <<>> /\ Driving(cs'))
  BY <1>1, <1>2, ApplyAnswers
<1> QED BY <1>2, <1>3 DEF Applies

\* The handlers that change the intent, the two timers and the link that run
\* apply() all send what it answers.
LEMMA HandlersApply ==
    ASSUME cs \in ControlStates,
           \/ \E r \in Rpms, timed \in BOOLEAN : SetManual(r, timed)
           \/ ResumeSchedule \/ SetOff
           \/ \E p \in Plans : SchedulerTick(p)
           \/ KeepAlive \/ BusUp
    PROVE  \E jobs : Applies(jobs)
<1>1. ASSUME NEW r \in Rpms, NEW timed \in BOOLEAN, SetManual(r, timed)
      PROVE  \E jobs : Applies(jobs)
  <2>1. PICK u \in {"ahead", "null"} : u = IF timed THEN "ahead" ELSE "null"
    OBVIOUS
  <2>2. PICK s : s = [cs EXCEPT !.controlMode = "manual", !.manualRpm = r,
                                !.overrideUntil = u]
    OBVIOUS
  <2>3. s \in ControlStates /\ s.busConnected = cs.busConnected
    BY <2>2 DEF ControlStates, Modes
  <2>4. Notify(s) /\ Request
    BY <1>1, <2>1, <2>2 DEF SetManual
  <2> QED BY <2>3, <2>4, NotifyApplies DEF Request
<1>2. CASE ResumeSchedule
  <2>1. PICK s : s = [cs EXCEPT !.controlMode = "schedule",
                                !.overrideUntil = "null"]
    OBVIOUS
  <2>2. s \in ControlStates /\ s.busConnected = cs.busConnected
    BY <2>1 DEF ControlStates, Modes
  <2>3. Notify(s) /\ Request
    BY <1>2, <2>1 DEF ResumeSchedule
  <2> QED BY <2>2, <2>3, NotifyApplies DEF Request
<1>3. CASE SetOff
  <2>1. PICK s : s = [cs EXCEPT !.controlMode = "off", !.overrideUntil = "null"]
    OBVIOUS
  <2>2. s \in ControlStates /\ s.busConnected = cs.busConnected
    BY <2>1 DEF ControlStates, Modes
  <2>3. Notify(s) /\ Request
    BY <1>3, <2>1 DEF SetOff
  <2> QED BY <2>2, <2>3, NotifyApplies DEF Request
<1>4. ASSUME NEW p \in Plans, SchedulerTick(p) PROVE \E jobs : Applies(jobs)
  <2>1. PICK s1 : s1 = SetScheduleActive(cs, p.active)
    OBVIOUS
  <2>2. PICK s2 : s2 = SetScheduledRpm(s1, p.rpm)
    OBVIOUS
  <2>3. PICK jobs : jobs = Notified(cs, s1) \o Notified(s1, s2)
    OBVIOUS
  <2>4. s2 # cs /\ Request /\ cs' = s2 /\ Send(jobs)
    BY <1>4, <2>1, <2>2, <2>3 DEF SchedulerTick
  <2>5. /\ s2 \in ControlStates /\ s2.busConnected = cs.busConnected
        /\ Answers(jobs, s2)
        /\ jobs = <<>> /\ Driving(s2) =>
             Driving(cs) /\ TargetRpm(s2) = TargetRpm(cs)
    BY <2>1, <2>2, <2>3, <2>4, TickAnswers
  <2>6. Applies(jobs)
    BY <2>4, <2>5 DEF Applies, Request
  <2> QED BY <2>6
<1>5. CASE KeepAlive
  <2>1. PICK s \in ControlStates : s = cs
    OBVIOUS
  <2>2. Notify(s) /\ UNCHANGED <<heard, bounds>>
    BY <1>5, <2>1 DEF KeepAlive, Notify
  <2> QED BY <2>1, <2>2, NotifyApplies DEF bounds
<1>6. CASE BusUp
  <2>1. PICK s : s = [cs EXCEPT !.busConnected = TRUE]
    OBVIOUS
  <2>2. Notify(s) /\ UNCHANGED <<heard, bounds>>
    BY <1>6, <2>1 DEF BusUp
  <2>3. s \in ControlStates /\ s.busConnected
    BY <2>1 DEF ControlStates
  <2> QED BY <1>6, <2>2, <2>3, NotifyApplies DEF bounds
<1> QED BY <1>1, <1>2, <1>3, <1>4, <1>5, <1>6

\* What apply() sends keeps the invariant.
LEMMA AppliesKeeps == ASSUME IInv, NEW jobs, Applies(jobs) PROVE IInv'
<1>1. requests' \in 0..MAX_REQUESTS /\ faults' \in 0..MAX_FAULTS
  BY ControlLoopAssumption DEF Applies, Request, IInv, StateOK
<1> QED BY <1>1, Answered DEF Applies

\* A step of the guardian or the pump leaves the control loop alone.
LEMMA StutterKeeps == ASSUME IInv, UNCHANGED vars PROVE IInv'
<1>1. /\ UNCHANGED <<cs, lastAppliedMode, queue, inflight, gap, wire>>
      /\ UNCHANGED <<heard, lost, requests, faults>>
  BY DEF vars, frames, bounds
<1>2. StateOK' /\ QueueOK' /\ AgesOK'
  BY <1>1 DEF IInv, StateOK, QueueOK, AgesOK, Idle
<1>3. Pipe' = Pipe /\ \A f : Told(f)' <=> Told(f)
  BY <1>1 DEF Pipe, PipeOf, Told
<1>4. InflightTold' /\ ReleaseComing'
  BY <1>1, <1>3 DEF IInv, InflightTold, ReleaseComing, Told
<1>5. IntentComing'
  BY <1>1, <1>3
     DEF IInv, IntentComing, Coming, RunComing, SpeedComing, Told
<1> QED BY <1>2, <1>4, <1>5 DEF IInv

\* Every step of the control loop keeps the invariant.
LEMMA StepKeeps == ASSUME IInv, [Next]_vars PROVE IInv'
<1>1. CASE \/ \E r \in Rpms, timed \in BOOLEAN : SetManual(r, timed)
           \/ ResumeSchedule \/ SetOff
           \/ \E p \in Plans : SchedulerTick(p)
           \/ KeepAlive \/ BusUp
  BY <1>1, HandlersApply, AppliesKeeps DEF IInv, StateOK
<1>2. CASE OverridePasses
  BY <1>2, OverrideKeeps
<1>3. CASE Poll
  BY <1>3, PollKeeps
<1>4. CASE BusDown
  BY <1>4, DownKeeps
<1>5. CASE WriteFlushed
  BY <1>5, FlushKeeps
<1>6. CASE WriteTimesOut
  BY <1>6, TimesOutKeeps
<1>7. CASE GapOver
  BY <1>7, GapKeeps
<1>8. CASE Deliver
  BY <1>8, DeliverKeeps
<1>9. CASE UNCHANGED vars
  BY <1>9, StutterKeeps
<1> QED BY <1>1, <1>2, <1>3, <1>4, <1>5, <1>6, <1>7, <1>8, <1>9 DEF Next

\* The invariant says more than the type.
LEMMA TypeFollows == ASSUME IInv PROVE TypeOK
<1>1. Works \subseteq Jobs
  <2>1. Enables \cup Runs \cup Speeds \subseteq Seq(Frames)
    <3>1. \A t \in Targets : t > 0 => t \in Rpms
      BY DEF Targets
    <3>2. \A t \in Targets : First(t) \in Seq(Frames) /\ Second(t) \in Seq(Frames)
      BY <3>1, FrameCommands DEF First, Second
    <3>3. \A t \in Rpms : Third(t) \in Seq(Frames)
      BY FrameCommands DEF Third
    <3> QED BY <3>2, <3>3 DEF Enables, Runs, Speeds
  <2>2. <<Release>> \in Seq(Frames) /\ <<StatusRequest>> \in Seq(Frames)
    BY FrameCommands
  <2>3. Drives \subseteq Seq(Frames)
    BY <2>1 DEF Drives
  <2> HIDE DEF Drives, Frames
  <2> QED BY <2>2, <2>3 DEF Works, Jobs
<1>2. queue \in Seq(Works) /\ inflight \in Works \cup {NoJob}
  BY DEF IInv, QueueOK
<1>3. queue \in Seq(Jobs)
  <2>1. \A i \in 1..Len(queue) : queue[i] \in Jobs
    BY <1>1, <1>2, ElementOfSeq
  <2> QED BY <1>2, <2>1, IsASeq
<1> QED BY <1>1, <1>2, <1>3
        DEF IInv, StateOK, QueueOK, AgesOK, AgesWithin, TypeOK

\* What is still to come is what the far end was told, when nothing is.
LEMMA QuietMeans ==
    ASSUME IInv, Quiet
    PROVE  /\ \A S : <<>> \notin S => None(Pipe, S)
           /\ \A f \in Frames : Told(f) => Hear(heard, f) = heard
<1>1. wire = <<>> /\ inflight = NoJob /\ queue = <<>>
  BY DEF IInv, QueueOK, Quiet, Idle
<1>2. Pipe = PipeOf(NoJob, <<>>) /\ NoJob.chain = <<>>
  BY <1>1 DEF Pipe, NoJob
<1>3. \A S : <<>> \notin S => None(Pipe, S)
  BY <1>2, PipeSingle
<1>4. \A f \in Frames : ~Ends(wire, Same(f), f)
  BY <1>1, EmptySeq DEF Ends
<1> QED BY <1>3, <1>4 DEF Told

\* With nothing on its way, what was to come has been heard.
LEMMA LatestFollows == ASSUME IInv PROVE LatestIntentWins
<1> SUFFICES ASSUME Quiet, ~lost
             PROVE  /\ cs.busConnected /\ ~ReleaseToOnboard(cs) => Driven(cs)
                    /\ lastAppliedMode = "released" => ~heard.remote
  BY DEF LatestIntentWins
<1>1. /\ cs \in ControlStates
      /\ heard \in [remote: BOOLEAN, running: BOOLEAN, rpm: Rpms \cup {0}]
  BY DEF IInv, StateOK
<1>2. /\ \A S \in {Remotes, Runs, Speeds, Drives} : None(Pipe, S)
      /\ \A f \in Frames : Told(f) => Hear(heard, f) = heard
  BY QuietMeans, Stages
<1>3. ASSUME lastAppliedMode = "released" PROVE ~heard.remote
  <2>1. Hear(heard, Release) = heard
    BY <1>2, <1>3, FrameCommands DEF IInv, ReleaseComing
  <2>2. ~Hear(heard, Release).remote
    <3>1. Release.cmd = "remote" /\ ~(Release.val = 1)
      BY FrameCommands
    <3>2. Hear(heard, Release) = [heard EXCEPT !.remote = (Release.val = 1)]
      BY <3>1 DEF Hear
    <3>3. Hear(heard, Release).remote = (Release.val = 1)
      BY <1>1, <3>2
    <3> QED BY <3>1, <3>3
  <2> QED BY <2>1, <2>2
<1>4. ASSUME Driving(cs) PROVE Driven(cs)
  <2>1. PICK t \in Targets : t = TargetRpm(cs) /\ Coming(Pipe, t)
    BY <1>1, <1>4, TargetType DEF IInv, IntentComing
  <2>2. First(t) \in Remotes /\ Second(t) \in Runs /\ (t > 0 => Third(t) \in Speeds)
    BY ChainSteps DEF Remotes
  <2>3. \A S, e : None(Pipe, S) /\ e \in S => ~Ends(Pipe, S, e)
    BY DEF None, Ends
  <2>4. Told(Enable) /\ RunComing(Pipe, t)
    BY <1>2, <2>1, <2>2, <2>3 DEF Coming
  <2>5. Told(StartStop(t)) /\ (t > 0 => SpeedComing(Pipe, t))
    BY <1>2, <2>2, <2>3, <2>4 DEF RunComing
  <2>6. t > 0 => Told(SetRpm(t))
    BY <1>2, <2>2, <2>3, <2>5 DEF SpeedComing
  <2>7. heard.remote
    <3>1. Hear(heard, Enable) = heard
      BY <1>2, <2>4, FrameCommands
    <3>2. Hear(heard, Enable).remote = TRUE
      BY <1>1, FrameCommands DEF Hear
    <3> QED BY <3>1, <3>2
  <2>8. CASE t > 0
    <3>1. Run \in Frames /\ SetRpm(t) \in Frames
      BY <2>8, FrameCommands DEF Targets
    <3>2. Hear(heard, Run) = heard /\ Hear(heard, SetRpm(t)) = heard
      BY <1>2, <2>5, <2>6, <2>8, <3>1 DEF StartStop
    <3>3. Hear(heard, Run).running = TRUE /\ Hear(heard, SetRpm(t)).rpm = t
      BY <1>1, FrameCommands DEF Hear
    <3>4. heard.running /\ heard.rpm = t
      BY <3>2, <3>3
    <3> QED BY <2>1, <2>7, <2>8, <3>4 DEF Driven
  <2>9. CASE ~(t > 0)
    <3>1. Hear(heard, Stop) = heard
      BY <1>2, <2>5, <2>9, FrameCommands DEF StartStop
    <3>2. ~Hear(heard, Stop).running
      <4>1. Stop.cmd = "run" /\ ~(Stop.val = 1)
        BY FrameCommands
      <4>2. Hear(heard, Stop) = [heard EXCEPT !.running = (Stop.val = 1)]
        BY <4>1 DEF Hear
      <4>3. Hear(heard, Stop).running = (Stop.val = 1)
        BY <1>1, <4>2
      <4> QED BY <4>1, <4>3
    <3>3. ~heard.running
      BY <3>1, <3>2
    <3> QED BY <2>1, <2>7, <2>9, <3>3 DEF Driven
  <2> QED BY <2>8, <2>9
<1> QED BY <1>3, <1>4 DEF Driving

\* ControlLoop: the queue of pool-api is bounded in length and in age, whatever
\* chains apply() starts and however long a write takes.
THEOREM LoopTypeCorrect == Spec => []TypeOK
<1>1. Spec => []IInv
  BY InitKeeps, StepKeeps, PTL DEF Spec
<1> QED BY <1>1, TypeFollows, PTL

\* ControlLoop: when all is quiet and no frame was lost, the pump was told the
\* latest intent, although nothing serialises the chains of apply(); and a
\* release the engine has ticked off was heard.
THEOREM LoopLatestIntentWins == Spec => []LatestIntentWins
<1>1. Spec => []IInv
  BY InitKeeps, StepKeeps, PTL DEF Spec
<1> QED BY <1>1, LatestFollows, PTL

-----------------------------------------------------------------------------
(* The chain of fallbacks.                                                 *)

\* The queue keeps a chain that is not among the evicted.
LEMMA EnableKept ==
    ASSUME NEW q \in Seq(Works), NEW i \in 1..Len(q), q[i].chain \in Enables,
           \A j \in Evicted(q) : ~Controls(j)
    PROVE  \E k \in DOMAIN Kept(q) : Kept(q)[k].chain \in Enables
<1>1. CASE Len(q) <= MAX_QUEUE_DEPTH
  BY <1>1 DEF Kept
<1>2. CASE Len(q) > MAX_QUEUE_DEPTH
  <2> DEFINE d == Len(q) - MAX_QUEUE_DEPTH
  <2>1. /\ d \in 0..Len(q) /\ Kept(q) = SubSeq(q, d + 1, Len(q))
        /\ Evicted(q) = {q[k] : k \in 1..d}
    BY <1>2, ControlLoopAssumption DEF Kept, Evicted
  <2> HIDE DEF d
  <2>2. i \notin 1..d
    <3>1. q[i] \in Works
      BY ElementOfSeq
    <3>2. Controls(q[i])
      BY <3>1, Unstaged
    <3> QED BY <2>1, <3>2
  <2>3. /\ Len(Kept(q)) = Len(q) - d /\ Kept(q) \in Seq(Works)
        /\ \A k \in 1..Len(Kept(q)) : Kept(q)[k] = q[k + d]
    BY <2>1, QueueShortened
  <2>4. /\ i - d \in 1 .. Len(q) - d /\ (i - d) + d = i
        /\ DOMAIN Kept(q) = 1 .. Len(q) - d
    BY <2>1, <2>2, <2>3
  <2>5. Kept(q)[i - d] = q[i]
    BY <2>3, <2>4
  <2> QED BY <2>4, <2>5
<1> QED BY <1>1, <1>2, ControlLoopAssumption

\* What apply() sends to drive enables remote control anew.
LEMMA SendEnables ==
    ASSUME QueueOK, StateOK, cs' \in ControlStates,
           NEW jobs, Answers(jobs, cs'), jobs # <<>>, Send(jobs), Driving(cs'),
           ~lost'
    PROVE  EnableComing'
<1>1. /\ jobs \in Seq(Works) /\ Len(jobs) \in 1..2
      /\ jobs[Len(jobs)].chain \in Enables
  <2>1. TargetRpm(cs') \in Targets
    BY TargetType
  <2> QED BY <2>1, NonEmpty, ChainSteps DEF Answers
<1>2. cs'.busConnected
  BY DEF Driving
<1>3. CASE Idle /\ Len(jobs) = 1
  <2>1. Head(jobs) = jobs[1] /\ Head(jobs).chain \in Enables
    BY <1>1, <1>3
  <2>2. Head(Head(jobs).chain) = Enable
    BY <2>1, ChainFrames
  <2>3. wire' = Append(wire, Enable)
    BY <1>2, <1>3, <2>2 DEF Send, Write
  <2>4. Len(wire) + 1 \in DOMAIN wire' /\ wire'[Len(wire) + 1] = Enable
    BY <2>3, FrameCommands DEF StateOK
  <2> QED BY <2>4 DEF EnableComing
<1>4. CASE Idle /\ Len(jobs) = 2
  <2>1. queue' = Tail(jobs)
    BY <1>4 DEF Send
  <2>2. 1 \in DOMAIN Tail(jobs) /\ Tail(jobs)[1] = jobs[Len(jobs)]
    BY <1>1, <1>4
  <2> QED BY <1>1, <2>1, <2>2 DEF EnableComing
<1>5. CASE ~Idle
  <2> DEFINE q == queue \o jobs
  <2>1. queue' = Kept(q) /\ Reject(Evicted(q))
    BY <1>5 DEF Send
  <2>2. /\ q \in Seq(Works) /\ Len(q) = Len(queue) + Len(jobs)
        /\ q[Len(q)] = jobs[Len(jobs)] /\ Len(q) \in 1..Len(q)
    <3>1. queue \in Seq(Works)
      BY DEF QueueOK
    <3> QED BY <1>1, <3>1
  <2> HIDE DEF q
  <2>3. \A j \in Evicted(q) : ~Controls(j)
    BY <2>1 DEF Reject
  <2> QED BY <1>1, <2>1, <2>2, <2>3, EnableKept DEF EnableComing
<1> QED BY <1>1, <1>3, <1>4, <1>5

\* An answered change of the intent: what was coming before is of no matter.
LEMMA AnsweredDrives ==
    ASSUME IInv, cs' \in ControlStates,
           NEW jobs, Answers(jobs, cs'), Send(jobs),
           jobs = <<>> /\ Driving(cs') =>
              Driving(cs) /\ TargetRpm(cs') = TargetRpm(cs),
           Driving(cs'), ~lost'
    PROVE  EnableComing' \/ (Driving(cs) /\ ~lost /\ (EnableComing => EnableComing'))
<1>1. CASE jobs # <<>>
  BY <1>1, SendEnables DEF IInv
<1>2. CASE jobs = <<>>
  <2>1. UNCHANGED <<queue, wire, lost>>
    BY <1>2 DEF Send, frames
  <2> QED BY <1>2, <2>1 DEF EnableComing
<1> QED BY <1>1, <1>2

\* A step of the loop that leaves the app driving: it enables remote control
\* anew, or it drove before, and a chain that was about to enable it still is.
LEMMA LoopDrives ==
    ASSUME IInv, LoopStep \/ BusUp \/ UNCHANGED vars, Driving(cs'), ~lost'
    PROVE  EnableComing' \/ (Driving(cs) /\ ~lost /\ ~EnableComing)
<1>1. /\ StateOK /\ QueueOK /\ queue \in Seq(Works) /\ wire \in Seq(Frames)
      /\ lost \in BOOLEAN
  BY DEF IInv, StateOK, QueueOK
<1>2. ASSUME NEW jobs, Applies(jobs)
      PROVE  EnableComing' \/ (Driving(cs) /\ ~lost /\ ~EnableComing)
  BY <1>2, AnsweredDrives DEF Applies
<1>3. ASSUME UNCHANGED <<queue, wire, lost>>, Driving(cs)
      PROVE  EnableComing' \/ (Driving(cs) /\ ~lost /\ ~EnableComing)
  BY <1>3 DEF EnableComing
<1>4. CASE OverridePasses
  <2>1. /\ cs' = [cs EXCEPT !.overrideUntil = "past"]
        /\ UNCHANGED <<queue, wire, lost>>
    BY <1>4 DEF OverridePasses, frames
  <2>2. Driving(cs)
    BY <1>1, <2>1 DEF StateOK, ControlStates, Driving, ReleaseToOnboard
  <2> QED BY <1>3, <2>1, <2>2
<1>5. CASE Poll
  <2>1. PICK j \in Works : j.chain = <<StatusRequest>> /\ Send(<<j>>)
                             /\ ~Controls(j)
    <3>1. Job(<<StatusRequest>>, "poll") \in Works
             /\ Job(<<StatusRequest>>, "poll").chain = <<StatusRequest>>
             /\ ~Controls(Job(<<StatusRequest>>, "poll"))
      BY DEF Job, Works, Controls
    <3> QED BY <1>5, <3>1 DEF Poll
  <2>2. Driving(cs) /\ heard' = heard
    BY <1>5 DEF Poll, Request
  <2>3. ~lost
    BY <1>1, <2>1, <2>2, SendPolls
  <2>4. ASSUME EnableComing PROVE EnableComing'
    <3>1. CASE \E i \in DOMAIN wire : wire[i] = Enable
      <4>1. CASE wire' = wire
        BY <3>1, <4>1 DEF EnableComing
      <4>2. CASE wire' = Append(wire, StatusRequest)
        <5>1. \A i \in DOMAIN wire : i \in DOMAIN wire' /\ wire'[i] = wire[i]
          BY <1>1, <4>2, FrameCommands
        <5> QED BY <3>1, <5>1 DEF EnableComing
      <4>3. Head(j.chain) = StatusRequest
        BY <2>1, ChainFrames
      <4> QED BY <2>1, <4>1, <4>2, <4>3 DEF Send, Write
    <3>2. CASE \E i \in DOMAIN queue : queue[i].chain \in Enables
      <4>1. PICK i \in 1..Len(queue) : queue[i].chain \in Enables
        BY <1>1, <3>2
      <4>2. ~Idle
        BY <1>1, <4>1, EmptySeq DEF QueueOK
      <4> DEFINE q == queue \o <<j>>
      <4>3. queue' = Kept(q) /\ Reject(Evicted(q))
        BY <2>1, <4>2 DEF Send
      <4>4. q \in Seq(Works) /\ i \in 1..Len(q) /\ q[i] = queue[i]
        BY <1>1
      <4> HIDE DEF q
      <4>5. \A k \in Evicted(q) : ~Controls(k)
        BY <4>3 DEF Reject
      <4> QED BY <4>1, <4>3, <4>4, <4>5, EnableKept DEF EnableComing
    <3> QED BY <2>4, <3>1, <3>2 DEF EnableComing
  <2> QED BY <2>2, <2>3, <2>4
<1>6. CASE BusDown
  <2>1. ~cs'.busConnected
    BY <1>1, <1>6 DEF BusDown, StateOK, ControlStates
  <2> QED BY <2>1 DEF Driving
<1>7. ASSUME NEW w \in 0..WRITE_TIMEOUT, WriteDone(w)
      PROVE  EnableComing' \/ (Driving(cs) /\ ~lost /\ ~EnableComing)
  <2>1. PICK older :
          older = [i \in DOMAIN queue |-> [queue[i] EXCEPT !.age = @ + w]]
    OBVIOUS
  <2>2. PICK full : full = IF RestOf(inflight).chain = <<>> THEN older
                           ELSE Append(older, RestOf(inflight))
    OBVIOUS
  <2>3. /\ queue' = Kept(full) /\ cs' = cs /\ wire' = wire
        /\ lost' = (lost \/ \E k \in Evicted(full) : Controls(k))
    BY <1>7, <2>1, <2>2 DEF WriteDone, RestOf
  <2>4. Driving(cs) /\ ~lost /\ \A k \in Evicted(full) : ~Controls(k)
    BY <2>3
  <2>5. ASSUME NEW i \in 1..Len(queue), queue[i].chain \in Enables
        PROVE  EnableComing'
    <3>1. /\ older \in Seq(Works) /\ Len(older) = Len(queue)
          /\ PipeOf(NoJob, older) = PipeOf(NoJob, queue)
      <4>1. w \in Nat
        BY ControlLoopAssumption
      <4> QED BY <1>1, <2>1, <4>1, PipeAged
    <3>2. older[i].chain = queue[i].chain
      <4>1. /\ PipeOf(NoJob, older)[i] = older[i].chain
            /\ PipeOf(NoJob, queue)[i] = queue[i].chain
        BY <3>1, PipeIs
      <4> QED BY <3>1, <4>1
    <3>3. /\ (inflight \in Works /\ RestOf(inflight).chain # <<>>) =>
               RestOf(inflight) \in Works
          /\ inflight = NoJob => RestOf(inflight).chain = <<>>
      <4>1. inflight = NoJob => RestOf(inflight).chain = <<>>
        BY DEF RestOf, NoJob
      <4> QED BY <4>1, RestIs
    <3>4. full \in Seq(Works) /\ i \in 1..Len(full) /\ full[i] = older[i]
      BY <1>1, <2>2, <3>1, <3>3 DEF QueueOK
    <3> QED BY <2>3, <2>4, <2>5, <3>2, <3>4, EnableKept DEF EnableComing
  <2>6. ASSUME EnableComing PROVE EnableComing'
    <3>1. CASE \E i \in DOMAIN wire : wire[i] = Enable
      BY <2>3, <3>1 DEF EnableComing
    <3>2. CASE \E i \in DOMAIN queue : queue[i].chain \in Enables
      BY <1>1, <2>5, <3>2
    <3> QED BY <2>6, <3>1, <3>2 DEF EnableComing
  <2> QED BY <2>4, <2>6
<1>8. CASE WriteFlushed
  BY <1>7, <1>8, ControlLoopAssumption DEF WriteFlushed
<1>9. CASE WriteTimesOut
  <2>1. /\ queue' = [i \in DOMAIN queue |->
                       [queue[i] EXCEPT !.age = @ + WRITE_TIMEOUT]]
        /\ cs' = cs /\ wire' = wire /\ Reject({inflight})
    BY <1>9 DEF WriteTimesOut, WriteFailed
  <2>2. /\ Len(queue') = Len(queue) /\ queue' \in Seq(Works)
        /\ PipeOf(NoJob, queue') = PipeOf(NoJob, queue)
    BY <1>1, <2>1, PipeAged, ControlLoopAssumption
  <2>3. \A i \in 1..Len(queue) : queue'[i].chain = queue[i].chain
    <3>1. /\ \A i \in 1..Len(queue) :
               PipeOf(NoJob, queue')[i] = queue'[i].chain
          /\ \A i \in 1..Len(queue) : PipeOf(NoJob, queue)[i] = queue[i].chain
      BY <1>1, <2>2, PipeIs
    <3> QED BY <2>2, <3>1
  <2>4. EnableComing => EnableComing'
    <3>1. \A i \in DOMAIN queue :
             i \in DOMAIN queue' /\ queue'[i].chain = queue[i].chain
      BY <1>1, <2>2, <2>3
    <3> QED BY <2>1, <3>1 DEF EnableComing
  <2>5. Driving(cs) /\ ~lost
    BY <1>1, <2>1 DEF Reject
  <2> QED BY <2>4, <2>5
<1>10. CASE GapOver
  <2>1. cs' = cs
    BY <1>10 DEF GapOver
  <2> DEFINE Dead(n) == {queue[i] : i \in 1..n}
  <2>2. PICK n \in 0..Len(queue) :
          \/ n = Len(queue) /\ Reject(Dead(n)) /\ wire' = wire
          \/ /\ n < Len(queue)
             /\ queue' = SubSeq(queue, n + 2, Len(queue))
             /\ Write(queue[n + 1])
             /\ Reject(Dead(n) \cup IF cs.busConnected THEN {}
                                    ELSE {queue[n + 1]})
    BY <1>10 DEF GapOver
  <2>3. ~lost /\ \A i \in 1..n : queue[i].chain \notin Enables
    <3>1. ~lost /\ \A j \in Dead(n) : ~Controls(j)
      BY <1>1, <2>2 DEF Reject
    <3>2. \A i \in 1..n : queue[i] \in Works /\ queue[i] \in Dead(n)
      BY <1>1, ElementOfSeq
    <3> QED BY <3>1, <3>2, Unstaged
  <2>4. CASE n = Len(queue) /\ wire' = wire
    BY <1>1, <2>1, <2>3, <2>4 DEF EnableComing
  <2>5. CASE /\ n < Len(queue)
             /\ queue' = SubSeq(queue, n + 2, Len(queue))
             /\ Write(queue[n + 1])
    <3> DEFINE d == n + 1
    <3>1. d \in 1..Len(queue) /\ queue' = SubSeq(queue, d + 1, Len(queue))
      BY <1>1, <2>5
    <3>2. PICK j \in Works, g \in Frames : j = queue[d] /\ g = Head(j.chain)
      BY <1>1, <3>1, ElementOfSeq, Unstaged
    <3>3. wire' = Append(wire, g)
      BY <2>1, <2>5, <3>2 DEF Write, Driving
    <3>4. \A i \in DOMAIN wire : i \in DOMAIN wire' /\ wire'[i] = wire[i]
      BY <1>1, <3>3
    <3>5. Len(wire) + 1 \in DOMAIN wire' /\ wire'[Len(wire) + 1] = g
      BY <1>1, <3>3
    <3> HIDE DEF d
    <3>6. /\ queue' \in Seq(Works) /\ Len(queue') = Len(queue) - d
          /\ \A k \in 1..Len(queue') : queue'[k] = queue[k + d]
      BY <1>1, <3>1, QueueShortened
    <3>7. ASSUME NEW i \in 1..Len(queue), queue[i].chain \in Enables
          PROVE  EnableComing'
      <4>1. i >= d
        BY <2>3, <3>7 DEF d
      <4>2. CASE i = d
        <5>1. g = Enable
          BY <3>2, <3>7, <4>2, ChainFrames
        <5> QED BY <3>5, <5>1 DEF EnableComing
      <4>3. CASE i > d
        <5>1. i - d \in 1..Len(queue') /\ (i - d) + d = i
          BY <3>1, <3>6, <4>3
        <5>2. queue'[i - d] = queue[i] /\ i - d \in DOMAIN queue'
          BY <3>6, <5>1
        <5> QED BY <3>7, <5>2 DEF EnableComing
      <4> QED BY <3>1, <4>1, <4>2, <4>3
    <3>8. EnableComing => EnableComing'
      <4>1. CASE \E i \in DOMAIN wire : wire[i] = Enable
        BY <3>4, <4>1 DEF EnableComing
      <4>2. CASE \E i \in DOMAIN queue : queue[i].chain \in Enables
        BY <1>1, <3>7, <4>2
      <4> QED BY <4>1, <4>2 DEF EnableComing
    <3> QED BY <2>1, <2>3, <3>8
  <2> QED BY <2>2, <2>4, <2>5
<1>11. CASE UNCHANGED vars
  BY <1>3, <1>11 DEF vars, frames
<1>12. CASE \/ \E r \in Rpms, timed \in BOOLEAN : SetManual(r, timed)
            \/ ResumeSchedule \/ SetOff
            \/ \E p \in Plans : SchedulerTick(p)
            \/ BusUp
  BY <1>1, <1>2, <1>12, HandlersApply DEF StateOK
<1> QED BY <1>4, <1>5, <1>6, <1>8, <1>9, <1>10, <1>11, <1>12 DEF LoopStep

\* The keep-alive of an app that drives enables remote control anew.
LEMMA PeriodDrives ==
    ASSUME IInv, KeepAlive, Driving(cs'), ~lost' PROVE EnableComing'
<1>1. PICK s \in ControlStates : s = cs
  BY DEF IInv, StateOK
<1>2. PICK jobs : jobs = Apply(s)
  OBVIOUS
<1>3. cs' = Applied(s) /\ Send(jobs)
  BY <1>1, <1>2 DEF KeepAlive
<1>4. cs' \in ControlStates /\ Answers(jobs, cs') /\ jobs # <<>>
  BY <1>2, <1>3, ApplyAnswers
<1> QED BY <1>3, <1>4, SendEnables DEF IInv

\* A frame that arrives is the one that enables remote control, or that one
\* still comes.
LEMMA RelayDrives ==
    ASSUME IInv, Deliver, EnableComing PROVE EnableComing' \/ Head(wire) = Enable
<1>1. wire \in Seq(Frames) /\ wire # <<>> /\ wire' = Tail(wire) /\ queue' = queue
  BY DEF IInv, StateOK, Deliver
<1>2. \A i \in DOMAIN wire :
        i = 1 \/ (i - 1 \in DOMAIN wire' /\ wire'[i - 1] = wire[i])
  BY <1>1
<1>3. Head(wire) = wire[1]
  BY <1>1
<1> QED BY <1>1, <1>2, <1>3 DEF EnableComing

\* A restart leaves nothing on its way and the link down.
LEMMA RestartKeeps == ASSUME IInv, AppRestarts PROVE IInv'
<1>1. /\ cs' = [cs EXCEPT !.busConnected = FALSE, !.overrideUntil = "null"]
      /\ lastAppliedMode' = "null"
      /\ queue' = <<>> /\ inflight' = NoJob /\ gap' = FALSE /\ wire' = <<>>
      /\ lost' = (lost \/ ~Idle \/ wire # <<>>)
      /\ Fault /\ UNCHANGED <<heard, requests>>
  BY DEF AppRestarts
<1>2. cs' \in ControlStates /\ ~cs'.busConnected
  BY <1>1 DEF IInv, StateOK, ControlStates
<1>3. StateOK'
  <2>1. gap' \in BOOLEAN
    BY <1>1
  <2>2. lost' \in BOOLEAN
    BY <1>1
  <2>3. faults' \in 0..MAX_FAULTS
    BY <1>1, ControlLoopAssumption DEF Fault, IInv, StateOK
  <2>4. wire' \in Seq(Frames)
    BY <1>1
  <2>5. lastAppliedMode' \in {"null", "released", "schedule", "manual"}
    BY <1>1
  <2> QED BY <1>1, <1>2, <2>1, <2>2, <2>3, <2>4, <2>5 DEF IInv, StateOK
<1>4. QueueOK' /\ AgesOK' /\ InflightTold'
  BY <1>1, EmptySeq, ControlLoopAssumption
     DEF QueueOK, AgesOK, AgesFall, AgesWithin, InflightTold
<1>5. IntentComing' /\ ReleaseComing'
  BY <1>1, <1>2 DEF IntentComing, ReleaseComing, Driving
<1> QED BY <1>3, <1>4, <1>5 DEF IInv

\* Every step of the chain is a step of the control loop, or a restart.
LEMMA FStepIs ==
    ASSUME [FNext]_all PROVE [Next]_vars \/ AppRestarts
<1>1. Connects => Next
  BY DEF Connects, Next
<1>2. ClientClosed \/ Ceiling => UNCHANGED vars
  BY DEF ClientClosed, Ceiling
<1>3. Relays => Next
  BY DEF Relays, Next
<1>4. Period => Next
  BY DEF Period, Next
<1>5. LoopStep => Next
  BY DEF LoopStep, Next
<1>6. UNCHANGED all => UNCHANGED vars
  BY DEF all
<1> QED BY <1>1, <1>2, <1>3, <1>4, <1>5, <1>6 DEF FNext

\* Only a delivery changes what the far end was told.
LEMMA HeardIsKept ==
    ASSUME cs \in ControlStates, [Next]_vars PROVE Deliver \/ heard' = heard
<1>1. CASE \/ \E r \in Rpms, timed \in BOOLEAN : SetManual(r, timed)
           \/ ResumeSchedule \/ SetOff
           \/ \E p \in Plans : SchedulerTick(p)
           \/ KeepAlive \/ BusUp
  BY <1>1, HandlersApply DEF Applies
<1>2. CASE OverridePasses \/ Poll \/ Deliver \/ BusDown
  BY <1>2 DEF OverridePasses, Poll, Request, BusDown
<1>3. CASE WriteFlushed
  BY <1>3 DEF WriteFlushed, WriteDone
<1>4. CASE WriteTimesOut \/ GapOver
  BY <1>4 DEF WriteTimesOut, GapOver
<1>5. CASE UNCHANGED vars
  BY <1>5 DEF vars
<1> QED BY <1>1, <1>2, <1>3, <1>4, <1>5 DEF Next

\* Only the bridge brings the link up.
LEMMA LinkIsKept ==
    ASSUME cs \in ControlStates, requests \in Nat, ~cs.busConnected,
           LoopStep \/ Relays \/ Period
    PROVE  ~cs'.busConnected
<1>1. ASSUME NEW jobs, Applies(jobs), Request PROVE ~cs'.busConnected
  <2>1. ~BusUp
    BY <1>1 DEF BusUp, Request, bounds
  <2> QED BY <1>1, <2>1 DEF Applies
<1>2. CASE \/ \E r \in Rpms, timed \in BOOLEAN : SetManual(r, timed)
           \/ ResumeSchedule \/ SetOff
           \/ \E p \in Plans : SchedulerTick(p)
  <2>1. Request
    BY <1>2 DEF SetManual, ResumeSchedule, SetOff, SchedulerTick
  <2>2. \E jobs : Applies(jobs)
    BY <1>2, HandlersApply
  <2> QED BY <1>1, <2>1, <2>2
<1>3. CASE Period
  <2>1. cs' = Applied(cs)
    BY <1>3 DEF Period, KeepAlive
  <2>2. Applied(cs) = cs
    BY DEF Applied
  <2> QED BY <2>1, <2>2
<1>4. CASE OverridePasses \/ Poll \/ Relays \/ BusDown
  BY <1>4 DEF OverridePasses, ControlStates, Poll, Relays, Deliver, BusDown
<1>5. CASE WriteFlushed
  BY <1>5 DEF WriteFlushed, WriteDone
<1>6. CASE WriteTimesOut \/ GapOver
  BY <1>6 DEF WriteTimesOut, GapOver
<1> QED BY <1>2, <1>3, <1>4, <1>5, <1>6 DEF LoopStep

\* The chain begins with the guardian idle and the pump on its own schedule.
LEMMA FInitKeeps == ASSUME FInit PROVE IInv /\ FInv
<1>1. IInv
  BY InitKeeps DEF FInit
<1>2. DriveComing /\ MissedCutOff
  BY DEF FInit, DriveComing, MissedCutOff
<1>3. missed \in 0..PUMP_TIMEOUT /\ cutOff \in 0..PUMP_TIMEOUT
  BY FailsafeAssumption DEF FInit
<1> QED BY <1>1, <1>2, <1>3 DEF FInit, FInv

\* Every step of the chain keeps both invariants.
LEMMA FStepKeeps == ASSUME IInv, FInv, [FNext]_all PROVE IInv' /\ FInv'
<1>1. IInv'
  BY FStepIs, StepKeeps, RestartKeeps
<1>2. cs \in ControlStates /\ StateOK /\ QueueOK /\ lost \in BOOLEAN
  BY DEF IInv, StateOK
<1>3. /\ client' \in BOOLEAN /\ hold' \in {"idle", "relaying", "holding"}
      /\ pump' \in {"driven", "onboard"} /\ missed' \in 0..PUMP_TIMEOUT
  <2>1. CASE Connects
    BY <2>1 DEF Connects, FInv
  <2>2. CASE ClientClosed
    <3>1. client' \in BOOLEAN
      BY <2>2 DEF ClientClosed
    <3> QED BY <2>2, <3>1, FailsafeAssumption DEF ClientClosed, FInv
  <2>3. CASE Ceiling
    BY <2>3 DEF Ceiling, FInv
  <2>4. CASE Relays
    BY <2>4, FailsafeAssumption DEF Relays, guard, FInv
  <2>5. CASE Period
    BY <2>5, FailsafeAssumption DEF Period, guard, FInv
  <2>6. CASE AppRestarts \/ LoopStep \/ UNCHANGED all
    BY <2>6 DEF AppRestarts, LoopStep, all, guard, FInv
  <2> QED BY <2>1, <2>2, <2>3, <2>4, <2>5, <2>6 DEF FNext
<1>4. hold' = "holding" => ~cs'.busConnected /\ Holdable' /\ missed' = 0
  <2> SUFFICES ASSUME hold' = "holding"
               PROVE  ~cs'.busConnected /\ Holdable' /\ missed' = 0
    OBVIOUS
  <2>1. CASE ClientClosed
    <3>1. /\ Holdable /\ ~cs.busConnected /\ UNCHANGED <<cs, heard>>
          /\ missed' = 0
      BY <2>1 DEF ClientClosed, vars
    <3> QED BY <3>1 DEF Holdable
  <2>2. CASE ~ClientClosed
    <3>1. hold = "holding" /\ ~Connects
      BY <2>2 DEF FNext, Connects, Ceiling, Relays, Period, AppRestarts, LoopStep,
                  all, guard
    <3>2. ~cs.busConnected /\ Holdable /\ wire = <<>> /\ missed = 0
      BY <1>2, <3>1 DEF FInv, QueueOK
    <3>5. missed' = 0
      BY <2>2, <3>1, <3>2
         DEF FNext, Ceiling, Relays, Period, Listens, AppRestarts, LoopStep, all
    <3>3. CASE AppRestarts
      BY <1>2, <3>2, <3>3, <3>5 DEF AppRestarts, ControlStates, Holdable
    <3>4. CASE [Next]_vars
      <4>1. heard' = heard
        BY <1>2, <3>2, <3>4, HeardIsKept DEF Deliver
      <4>2. ~cs'.busConnected
        <5>1. CASE LoopStep \/ Relays \/ Period
          BY <1>2, <3>2, <5>1, LinkIsKept, ControlLoopAssumption DEF StateOK
        <5>2. CASE ClientClosed \/ Ceiling \/ UNCHANGED all
          BY <3>2, <5>2 DEF ClientClosed, Ceiling, all, vars
        <5>3. CASE AppRestarts
          BY <1>2, <5>3 DEF AppRestarts, ControlStates
        <5> QED BY <3>1, <5>1, <5>2, <5>3 DEF FNext
      <4> QED BY <3>2, <3>5, <4>1, <4>2 DEF Holdable
    <3> QED BY <3>3, <3>4, FStepIs
  <2> QED BY <2>1, <2>2
<1>5. DriveComing'
  <2> SUFFICES ASSUME Driving(cs'), ~lost' PROVE missed' = 0 \/ EnableComing'
    BY DEF DriveComing, AppDrives, Driving
  <2>1. CASE AppRestarts
    BY <1>2, <2>1 DEF AppRestarts, ControlStates, Driving
  <2>2. CASE Period
    BY <2>2, PeriodDrives DEF Period
  <2>3. CASE Relays
    <3>1. Driving(cs) /\ ~lost
      BY <2>3 DEF Relays, Deliver
    <3>2. missed = 0 \/ EnableComing
      BY <3>1 DEF FInv, DriveComing, AppDrives, Driving
    <3>3. Head(wire) = Enable \/ missed = 0 => missed' = 0
      BY <2>3 DEF Relays, Enable
    <3> QED BY <2>3, <3>2, <3>3, RelayDrives DEF Relays
  <2>4. CASE LoopStep \/ Connects \/ ClientClosed \/ Ceiling \/ UNCHANGED all
    <3>1. \/ EnableComing'
          \/ Driving(cs) /\ ~lost /\ ~EnableComing
      BY <2>4, LoopDrives DEF Connects, ClientClosed, Ceiling, all
    <3>2. missed' = missed \/ missed' = 0
      BY <2>4 DEF LoopStep, Connects, ClientClosed, Ceiling, all
    <3> QED BY <3>1, <3>2 DEF FInv, DriveComing, AppDrives, Driving
  <2> QED BY <2>1, <2>2, <2>3, <2>4 DEF FNext
<1>6. cutOff' \in 0..PUMP_TIMEOUT
  <2>1. ASSUME NEW periods \in {0, 1}, Counts(periods)
        PROVE  cutOff' \in 0..PUMP_TIMEOUT
    BY <2>1, FailsafeAssumption DEF Counts, FInv
  <2>2. CASE UNCHANGED all
    BY <2>2 DEF all, FInv
  <2> QED BY <2>1, <2>2 DEF FNext
<1>7. AllHeard' => missed' = 0
  <2> SUFFICES ASSUME AllHeard' PROVE missed' = 0
    OBVIOUS
  <2>1. wire' = <<>> /\ queue' = <<>>
    BY <1>1 DEF AllHeard, Quiet, IInv, QueueOK
  <2>2. ~EnableComing'
    BY <2>1, EmptySeq DEF EnableComing
  <2> QED BY <1>5, <2>2 DEF AllHeard, DriveComing
<1>8. MissedCutOff'
  <2> SUFFICES ASSUME Listens' PROVE missed' <= cutOff'
    BY DEF MissedCutOff
  <2>1. CASE missed' = 0
    BY <1>6, <2>1, FailsafeAssumption
  <2>2. CASE missed' # 0
    <3>1. ~AllHeard'
      BY <1>7, <2>2
    <3>2. CASE Period /\ Counts(1)
      <4>1. Listens
        BY <3>2 DEF Period, Listens, guard
      <4>2. missed' = missed + 1 /\ missed + 1 <= PUMP_TIMEOUT
        BY <2>2, <3>2, <4>1, FailsafeAssumption DEF Period, FInv
      <4>3. missed <= cutOff
        BY <4>1 DEF FInv, MissedCutOff
      <4> QED BY <3>1, <3>2, <4>2, <4>3, FailsafeAssumption DEF Counts, FInv
    <3>3. CASE /\ \/ Connects \/ ClientClosed \/ Ceiling \/ Relays
                  \/ AppRestarts \/ LoopStep
               /\ Counts(0)
      <4>1. missed' = missed
        BY <2>2, <3>3
           DEF Connects, ClientClosed, Ceiling, Relays, AppRestarts, LoopStep
      <4>2. hold # "holding"
        BY <2>2, <4>1 DEF FInv
      <4>3. pump = "driven"
        BY <2>2, <3>3
           DEF Connects, ClientClosed, Ceiling, Relays, AppRestarts, LoopStep,
               Listens, Enable
      <4>4. missed <= cutOff
        BY <4>2, <4>3 DEF FInv, MissedCutOff, Listens
      <4> QED BY <3>1, <3>3, <4>1, <4>4, FailsafeAssumption DEF Counts, FInv
    <3>4. CASE UNCHANGED all
      BY <3>4 DEF all, guard, Listens, FInv, MissedCutOff
    <3> QED BY <3>2, <3>3, <3>4 DEF FNext
  <2> QED BY <2>1, <2>2
<1> QED BY <1>1, <1>3, <1>4, <1>5, <1>6, <1>8 DEF FInv

\* The invariant of the two together.
LEMMA FInvariant == FSpec => [](IInv /\ FInv)
BY FInitKeeps, FStepKeeps, PTL DEF FSpec

\* What the guardian holds after a release: the invariant says the guardian saw
\* the app drive, so that the release was not heard.
LEMMA NoHoldFollows == ASSUME IInv, FInv PROVE NoHoldAfterRelease
<1>1. LatestIntentWins
  BY LatestFollows
<1> QED BY <1>1 DEF NoHoldAfterRelease, LatestIntentWins, FInv, Holdable

\* The step in which the pump leaves remote control.
TimesOutAlone ==
    pump = "driven" /\ pump' = "onboard" /\ AppDrives
      => cutOff = PUMP_TIMEOUT \/ (wire # <<>> /\ Head(wire) = Release)

\* The pump leaves remote control under an app that drives by a release, or when
\* the app has been cut off for the whole of its timeout.
LEMMA StepTimesOut == ASSUME IInv, FInv, [FNext]_all PROVE TimesOutAlone
<1> SUFFICES ASSUME pump = "driven", pump' = "onboard", AppDrives
             PROVE  \/ cutOff = PUMP_TIMEOUT
                    \/ wire # <<>> /\ Head(wire) = Release
  BY DEF TimesOutAlone
<1>1. cs.busConnected
  BY DEF AppDrives
<1>2. CASE Relays
  <2>1. wire # <<>>
    BY <1>2 DEF Relays, Deliver
  <2>2. Head(wire) = Release
    BY <1>2 DEF Relays
  <2> QED BY <2>1, <2>2
<1>3. CASE Period
  <2>1. Listens /\ missed + 1 > PUMP_TIMEOUT
    BY <1>3 DEF Period, Listens
  <2>2. missed <= cutOff
    BY <2>1 DEF FInv, MissedCutOff
  <2> QED BY <2>1, <2>2, FailsafeAssumption DEF FInv
<1>4. CASE ClientClosed \/ Ceiling
  BY <1>1, <1>4 DEF ClientClosed, Ceiling, FInv
<1>5. CASE Connects \/ AppRestarts \/ LoopStep \/ UNCHANGED all
  BY <1>5 DEF Connects, AppRestarts, LoopStep, all
<1> QED BY <1>2, <1>3, <1>4, <1>5 DEF FNext

\* Failsafe: with the guardian and the pump behind it and restarts of pool-api
\* in the middle of a chain, the pump is still told the latest intent.
THEOREM ChainLatestIntentWins == FSpec => []LatestIntentWins
<1>1. IInv /\ FInv => LatestIntentWins
  BY LatestFollows
<1> QED BY <1>1, FInvariant, PTL

\* Failsafe: the guardian does not hold the pump after a release that was ticked
\* off, unless a frame was lost.
THEOREM NoHoldAfterReleaseHolds == FSpec => []NoHoldAfterRelease
<1>1. IInv /\ FInv => NoHoldAfterRelease
  BY NoHoldFollows
<1> QED BY <1>1, FInvariant, PTL

\* Failsafe: for every timeout of at least one keep-alive period, the pump times out
\* under an app that drives it only after a whole timeout without a moment at which
\* all that the app had sent was heard.
THEOREM TimesOutWhenCutOffHolds == FSpec => TimesOutWhenCutOff
<1>1. IInv /\ FInv /\ [FNext]_all => [TimesOutAlone]_all
  BY StepTimesOut
<1>2. TimesOutWhenCutOff <=> [][TimesOutAlone]_all
  BY DEF TimesOutWhenCutOff, TimesOutAlone
<1> QED BY <1>1, <1>2, FInvariant, PTL DEF FSpec
=============================================================================
