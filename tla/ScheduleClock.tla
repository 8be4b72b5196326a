---------------------------- MODULE ScheduleClock ----------------------------
(***************************************************************************)
(* Which speed a set of schedules asks for at a minute of the week: the    *)
(* algorithm of the engine (activeRpm in core/scheduler.ts) and the one of *)
(* the web app's card and timeline (lib/schedule.ts).  The clock of the    *)
(* machine is the engine's, the pool's wall clock, one step a minute; the  *)
(* card has clocks of its own, which are arguments of what it shows.       *)
(***************************************************************************)
EXTENDS Integers, Sequences, SequencesExt

CONSTANTS
    DAYS,            \* days of a week
    MINUTES,         \* minutes of a day
    Lists            \* the schedule lists of the database, in its order

\* What ScheduleInput admits: a schedule has at least one segment, and a segment a
\* start within the day.  listSchedules() orders them by priority, then by age.
ScheduleSegments == [start: 0..MINUTES - 1, rpm: Nat]
ScheduleInputs ==
    [enabled: BOOLEAN, days: SUBSET (0..DAYS - 1), priority: Int,
     segments: Seq(ScheduleSegments) \ {<<>>}]

ASSUME ScheduleClockAssumption ==
    /\ DAYS \in Nat \ {0} /\ MINUTES \in Nat \ {0}
    /\ Lists \subseteq Seq(ScheduleInputs)
    /\ \A l \in Lists : \A i, j \in DOMAIN l : i < j => l[i].priority >= l[j].priority

VARIABLES
    list,            \* listSchedules(): by priority, then by age
    day, minute      \* the wall clock in the zone of POOL_TZ

vars == <<list, day, minute>>

\* The stable sort by start, of both programs.
SortSegments(segs) ==
    LET before(i, j) == \/ segs[i].start < segs[j].start
                        \/ segs[i].start = segs[j].start /\ i < j
        order == CHOOSE p \in Bijection(DOMAIN segs, DOMAIN segs) :
                    \A i, j \in DOMAIN segs : i < j => before(p[i], p[j])
    IN  [k \in DOMAIN segs |-> segs[order[k]]]

-----------------------------------------------------------------------------
(* The engine.                                                             *)

Matches(s, d) == s.enabled /\ d \in s.days

\* Mutant.
TopOn_AnyEnabled(d) ==
    LET candidates == {i \in DOMAIN list : list[i].enabled}
    IN  IF candidates = {} THEN <<>> ELSE list[Min(candidates)].segments

\* The segments of the candidate of highest priority, the oldest among equals,
\* or none.  The list comes sorted and the sort is stable.
TopOn(d) ==
    LET candidates == {i \in DOMAIN list : Matches(list[i], d)}
    IN  IF candidates = {} THEN <<>> ELSE list[Min(candidates)].segments

Due(seg, m) == seg.start <= m

\* The loop over the segments.  The last one of the day carries over until the
\* first start.
ActiveAfter(sorted, m) ==
    LET active[i \in 0..Len(sorted)] ==
            IF i = 0 THEN Last(sorted)
            ELSE IF Due(sorted[i], m) THEN sorted[i] ELSE active[i - 1]
    IN  active

SegmentRpm(segs, m) ==
    LET sorted == SortSegments(segs)
    IN  ActiveAfter(sorted, m)[Len(sorted)].rpm

\* activeRpm() of a day and minute,
ActiveAt(d, m) == IF TopOn(d) = <<>> THEN 0 ELSE SegmentRpm(TopOn(d), m)

\* and of now.
Top       == TopOn(day)
ActiveRpm == ActiveAt(day, minute)

-----------------------------------------------------------------------------
(* The web app.                                                            *)

\* Mutant.
Before_Off(sorted) ==
    IF Head(sorted).start > 0
    THEN <<[from |-> 0, to |-> Head(sorted).start, rpm |-> 0]>>
    ELSE <<>>

\* The time before the first start belongs to the last segment.
Before(sorted) ==
    IF Head(sorted).start > 0
    THEN <<[from |-> 0, to |-> Head(sorted).start, rpm |-> Last(sorted).rpm]>>
    ELSE <<>>

TimelineBlocks(segs) ==
    LET sorted == SortSegments(segs)
        n      == Len(sorted)
    IN  Before(sorted) \o
        [i \in 1..n |-> [from |-> sorted[i].start,
                         to   |-> IF i < n THEN sorted[i + 1].start ELSE MINUTES,
                         rpm  |-> sorted[i].rpm]]

RpmAt(segs, m) ==
    LET blocks == TimelineBlocks(segs)
        here   == {i \in DOMAIN blocks : m >= blocks[i].from /\ m < blocks[i].to}
    IN  IF here = {} THEN Head(blocks).rpm ELSE blocks[Min(here)].rpm

EnabledIn(l) == {i \in DOMAIN l : l[i].enabled}

RunsToday(s, today) == today \in s.days

\* What ActiveScheduleCard says is running now: `l' is the list it fetched when it
\* was mounted, `today' the day of the device, and `now' the minute of the pump's
\* own clock, or of the device as long as there is no telemetry.
CardRpm(l, today, now) ==
    LET sched == l[Min(EnabledIn(l))]
    IN  IF EnabledIn(l) = {} \/ ~RunsToday(sched, today) THEN 0
        ELSE RpmAt(sched.segments, now)

-----------------------------------------------------------------------------
Init ==
    /\ list \in Lists
    /\ day \in 0..DAYS - 1
    /\ minute = 0

Minute ==
    /\ minute' = (minute + 1) % MINUTES
    /\ day' = IF minute' = 0 THEN (day + 1) % DAYS ELSE day
    /\ UNCHANGED list

Next == Minute

Spec == Init /\ [][Next]_vars

-----------------------------------------------------------------------------
(* Properties.                                                             *)

\* s is in force today: enabled, with a matching day, and no other such
\* schedule has a higher priority, or the same and is older.
InForce(i) ==
    /\ Matches(list[i], day)
    /\ \A j \in DOMAIN list :
          Matches(list[j], day) =>
              \/ list[j].priority < list[i].priority
              \/ list[j].priority = list[i].priority /\ j >= i

\* Segment k is in force: started, and none that started is later; or nothing
\* has started yet and k is the last of the day.
Current(segs, k) ==
    LET started == {j \in DOMAIN segs : segs[j].start <= minute}
        pool    == IF started = {} THEN DOMAIN segs ELSE started
    IN  /\ k \in pool
        /\ \A j \in pool : \/ segs[j].start < segs[k].start
                           \/ segs[j].start = segs[k].start /\ j <= k

\* The comment of activeRpm (scheduler.ts:9-14), read declaratively, with equal
\* priorities and equal starts decided as the sorts decide them.
ActiveIsInForce ==
    \/ /\ \A i \in DOMAIN list : ~Matches(list[i], day)
       /\ ActiveRpm = 0
    \/ \E i \in DOMAIN list :
          /\ InForce(i)
          /\ \E k \in DOMAIN list[i].segments :
                /\ Current(list[i].segments, k)
                /\ ActiveRpm = list[i].segments[k].rpm

\* lib/schedule.ts:53-54, "matching how the backend scheduler resolves the
\* active speed": the timeline of any schedule agrees with the engine at every
\* minute, for equal starts and starts at midnight too; and what the live card
\* shows is what the engine runs at the day and minute the card's clocks show,
\* whichever those are, while the list it fetched is the engine's and has a single
\* schedule enabled.  (Of several it takes the first, the engine the first that
\* runs today.)  Whether those clocks are right is not claimed: nothing sets the
\* pump's, and its minute is paired with the device's day.
WebAgrees ==
    /\ \A i \in DOMAIN list :
          RpmAt(list[i].segments, minute) = SegmentRpm(list[i].segments, minute)
    /\ (\A i, j \in EnabledIn(list) : i = j) =>
          \A d \in 0..DAYS - 1, m \in 0..MINUTES - 1 :
             CardRpm(list, d, m) = ActiveAt(d, m)
=============================================================================
