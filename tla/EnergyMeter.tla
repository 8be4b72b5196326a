----------------------------- MODULE EnergyMeter -----------------------------
(***************************************************************************)
(* What the energy page reports of a day: the rows of telemetry_raw, one a *)
(* minute here, less while the bridge is silent and more when it repeats   *)
(* itself, under the aggregations of db/repos/telemetry.ts and rest.ts,    *)
(* while the pump follows the schedule of ScheduleClock.                   *)
(*                                                                         *)
(* Averages are kept exact by counting in UNITs, a number that every       *)
(* possible count of rows divides.                                         *)
(***************************************************************************)
EXTENDS ScheduleClock

CONSTANTS
    HOUR,            \* minutes of an hour
    UNIT,            \* an hour is counted as so many units
    REPEATS,         \* bound: rows of one minute
    Metered          \* bound: the lists whose days are recorded

ASSUME EnergyMeterAssumption ==
    /\ HOUR \in Nat \ {0} /\ MINUTES % HOUR = 0
    /\ UNIT \in Nat /\ REPEATS \in Nat
    /\ \A n \in 1..HOUR * REPEATS : UNIT % n = 0
    /\ Metered \subseteq Lists

VARIABLE samples     \* the rows since midnight, oldest first

mvars == <<vars, samples>>

-----------------------------------------------------------------------------
(* The curves.  Knots of a table are <<rpm, value>>.                       *)

RPM_TO_GPM ==
    <<<<1400, 22>>, <<1500, 25>>, <<1800, 34>>, <<2000, 40>>, <<2200, 48>>,
      <<2400, 54>>, <<2500, 58>>, <<3000, 78>>, <<3450, 98>>>>

WATTS_CURVE ==
    <<<<1000, 90>>, <<1200, 107>>, <<1400, 133>>, <<1500, 160>>, <<1800, 267>>,
      <<2000, 344>>, <<2200, 407>>, <<2400, 494>>, <<2500, 614>>, <<2800, 802>>,
      <<3000, 1007>>, <<3200, 1234>>, <<3450, 1487>>>>

\* Math.round of n / d.
Round(n, d) == (2 * n + d) \div (2 * d)

\* Linear between the knots and from the origin to the first one, flat beyond
\* the last.
Interpolate(table, x) ==
    LET knots == <<<<0, 0>>>> \o table
        above == {i \in 2..Len(knots) : x <= knots[i][1]}
    IN  IF above = {} THEN Last(table)[2]
        ELSE LET i  == Min(above)
                 lo == knots[i - 1]
                 hi == knots[i]
             IN  lo[2] + Round((x - lo[1]) * (hi[2] - lo[2]), hi[1] - lo[1])

\* What is averaged: running as 0 or 1, est_gpm, and watts, which the drive
\* measures and for which the calibrated curve of this pump stands.
Measures == {"running", "gpm", "watts"}

Measure(of, r) ==
    CASE of = "running" -> IF r > 0 THEN 1 ELSE 0
      [] of = "gpm"     -> IF r <= 0 THEN 0 ELSE Interpolate(RPM_TO_GPM, r)
      [] of = "watts"   -> IF r <= 0 THEN 0 ELSE Interpolate(WATTS_CURVE, r)

-----------------------------------------------------------------------------
(* The summary.                                                            *)

\* date_trunc('hour', ts).
Truncated(m) == m \div HOUR

\* The rows of an hour, by index.
Bucket(h) == {i \in DOMAIN samples : Truncated(samples[i].at) = h}

\* sum() of a bucket.
Measured(of, h) == SumFunction([i \in Bucket(h) |-> Measure(of, samples[i].rpm)])

\* Mutant.
Average_RowCount(of, h) == (UNIT * Measured(of, h)) \div HOUR

\* avg() of a bucket, in UNITs.
Average(of, h) == (UNIT * Measured(of, h)) \div Cardinality(Bucket(h))

Hours == 0..(MINUTES \div HOUR) - 1

\* The hours that have rows, each counted as a whole hour.
HourlyBuckets == {h \in Hours : Bucket(h) # {}}

\* runtimeHours, gallons and kWh of the summary, in UNITs.
Summary(of) == SumFunction([h \in HourlyBuckets |-> Average(of, h)])

-----------------------------------------------------------------------------
(* The speed distribution.                                                 *)

Band(r) ==
    CASE r <= 0            -> "off"
      [] r \in 1..1799     -> "low"
      [] r \in 1800..2699  -> "mid"
      [] r >= 2700         -> "high"

\* Mutant.
Lead_Phantom(i) ==
    IF i = Len(samples) THEN HOUR ELSE samples[i + 1].at - samples[i].at

\* coalesce(lead(ts) - ts, 0): the last row has no successor.
Lead(i) == IF i = Len(samples) THEN 0 ELSE samples[i + 1].at - samples[i].at

\* A gap is credited to the speed before it, an hour of it at most.
Credited(i) == IF Lead(i) < HOUR THEN Lead(i) ELSE HOUR

RowsOf(band) == {i \in DOMAIN samples : Band(samples[i].rpm) = band}

SpeedBands(band) == SumFunction([i \in RowsOf(band) |-> Credited(i)])

-----------------------------------------------------------------------------
(* The schedule page: runtimeHours of a preset, in minutes.                *)

RuntimeMinutes(segs) ==
    LET blocks  == TimelineBlocks(segs)
        running == {i \in DOMAIN blocks : blocks[i].rpm > 0}
    IN  SumFunction([i \in running |-> blocks[i].to - blocks[i].from])

-----------------------------------------------------------------------------
\* record(): n rows of the minute that begins.
Rows(n, m, r) == [i \in 1..n |-> [at |-> m, rpm |-> r]]

Recorded(l) == IF l \in Metered THEN 0..REPEATS ELSE {0}

MInit ==
    /\ Init
    /\ \E n \in Recorded(list) : samples = Rows(n, 0, ActiveRpm)

MMinute ==
    /\ Minute
    /\ \E n \in Recorded(list) :
          samples' = (IF minute' = 0 THEN <<>> ELSE samples)
                     \o Rows(n, minute', ActiveRpm')

MSpec == MInit /\ [][MMinute]_mvars

-----------------------------------------------------------------------------
(* Properties.                                                             *)

\* telemetry.ts:216-228, "it makes the bands sum to real elapsed time": a minute
\* counts for the band of the newest row before it, unless that row is an hour
\* old or none follows, however rows were dropped and repeated.
BandsAreMinutes ==
    \A band \in {"off", "low", "mid", "high"} :
        SpeedBands(band) =
        Cardinality({m \in 0..minute :
            \E i \in DOMAIN samples :
               /\ samples[i].at <= m /\ m < samples[i].at + HOUR
               /\ Band(samples[i].rpm) = band
               /\ \A j \in DOMAIN samples : samples[j].at <= m => j <= i
               /\ Last(samples).at > m})

\* What today's schedule asks for at minute m.
Planned(m) == ActiveAt(day, m)

MinutesOf(h) == {m \in 0..MINUTES - 1 : m \div HOUR = h}

\* What the schedule makes of an hour.
Expected(of, h) == SumFunction([m \in MinutesOf(h) |-> Measure(of, Planned(m))])

Begun == {h \in Hours : h * HOUR <= minute}

\* An hour is uncertain if the pump changes speed in it or nothing was recorded.
Uncertain(h) ==
    \/ \E m, n \in MinutesOf(h) : Planned(m) # Planned(n)
    \/ \A i \in DOMAIN samples : samples[i].at \notin MinutesOf(h)

Largest(of) == Measure(of, 3450)

Distance(a, b) == IF a < b THEN b - a ELSE a - b

\* telemetry.ts:92-97: averaging "carries them across the gap".  Running hours,
\* gallons and kWh of the summary are those of the schedule up to the end of the
\* hour, however rows were dropped and repeated, but for the hours in which the
\* speed changes or nothing was recorded; those err by an hour at most.  At the
\* end of the day the running hours are the "h/day" of the schedule page.
SummaryIsReal ==
    LET slack(of) == UNIT * Largest(of) * Cardinality({h \in Begun : Uncertain(h)})
        real(of)  == SumFunction([h \in Begun |-> Expected(of, h)])
    IN  list \in Metered =>
        /\ \A of \in Measures :
              Distance(Summary(of), (UNIT * real(of)) \div HOUR) <= slack(of)
        /\ minute = MINUTES - 1 /\ Top # <<>> =>
              real("running") = RuntimeMinutes(Top)
=============================================================================
