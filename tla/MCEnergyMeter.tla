---------------------------- MODULE MCEnergyMeter ----------------------------
(* Instance of EnergyMeter for TLC: days of six minutes, hours of two, a    *)
(* week of two days.  One schedule with up to three segments, or two of one *)
(* segment each in the order of the query; the days of a schedule with two  *)
(* different speeds are recorded.                                           *)
EXTENDS EnergyMeter

const_Segments == [start: {0, 1, 4}, rpm: {0, 1500, 2700}]

UpTo(n) ==
    [enabled: BOOLEAN, days: SUBSET {0, 1}, priority: {0, 1},
     segments: UNION {[1..k -> const_Segments] : k \in 1..n}]

One(n) == {<<s>> : s \in {t \in UpTo(n) : t.enabled /\ t.days = {0}
                                              /\ t.priority = 0}}

const_Two == {<<s, t>> \in UpTo(1) \X UpTo(1) :
                 s.priority >= t.priority}

const_Lists == One(3) \cup const_Two

const_Metered ==
    {l \in One(2) : LET segs == l[1].segments
                    IN  Len(segs) = 2 /\ segs[1].start < segs[2].start
                                      /\ segs[1].rpm # segs[2].rpm}
=============================================================================
