-------------------------------- MODULE Pages --------------------------------
(***************************************************************************)
(* The pages of the web app that change what the server does or stores,    *)
(* next to the server.  No two of them hold state together (the store      *)
(* belongs to the live page, and React state ends with its page), so a     *)
(* behaviour has one of them open all the time; with none open the         *)
(* requests are anybody's, and Schedules has every step the server takes   *)
(* for them.                                                               *)
(***************************************************************************)
EXTENDS LivePage, SchedulePage, EnergyPage

VARIABLE route       \* the page that is open: none, live, schedule, energy

wvars == <<lvars, pvars, epage, route>>

\* A page that is not open is as it will be when it is mounted.
WInit ==
    /\ LiveInit /\ PInit /\ EInit
    /\ route \in {"none", "live", "schedule", "energy"}
    /\ route # "schedule" => flag
    /\ route \in {"live", "energy"} => rows = Nothing

\* Without a page every request is one from elsewhere.
Anybody ==
    /\ route = "none"
    /\ split' = TRUE
    /\ UNCHANGED <<lvars, page, disturbed, faults, epage, route>>

Live     == route = "live" /\ UNCHANGED <<pvars, epage, route>>
Schedule == route = "schedule" /\ UNCHANGED <<lvars, epage, route>>
Energy   == route = "energy" /\ UNCHANGED <<lvars, pvars, route>>

WNext ==
    \/ Anybody /\ Next
    \/ Live /\ LiveNext
    \/ Schedule /\ PNext
    \/ Energy /\ ENext

WSpec == WInit /\ [][WNext]_wvars

\* Timers fire, queries and requests are answered, events arrive, the socket is
\* reconnected, the pump is polled, the database comes back.  Users are free to
\* do nothing, and nothing that fails has to.
WFairSpec ==
    /\ WSpec
    /\ WF_vars(Anybody /\ Interval) /\ WF_vars(Anybody /\ DbUp)
    /\ \A l \in Loaders : WF_vars(Anybody /\ Arrive(l))
    /\ \A h \in Handlers :
          WF_vars(Anybody /\ ReadBack(h)) /\ WF_vars(Anybody /\ Reload(h))
    /\ WF_lvars(Live /\ OnApply) /\ WF_lvars(Live /\ Settle)
    /\ WF_lvars(Live /\ \E i \in DOMAIN posts : PostArrives(i))
    /\ WF_lvars(Live /\ PumpFollows)
    /\ SF_lvars(Live /\ Report /\ Telemetry.rpm = Dto(srv).rpm)
    /\ WF_lvars(Live /\ OnConnect) /\ WF_lvars(Live /\ OnEvent)
=============================================================================
