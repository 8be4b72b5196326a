----------------------------- MODULE PagesProofs -----------------------------
(***************************************************************************)
(* Proofs about the pages of the web app, for any schedules, starters,     *)
(* speeds and ranges, and any number of writes, commands, resets, faults   *)
(* and outages: the schedule page, the energy page and the live page each  *)
(* under its own specification, and then all of them next to the server,   *)
(* with whichever is open (WSpec of Pages).                                *)
(***************************************************************************)
EXTENDS Pages, SequenceTheorems, WellFoundedInduction, TLAPS

-----------------------------------------------------------------------------
(* The schedules of the server: an undisturbed request is in force when it  *)
(* is over, for any number of rows, of requests at once, of writes and of   *)
(* outages.                                                                 *)

Types ==
    /\ pc \in [Loaders -> {"idle", "activated", "written", "loaded"}]
    /\ answer \in [Loaders -> SUBSET Ids]

\* Without an excuse a single handler is under way,
Alone ==
    ~excused => \A k, l \in Loaders : ~Idle(k) /\ ~Idle(l) => k = l

\* and what it has read is what the rows still say.
AnswerFresh ==
    ~excused => \A l \in Loaders : pc[l] = "loaded" => answer[l] = Enabled(rows)

IInv == Types /\ Alone /\ AnswerFresh /\ CacheFresh

\* Nothing is under way at first and the cache says what the rows say.
LEMMA InitIInv == Init => IInv
<1>1. QED
  BY DEF Init, IInv, Types, Alone, AnswerFresh, CacheFresh, Idle

\* A handler that moves from one stage to another keeps the types.
LEMMA GotoType ==
    ASSUME Types, NEW l \in Loaders,
           NEW stage \in {"idle", "activated", "written", "loaded"}, Goto(l, stage)
    PROVE  /\ pc' \in [Loaders -> {"idle", "activated", "written", "loaded"}]
           /\ pc'[l] = stage
           /\ \A k \in Loaders \ {l} : pc'[k] = pc[k]
<1>1. QED
  BY DEF Types, Goto

\* A request whose statement runs: from here on it has yet to reload, and if it
\* is not alone it is excused.
LEMMA BeginKeeps ==
    ASSUME IInv, NEW h \in Handlers, NEW stage \in {"activated", "written"},
           Begin(h), Goto(h, stage)
    PROVE  IInv'
<1>1. h \in Loaders /\ Types'
  BY GotoType DEF Begin, IInv, Types, Loaders
<1>2. pc'[h] = stage /\ \A k \in Loaders \ {h} : pc'[k] = pc[k]
  BY <1>1, GotoType DEF IInv
<1>3. ~excused' => \A k \in Loaders \ {h} : Idle(k) /\ Idle(k)'
  BY <1>2 DEF Begin, Idle
<1>4. QED
  BY <1>1, <1>2, <1>3 DEF IInv, Alone, AnswerFresh, CacheFresh, Idle

\* A reload that starts: it reads the rows, or it is excused.
LEMMA LoadKeeps ==
    ASSUME IInv, NEW l \in Loaders, Goto(l, "loaded"), Answered(l), Excuse(l),
           UNCHANGED <<rows, db, cached, bounds>>
    PROVE  IInv'
<1>1. pc'[l] = "loaded" /\ \A k \in Loaders \ {l} : pc'[k] = pc[k]
  BY GotoType DEF IInv
<1>2. Types'
  BY GotoType DEF IInv, Types, Answered, Enabled
<1>3. ~excused' => answer'[l] = Enabled(rows')
  BY DEF Excuse, Answered, IInv, Types, Enabled
<1>4. ~excused' => \A k \in Loaders \ {l} : Idle(k) /\ Idle(k)'
  BY <1>1 DEF Excuse, Idle
<1>5. QED
  BY <1>1, <1>2, <1>3, <1>4 DEF IInv, Alone, AnswerFresh, CacheFresh, Idle

\* The answer arrives, and the schedules are the rows unless there is an excuse.
LEMMA ArriveKeeps ==
    ASSUME IInv, NEW l \in Loaders, Arrive(l)
    PROVE  IInv'
<1>1. pc'[l] = "idle" /\ \A k \in Loaders \ {l} : pc'[k] = pc[k]
  BY GotoType DEF IInv, Arrive
<1>2. Types'
  BY GotoType DEF IInv, Types, Arrive
<1>3. ~excused' => cached' = Enabled(rows')
  BY DEF Arrive, IInv, AnswerFresh, Enabled
<1>4. Alone'
  BY <1>1 DEF Arrive, IInv, Alone, Idle
<1>5. AnswerFresh'
  BY <1>1 DEF Arrive, IInv, AnswerFresh, Types, Enabled
<1>6. QED
  BY <1>2, <1>3, <1>4, <1>5 DEF IInv, CacheFresh

\* Every query, answer, write and outage keeps the invariant.
LEMMA NextIInv == IInv /\ [Next]_vars => IInv'
<1> SUFFICES ASSUME IInv, [Next]_vars PROVE IInv'
  OBVIOUS
<1>1. ASSUME NEW h \in Handlers, NEW id \in Ids, NEW enabled \in BOOLEAN,
             Create(h, id, enabled) \/ Update(h, id, enabled)
      PROVE  IInv'
  BY <1>1, BeginKeeps DEF Create, Update
<1>2. ASSUME NEW h \in Handlers, NEW id \in Ids, Delete(h, id) \/ Activate(h, id)
      PROVE  IInv'
  BY <1>2, BeginKeeps DEF Delete, Activate
<1>3. ASSUME NEW h \in Handlers, ReadBack(h)
      PROVE  IInv'
  <2>1. h \in Loaders
    BY DEF Loaders
  <2>2. pc'[h] = "written" /\ \A k \in Loaders \ {h} : pc'[k] = pc[k]
    BY <1>3, <2>1, GotoType DEF IInv, ReadBack
  <2>3. Types'
    BY <1>3, <2>1, GotoType DEF IInv, Types, ReadBack
  <2>4. QED
    BY <1>3, <2>1, <2>2, <2>3
    DEF ReadBack, IInv, Alone, AnswerFresh, CacheFresh, Idle, Enabled
<1>4. ASSUME NEW h \in Handlers, Throws(h)
      PROVE  IInv'
  <2>1. Types'
    BY <1>4, GotoType DEF IInv, Types, Throws, Loaders
  <2>2. QED
    BY <1>4, <2>1 DEF Throws, IInv, Alone, AnswerFresh, CacheFresh
<1>5. ASSUME NEW h \in Handlers, Reload(h)
      PROVE  IInv'
  BY <1>5, LoadKeeps DEF Reload, Loaders
<1>6. CASE Interval
  BY <1>6, LoadKeeps DEF Interval, Loaders
<1>7. ASSUME NEW l \in Loaders, Arrive(l)
      PROVE  IInv'
  BY <1>7, ArriveKeeps
<1>8. CASE DbDown \/ DbUp \/ UNCHANGED vars
  BY <1>8
  DEF DbDown, DbUp, vars, IInv, Types, Alone, AnswerFresh, CacheFresh, Idle, Enabled
<1>9. QED
  BY <1>1, <1>2, <1>3, <1>4, <1>5, <1>6, <1>7, <1>8 DEF Next

\* The schedules the engine runs are the rows whenever no request and no reload
\* is under way and nothing excuses them.
THEOREM UndisturbedIsInForce == Spec => []CacheFresh
<1>1. IInv => CacheFresh
  BY DEF IInv
<1>2. QED
  BY <1>1, InitIInv, NextIInv, PTL DEF Spec

-----------------------------------------------------------------------------
(* The schedule page.                                                       *)

Presets == [Ids -> {"absent", "off", "on"}]
Ops     == {"none", "create", "update", "delete", "activate"}

PTypes ==
    /\ rows \in Presets /\ shown \in Presets /\ had \in Presets
    /\ heard \in [Threads -> Presets]
    /\ sel \in Ids \cup {NoId}
    /\ at \in [Threads -> {"idle", "write", "reply", "list", "listed"}]
    /\ call \in [op: Ops, id: Ids \cup {NoId}, on: BOOLEAN]
    /\ seeding \in SUBSET Threads
    /\ todo \in SUBSET DOMAIN STARTERS

\* The buttons are disabled while an action is under way.
BusyActs == at[Act] # "idle" => busy

\* One thread at most seeds; it is under way, and while it writes it has a
\* starter left to create.
Seeds ==
    /\ \A s, t \in seeding : s = t
    /\ \A t \in seeding :
          at[t] # "idle" /\ (at[t] \in {"write", "reply"} => todo # {})

\* A preset is selected that is shown, unless none is.
SelectionShown ==
    sel # NoId => shown[sel] # "absent" \/ Listed(shown) = {}

\* While nothing disturbs it, one thread at most is under way,
ThreadAlone == \A s, t \in Threads : at[s] # "idle" /\ at[t] # "idle" => s = t

\* the list it has read is what the rows say,
HeardFresh == \A t \in Threads : at[t] = "listed" => heard[t] = rows

\* the first of the starters is still to come only if nothing was created,
HadFresh ==
    \A t \in seeding :
        at[t] = "write" /\ Listed(had) = {} /\ 1 \in todo => Listed(rows) = {}

\* the page shows the rows until it changes them itself,
ShownFresh ==
    /\ (\A t \in Threads : at[t] = "idle") => shown = rows
    /\ \A t \in Threads \ seeding : at[t] = "write" => shown = rows

\* and what the user asked for fits the rows: a save that enables finds the
\* preset enabled or none at all, one that does not finds it off, "Use" finds
\* its preset.
CallFits ==
    \A t \in Threads \ seeding : at[t] = "write" =>
        /\ call.op \in Ops \ {"none"}
        /\ call.op # "create" => call.id \in Ids
        /\ call.op = "activate" => rows[call.id] = "off"
        /\ call.op = "create" /\ call.on => Listed(rows) = {}
        /\ call.op = "update" =>
              \/ rows[call.id] # "absent" /\ (call.on <=> rows[call.id] = "on")
              \/ Listed(rows) = {}

Undisturbed == ThreadAlone /\ HeardFresh /\ HadFresh /\ ShownFresh /\ CallFits

PInv ==
    /\ PTypes /\ BusyActs /\ Seeds /\ SelectionShown
    /\ ~disturbed => Undisturbed
    /\ OneActive

-----------------------------------------------------------------------------
\* The page starts with nothing shown, selected or under way.
LEMMA InitPInv == PInit => PInv
<1> SUFFICES ASSUME PInit PROVE PInv
  OBVIOUS
<1> USE DEF PInit
<1>1. PTypes
  BY SchedulePageAssumption DEF PTypes, Presets, Ops, Nothing, Loading, NoCall, Init, Threads
<1>2. BusyActs
  BY SchedulePageAssumption DEF BusyActs, Loading, Threads
<1>3. Seeds /\ SelectionShown
  BY DEF Seeds, SelectionShown
<1>4. OneActive
  BY DEF OneActive
<1>5. QED
  BY <1>1, <1>2, <1>3, <1>4 DEF PInv

\* A thread that goes to another stage keeps the types.
LEMMA StageType ==
    ASSUME PTypes, NEW t \in Threads,
           NEW where \in {"idle", "write", "reply", "list", "listed"}, Stage(t, where)
    PROVE  /\ at' \in [Threads -> {"idle", "write", "reply", "list", "listed"}]
           /\ at'[t] = where
           /\ \A s \in Threads \ {t} : at'[s] = at[s]
<1>1. QED
  BY DEF PTypes, Stage

\* What Show() leaves.
LEMMA ShowFacts ==
    ASSUME PTypes, BusyActs, NEW t \in Threads, NEW list \in Presets, Show(t, list)
    PROVE  /\ shown' = list /\ shown' \in Presets
           /\ sel' \in Ids \cup {NoId}
           /\ SelectionShown'
           /\ at' \in [Threads -> {"idle", "write", "reply", "list", "listed"}]
           /\ at'[t] = "idle"
           /\ \A s \in Threads \ {t} : at'[s] = at[s]
           /\ call' \in [op: Ops, id: Ids \cup {NoId}, on: BOOLEAN]
           /\ BusyActs'
<1>1. shown' = list /\ Ends(t)
  BY DEF Show
<1>2. /\ at' \in [Threads -> {"idle", "write", "reply", "list", "listed"}]
      /\ at'[t] = "idle"
      /\ \A s \in Threads \ {t} : at'[s] = at[s]
  BY <1>1, StageType DEF Ends
<1>3. call' \in [op: Ops, id: Ids \cup {NoId}, on: BOOLEAN]
  BY <1>1 DEF Ends, NoCall, PTypes, Ops
<1>4. BusyActs'
  BY <1>1, <1>2, SchedulePageAssumption DEF Ends, BusyActs, Threads
<1>5. sel' \in Listed(list) \/ (Listed(list) = {} /\ sel' = sel)
  BY DEF Show, Enabled, Listed, Presets
<1>6. sel' \in Ids \cup {NoId} /\ SelectionShown'
  BY <1>1, <1>5 DEF Listed, SelectionShown, PTypes
<1>7. QED
  BY <1>1, <1>2, <1>3, <1>4, <1>6

\* A call of t failed: nothing it leaves speaks of an undisturbed page.
LEMMA CatchFacts ==
    ASSUME PTypes, BusyActs, Seeds, SelectionShown, NEW t \in Threads, Catch(t),
           UNCHANGED rows
    PROVE  PTypes' /\ BusyActs' /\ Seeds' /\ SelectionShown' /\ disturbed'
<1>1. disturbed' /\ heard' \in [Threads -> Presets]
  BY DEF Catch, Heard, PTypes, Presets, Nothing
<1>2. CASE t \in seeding
  <2>1. Show(t, had) /\ seeding' = {} /\ todo' = {} /\ had' = Nothing
    BY <1>2 DEF Catch
  <2>2. had \in Presets /\ had' \in Presets
    BY <2>1 DEF PTypes, Presets, Nothing
  <2>3. QED
    BY <1>1, <2>1, <2>2, ShowFacts DEF PTypes, Seeds
<1>3. CASE t \notin seeding
  <2>1. UNCHANGED <<seeding, todo, had, shown, sel>>
    BY <1>3 DEF Catch
  <2>2. \/ Stage(t, "list") /\ UNCHANGED <<busy, call>> /\ at[t] # "idle"
        \/ Ends(t)
    BY <1>3 DEF Catch
  <2>3. PICK where \in {"idle", "list"} : Stage(t, where)
    BY <2>2 DEF Ends
  <2>4. /\ at' \in [Threads -> {"idle", "write", "reply", "list", "listed"}]
        /\ at'[t] = where
        /\ \A s \in Threads \ {t} : at'[s] = at[s]
    BY <2>3, StageType
  <2>5. call' \in [op: Ops, id: Ids \cup {NoId}, on: BOOLEAN]
    <3>1. CASE Ends(t)
      BY <3>1 DEF Ends, NoCall, PTypes, Ops
    <3>2. CASE UNCHANGED call
      BY <3>2 DEF PTypes
    <3>3. QED
      BY <2>2, <3>1, <3>2
  <2>6. PTypes'
    BY <1>1, <2>1, <2>4, <2>5 DEF PTypes
  <2>7. BusyActs'
    <3>1. CASE Ends(t)
      BY <3>1, <2>4, StageType, SchedulePageAssumption DEF Ends, BusyActs, Threads
    <3>2. CASE Stage(t, "list") /\ UNCHANGED <<busy, call>> /\ at[t] # "idle"
      BY <3>2, <2>4, SchedulePageAssumption DEF BusyActs, Threads
    <3>3. QED
      BY <2>2, <3>1, <3>2
  <2>8. Seeds' /\ SelectionShown'
    BY <1>3, <2>1, <2>4 DEF Seeds, SelectionShown, Listed, PTypes
  <2>9. QED
    BY <1>1, <2>6, <2>7, <2>8
<1>4. QED
  BY <1>2, <1>3

\* A non-empty set of starters has a first.
LEMMA Least ==
    ASSUME NEW S \in SUBSET Nat, S # {}
    PROVE  \E k \in S : \A j \in S : k <= j
<1>1. IsWellFoundedOn(OpToRel(<, Nat), Nat)
  BY NatLessThanWellFounded
<1>2. PICK k \in S : \A j \in S : ~ (<<j, k>> \in OpToRel(<, Nat))
  BY <1>1, WFMin
<1>3. \A j \in S : ~ (j < k)
  BY <1>2 DEF OpToRel
<1>4. QED
  BY <1>3

\* A starter that is left to create has a first one.
LEMMA UpcomingFirst ==
    ASSUME PTypes, todo # {}
    PROVE  Upcoming \in todo /\ (1 \in todo => Upcoming = 1)
<1>1. todo \in SUBSET Nat /\ 0 \notin todo
  BY SchedulePageAssumption DEF PTypes
<1>2. \E k \in todo : \A j \in todo : k <= j
  BY <1>1, Least
<1>3. Upcoming \in todo /\ \A j \in todo : Upcoming <= j
  BY <1>2 DEF Upcoming
<1>4. QED
  BY <1>1, <1>3

\* A statement leaves a list of presets, and splits nothing unless it may.
LEMMA StatementType ==
    ASSUME PTypes, NEW op, NEW id, NEW on, Statement(op, id, on)
    PROVE  rows' \in Presets
<1>1. rows' = After(op, id, on)
  BY DEF Statement
<1>2. QED
  BY <1>1 DEF After, PTypes, Presets

\* activate leaves one schedule enabled at most.
LEMMA ActivationIsAlone ==
    ASSUME PTypes, NEW id, NEW on, Statement("activate", id, on)
    PROVE  \A i, j \in Enabled(rows') : i = j
<1>1. rows' = [i \in Ids |-> IF rows[i] = "absent" THEN "absent"
                             ELSE IF i = id THEN "on" ELSE "off"]
  BY DEF Statement, After
<1>2. QED
  BY <1>1 DEF Enabled

\* Once the page is disturbed, a statement that is not an activation is excused.
LEMMA ExcusedStatement ==
    ASSUME PTypes, OneActive, NEW op, NEW id, NEW on, Statement(op, id, on), disturbed'
    PROVE  OneActive'
<1>1. CASE op = "activate" /\ rows[id] # "absent"
  BY <1>1, ActivationIsAlone DEF OneActive
<1>2. CASE ~(op = "activate" /\ rows[id] # "absent")
  BY <1>2 DEF Statement, OneActive
<1>3. QED
  BY <1>1, <1>2

\* The request of a page that is not disturbed: the row it enables, if any, is
\* enabled already, or alone.
LEMMA RequestFits ==
    ASSUME PInv, ~disturbed, NEW t \in Threads, at[t] = "write", UNCHANGED disturbed,
           OneActive, Request(t)
    PROVE  /\ OneActive'
           /\ Enabled(rows) # {} /\ Enabled(rows') = {}
                => \E id \in Enabled(rows) : rows'[id] = "absent"
<1> DEFINE Goal == /\ OneActive'
                   /\ Enabled(rows) # {} /\ Enabled(rows') = {}
                        => \E id \in Enabled(rows) : rows'[id] = "absent"
<1>0. PTypes /\ Seeds /\ HadFresh /\ CallFits /\ rows \in Presets
  BY DEF PInv, Undisturbed, PTypes
\* A statement that leaves the enabled rows as they are, or fewer.
<1>1. ASSUME NEW op \in {"create", "update", "delete"}, NEW id, NEW on \in BOOLEAN,
             Statement(op, id, on),
             on /\ op = "create" => Listed(rows) = {},
             op = "update" => (on <=> rows[id] = "on") \/ Listed(rows) = {}
      PROVE  Goal
  <2>1. ~split' => ~split
    BY <1>1 DEF Statement
  <2>2. CASE op = "delete"
    <3>1. rows' = [rows EXCEPT ![id] = "absent"]
      BY <1>1, <2>2 DEF Statement, After
    <3>2. Enabled(rows') = Enabled(rows) \ {id}
      BY <1>0, <3>1 DEF Enabled, Presets
    <3>3. OneActive'
      BY <2>1, <3>2 DEF OneActive
    <3>4. Enabled(rows) # {} /\ Enabled(rows') = {}
            => id \in Enabled(rows) /\ rows'[id] = "absent"
      BY <1>0, <3>1, <3>2 DEF Enabled, Presets
    <3>5. QED
      BY <3>3, <3>4
  <2>3. CASE op # "delete"
    <3>1. rows' = [rows EXCEPT ![id] = IF on THEN "on" ELSE "off"]
      BY <1>1, <2>3 DEF Statement, After
    <3>2. CASE Listed(rows) = {}
      <4>1. Enabled(rows) = {} /\ Enabled(rows') \subseteq {id}
        BY <1>0, <3>1, <3>2 DEF Enabled, Listed, Presets
      <4>2. QED
        BY <4>1 DEF OneActive
    <3>3. CASE Listed(rows) # {} /\ op = "update"
      <4>1. rows[id] # "absent" /\ (on <=> rows[id] = "on")
        BY <1>1, <3>3 DEF Statement
      <4>2. rows' = rows
        BY <1>0, <3>1, <4>1 DEF Presets
      <4>3. QED
        BY <4>2, <2>1 DEF OneActive, Enabled
    <3>4. CASE Listed(rows) # {} /\ op = "create"
      <4>1. rows[id] = "absent" /\ ~on
        BY <1>1, <3>4 DEF Statement
      <4>2. Enabled(rows') = Enabled(rows)
        BY <1>0, <3>1, <4>1 DEF Enabled, Presets
      <4>3. QED
        BY <4>2, <2>1 DEF OneActive
    <3>5. QED
      BY <1>1, <2>3, <3>2, <3>3, <3>4
  <2>4. QED
    BY <2>2, <2>3
<1>2. CASE t \in seeding
  <2>1. PICK id \in Free(t) : Statement("create", id, Listed(had) = {} /\ Upcoming = 1)
    BY <1>2 DEF Request
  <2>2. todo # {}
    BY <1>0, <1>2 DEF Seeds
  <2>3. Listed(had) = {} /\ Upcoming = 1 => Listed(rows) = {}
    BY <1>0, <1>2, <2>2, UpcomingFirst DEF HadFresh
  <2>4. (Listed(had) = {} /\ Upcoming = 1) \in BOOLEAN
    OBVIOUS
  <2>5. QED
    BY <1>1, <2>1, <2>3, <2>4
<1>3. CASE t \notin seeding
  <2>1. PICK id : Statement(call.op, id, call.on) /\ (Creates(t) \/ id = call.id)
    BY <1>3 DEF Request
  <2>2. /\ call.op \in Ops \ {"none"}
        /\ call.op = "activate" => rows[call.id] = "off" /\ call.id \in Ids
        /\ call.op = "create" /\ call.on => Listed(rows) = {}
        /\ call.op = "update" =>
              \/ rows[call.id] # "absent" /\ (call.on <=> rows[call.id] = "on")
              \/ Listed(rows) = {}
    BY <1>0, <1>3 DEF CallFits
  <2>3. call.on \in BOOLEAN
    BY <1>0 DEF PTypes
  <2>4. Creates(t) <=> call.op = "create"
    BY <1>3 DEF Creates
  <2>5. CASE call.op = "activate"
    <3>1. \A i, j \in Enabled(rows') : i = j
      BY <1>0, <2>1, <2>5, ActivationIsAlone
    <3>2. id = call.id /\ id \in Ids /\ rows[id] = "off"
      BY <2>1, <2>2, <2>4, <2>5
    <3>3. rows'[id] = "on"
      BY <2>1, <2>5, <3>2 DEF Statement, After
    <3>4. id \in Enabled(rows')
      BY <3>2, <3>3 DEF Enabled
    <3>5. QED
      BY <3>1, <3>4 DEF OneActive
  <2>6. CASE call.op # "activate"
    BY <1>1, <2>1, <2>2, <2>3, <2>4, <2>6 DEF Ops
  <2>7. QED
    BY <2>5, <2>6
<1>4. QED
  BY <1>2, <1>3

-----------------------------------------------------------------------------
(* The steps.                                                               *)

\* A click that sends a request for a row on show keeps the invariant.
LEMMA ClickStep ==
    ASSUME PInv, NEW request \in [op: Ops \ {"none"}, id: Ids \cup {NoId}, on: BOOLEAN],
           Click(request),
           request.op # "create" => request.id \in Ids,
           request.op = "activate" => shown[request.id] = "off",
           request.op = "create" /\ request.on => Listed(shown) = {},
           request.op = "update" =>
              \/ shown[request.id] # "absent" /\ (request.on <=> shown[request.id] = "on")
              \/ Listed(shown) = {}
    PROVE  PInv'
<1> USE DEF Click
<1>1. PTypes /\ BusyActs /\ Seeds /\ SelectionShown /\ OneActive
  BY DEF PInv
<1>2. Act \in Threads /\ Stage(Act, "write") /\ rows' = rows /\ UNCHANGED <<shown, sel, heard, seeds>>
  BY DEF Threads, Stage, vars
<1>3. /\ at' \in [Threads -> {"idle", "write", "reply", "list", "listed"}]
      /\ at'[Act] = "write"
      /\ \A s \in Threads \ {Act} : at'[s] = at[s]
  BY <1>1, <1>2, StageType
<1>4. call' = request /\ call' \in [op: Ops, id: Ids \cup {NoId}, on: BOOLEAN]
  OBVIOUS
<1>5. PTypes'
  BY <1>1, <1>2, <1>3, <1>4 DEF PTypes, seeds
<1>6. BusyActs'
  BY <1>3 DEF BusyActs
<1>7. at[Act] = "idle" /\ Act \notin seeding
  BY <1>1, <1>2 DEF BusyActs, Seeds
<1>8. Seeds' /\ SelectionShown'
  BY <1>1, <1>2, <1>3, <1>7 DEF Seeds, SelectionShown, Listed, seeds
<1>9. OneActive'
  BY <1>1, <1>2 DEF OneActive, Enabled
<1>10. ASSUME ~disturbed' PROVE Undisturbed'
  <2>1. ~disturbed /\ at[First] = "idle" /\ Undisturbed
    BY <1>10 DEF PInv
  <2>2. \A s \in Threads \ {Act} : at'[s] = "idle"
    BY <1>3, <2>1 DEF Threads
  <2>3. shown = rows
    BY <1>7, <2>1 DEF Undisturbed, ShownFresh, Threads
  <2>4. \A s \in Threads : at'[s] # "idle" => s = Act /\ at'[s] = "write"
    BY <1>3, <2>2
  <2>5. ThreadAlone' /\ HeardFresh'
    BY <2>4 DEF ThreadAlone, HeardFresh
  <2>6. HadFresh'
    BY <1>1, <1>2, <1>7, <2>4 DEF HadFresh, seeds, PTypes
  <2>7. ShownFresh'
    BY <1>2, <2>3 DEF ShownFresh
  <2>8. CallFits'
    BY <1>2, <1>4, <2>2, <2>3 DEF CallFits, Listed
  <2>9. QED
    BY <2>5, <2>6, <2>7, <2>8 DEF Undisturbed
<1>11. QED
  BY <1>5, <1>6, <1>8, <1>9, <1>10 DEF PInv

\* What the user does to the page keeps it.
LEMMA UserStep ==
    ASSUME PInv, \/ \E id \in Ids : Pick(id) \/ Use(id)
                 \/ StartNew \/ Save \/ DeletePreset
    PROVE  PInv'
<1>1. PTypes /\ SelectionShown
  BY DEF PInv
<1>2. ASSUME NEW id \in Ids \cup {NoId}, Select(id), id # NoId => shown[id] # "absent"
      PROVE  PInv'
  <2>1. rows' = rows /\ UNCHANGED <<shown, busy, at, call, heard, seeds, notes>> /\ sel' = id
    BY <1>2 DEF Select, vars
  <2> USE DEF seeds, notes
  <2>2. PTypes' /\ SelectionShown'
    BY <1>1, <1>2, <2>1 DEF PTypes, SelectionShown
  <2>3. BusyActs' /\ Seeds' /\ OneActive'
    BY <2>1 DEF PInv, BusyActs, Seeds, OneActive, Enabled
  <2>4. Undisturbed => Undisturbed'
    BY <2>1 DEF Undisturbed, ThreadAlone, HeardFresh, HadFresh, ShownFresh, CallFits, Listed
  <2>5. QED
    BY <2>1, <2>2, <2>3, <2>4 DEF PInv
<1>3. ASSUME NEW id \in Ids, Pick(id) PROVE PInv'
  BY <1>2, <1>3 DEF Pick
<1>4. CASE StartNew
  BY <1>2, <1>4 DEF StartNew
<1>5. ASSUME NEW id \in Ids, Use(id) PROVE PInv'
  <2>1. TRUE \in BOOLEAN
    OBVIOUS
  <2>2. QED
    BY <1>5, <2>1, ClickStep DEF Use, Ops
<1>6. CASE Save
  <2> DEFINE request == [op |-> IF sel = NoId THEN "create" ELSE "update",
                         id |-> sel, on |-> EnabledFlag]
  <2>1. EnabledFlag \in BOOLEAN
    BY DEF EnabledFlag
  <2>2. request \in [op: Ops \ {"none"}, id: Ids \cup {NoId}, on: BOOLEAN]
    BY <1>1, <2>1 DEF PTypes, Ops
  <2>3. request.op = "create" /\ request.on => Listed(shown) = {}
    BY DEF EnabledFlag
  <2>4. request.op = "update" =>
              \/ shown[request.id] # "absent" /\ (request.on <=> shown[request.id] = "on")
              \/ Listed(shown) = {}
    BY <1>1 DEF EnabledFlag, SelectionShown
  <2>5. request.op # "create" => request.id \in Ids
    BY <1>1 DEF PTypes
  <2>6. Click(request)
    BY <1>6 DEF Save
  <2>7. request.op # "activate"
    OBVIOUS
  <2> HIDE DEF request
  <2>8. QED
    BY <2>2, <2>3, <2>4, <2>5, <2>6, <2>7, ClickStep
<1>7. CASE DeletePreset
  BY <1>1, <1>7, ClickStep DEF DeletePreset, Ops, PTypes
<1>8. QED
  BY <1>3, <1>4, <1>5, <1>6, <1>7

\* A query of the page keeps the invariant.
LEMMA QueryStep ==
    ASSUME PInv, NEW t \in Threads, Query(t)
    PROVE  PInv'
<1>1. PTypes /\ BusyActs /\ Seeds /\ SelectionShown /\ OneActive
  BY DEF PInv
<1>2. /\ Stage(t, "listed") /\ at[t] = "list" /\ rows' = rows
      /\ UNCHANGED <<shown, sel, busy, call, seeds, split>>
  BY DEF Query, view, vars
<1>3. /\ at' \in [Threads -> {"idle", "write", "reply", "list", "listed"}]
      /\ at'[t] = "listed"
      /\ \A s \in Threads \ {t} : at'[s] = at[s]
  BY <1>1, <1>2, StageType
<1>4. heard' \in [Threads -> Presets]
  BY <1>1 DEF Query, PTypes, Presets, Nothing
<1>5. PTypes'
  BY <1>1, <1>2, <1>3, <1>4 DEF PTypes, seeds
<1>6. BusyActs' /\ Seeds' /\ SelectionShown' /\ OneActive'
  <2>1. BusyActs'
    BY <1>1, <1>2, <1>3, SchedulePageAssumption DEF BusyActs, Threads
  <2>2. Seeds'
    BY <1>1, <1>2, <1>3 DEF Seeds, seeds, PTypes
  <2>3. SelectionShown' /\ OneActive'
    BY <1>1, <1>2 DEF SelectionShown, OneActive, Enabled, Listed
  <2>4. QED
    BY <2>1, <2>2, <2>3
<1>7. ASSUME ~disturbed' PROVE Undisturbed'
  <2>1. db /\ \A s \in Threads \ {t} : at[s] = "idle"
    BY <1>7 DEF Query
  <2>2. heard'[t] = rows
    BY <1>1, <2>1 DEF Query, PTypes
  <2>3. \A s \in Threads : at'[s] # "idle" => s = t
    BY <1>3, <2>1
  <2>4. ThreadAlone' /\ HeardFresh'
    BY <1>2, <2>2, <2>3 DEF ThreadAlone, HeardFresh
  <2>5. \A s \in Threads : at'[s] # "write"
    BY <1>3, <2>3
  <2>6. HadFresh'
    BY <1>5, <2>5 DEF HadFresh, PTypes
  <2>7. ShownFresh' /\ CallFits'
    BY <1>3, <2>5 DEF ShownFresh, CallFits
  <2>8. QED
    BY <2>4, <2>6, <2>7 DEF Undisturbed
<1>8. QED
  BY <1>5, <1>6, <1>7 DEF PInv

\* The list that load() shows.
LEMMA ShownStep ==
    ASSUME PInv, NEW t \in Threads, at[t] = "listed",
           Show(t, heard[t]), Heard(t), UNCHANGED <<rows, disturbed, split>>,
           \/ UNCHANGED <<seeding, todo, had>> /\ t \notin seeding
           \/ seeding' = {} /\ todo' = todo /\ had' = Nothing
    PROVE  PInv'
<1>1. PTypes /\ BusyActs /\ Seeds /\ OneActive /\ heard[t] \in Presets
  BY DEF PInv, PTypes
<1>2. /\ shown' = heard[t] /\ shown' \in Presets
      /\ sel' \in Ids \cup {NoId}
      /\ SelectionShown'
      /\ at' \in [Threads -> {"idle", "write", "reply", "list", "listed"}]
      /\ at'[t] = "idle"
      /\ \A s \in Threads \ {t} : at'[s] = at[s]
      /\ call' \in [op: Ops, id: Ids \cup {NoId}, on: BOOLEAN]
      /\ BusyActs'
  BY <1>1, ShowFacts
<1>3. heard' \in [Threads -> Presets] /\ had' \in Presets
  BY <1>1 DEF Heard, PTypes, Presets, Nothing
<1>4. PTypes'
  BY <1>1, <1>2, <1>3 DEF PTypes
<1>5. Seeds' /\ OneActive'
  BY <1>1, <1>2 DEF Seeds, OneActive, Enabled, PTypes
<1>6. ASSUME ~disturbed' PROVE Undisturbed'
  <2>1. ThreadAlone /\ heard[t] = rows
    BY <1>6 DEF PInv, Undisturbed, HeardFresh
  <2>2. \A s \in Threads : at'[s] = "idle"
    BY <1>2, <2>1 DEF ThreadAlone
  <2>3. ThreadAlone' /\ HeardFresh' /\ HadFresh' /\ CallFits'
    BY <1>4, <2>2 DEF ThreadAlone, HeardFresh, HadFresh, CallFits, PTypes
  <2>4. ShownFresh'
    BY <1>2, <2>1, <2>2 DEF ShownFresh
  <2>5. QED
    BY <2>3, <2>4 DEF Undisturbed
<1>7. QED
  BY <1>2, <1>4, <1>5, <1>6 DEF PInv

\* An empty list that the page is told of may start the seeding.
LEMMA SeedStartsStep ==
    ASSUME PInv, NEW t \in Threads, SeedStarts(t)
    PROVE  PInv'
<1>1. PTypes /\ BusyActs /\ Seeds /\ SelectionShown /\ OneActive /\ heard[t] \in Presets
  BY DEF PInv, PTypes
<1>2. /\ Stage(t, "write") /\ at[t] = "listed" /\ rows' = rows
      /\ UNCHANGED <<shown, sel, busy, call, disturbed, split>>
      /\ seeding' = {t} /\ todo' = Missing(heard[t]) /\ todo' # {} /\ had' = heard[t]
  BY DEF SeedStarts, view, vars, notes
<1>3. /\ at' \in [Threads -> {"idle", "write", "reply", "list", "listed"}]
      /\ at'[t] = "write"
      /\ \A s \in Threads \ {t} : at'[s] = at[s]
  BY <1>1, <1>2, StageType
<1>4. heard' \in [Threads -> Presets] /\ todo' \in SUBSET DOMAIN STARTERS
  BY <1>1, <1>2 DEF SeedStarts, Heard, Missing, PTypes, Presets, Nothing
<1>5. PTypes'
  BY <1>1, <1>2, <1>3, <1>4 DEF PTypes
<1>6. BusyActs' /\ Seeds' /\ SelectionShown' /\ OneActive'
  <2>1. BusyActs'
    BY <1>1, <1>2, <1>3, SchedulePageAssumption DEF BusyActs, Threads
  <2>2. Seeds'
    BY <1>2, <1>3 DEF Seeds
  <2>3. SelectionShown' /\ OneActive'
    BY <1>1, <1>2 DEF SelectionShown, OneActive, Enabled, Listed
  <2>4. QED
    BY <2>1, <2>2, <2>3
<1>7. ASSUME ~disturbed' PROVE Undisturbed'
  <2>1. ThreadAlone /\ heard[t] = rows
    BY <1>2, <1>7 DEF PInv, Undisturbed, HeardFresh
  <2>2. \A s \in Threads : at'[s] # "idle" => s = t
    BY <1>2, <1>3, <2>1 DEF ThreadAlone
  <2>3. ThreadAlone' /\ HeardFresh'
    BY <1>3, <2>2 DEF ThreadAlone, HeardFresh
  <2>4. HadFresh'
    BY <1>2, <2>1 DEF HadFresh, Listed
  <2>5. ShownFresh' /\ CallFits'
    BY <1>2, <1>3, <2>2 DEF ShownFresh, CallFits
  <2>6. QED
    BY <2>3, <2>4, <2>5 DEF Undisturbed
<1>8. QED
  BY <1>5, <1>6, <1>7 DEF PInv

\* A statement of the page that runs keeps the invariant.
LEMMA RunsStep ==
    ASSUME PInv, NEW t \in Threads, Runs(t)
    PROVE  PInv'
<1>1. PTypes /\ BusyActs /\ Seeds /\ SelectionShown /\ OneActive
  BY DEF PInv
<1>2. /\ Stage(t, "reply") /\ at[t] = "write" /\ UNCHANGED disturbed /\ Request(t)
      /\ UNCHANGED <<shown, sel, busy, call, heard, seeding, todo, had>>
  BY DEF Runs, view, seeds
<1>3. /\ at' \in [Threads -> {"idle", "write", "reply", "list", "listed"}]
      /\ at'[t] = "reply"
      /\ \A s \in Threads \ {t} : at'[s] = at[s]
  BY <1>1, <1>2, StageType
<1>4. rows' \in Presets
  BY <1>1, <1>2, StatementType DEF Request
<1>5. PTypes'
  BY <1>1, <1>2, <1>3, <1>4 DEF PTypes
<1>6. BusyActs' /\ Seeds' /\ SelectionShown'
  <2>1. BusyActs'
    BY <1>1, <1>2, <1>3, SchedulePageAssumption DEF BusyActs, Threads
  <2>2. Seeds'
    BY <1>1, <1>2, <1>3 DEF Seeds, PTypes
  <2>3. SelectionShown'
    BY <1>1, <1>2 DEF SelectionShown, Listed
  <2>4. QED
    BY <2>1, <2>2, <2>3
<1>7. OneActive'
  <2>1. CASE ~disturbed
    BY <1>1, <1>2, <2>1, RequestFits
  <2>2. CASE disturbed
    BY <1>1, <1>2, <2>2, ExcusedStatement DEF Request
  <2>3. QED
    BY <2>1, <2>2
<1>8. ASSUME ~disturbed' PROVE Undisturbed'
  <2>1. ThreadAlone
    BY <1>2, <1>8 DEF PInv, Undisturbed
  <2>2. \A s \in Threads : at'[s] # "idle" => s = t /\ at'[s] = "reply"
    BY <1>2, <1>3, <2>1 DEF ThreadAlone
  <2>3. ThreadAlone' /\ HeardFresh'
    BY <2>2 DEF ThreadAlone, HeardFresh
  <2>4. HadFresh'
    BY <1>5, <2>2 DEF HadFresh, PTypes
  <2>5. ShownFresh' /\ CallFits'
    BY <1>3, <2>2 DEF ShownFresh, CallFits
  <2>6. QED
    BY <2>3, <2>4, <2>5 DEF Undisturbed
<1>9. QED
  BY <1>5, <1>6, <1>7, <1>8 DEF PInv

\* The reply to a statement keeps the invariant.
LEMMA ReplyStep ==
    ASSUME PInv, NEW t \in Threads, Reply(t)
    PROVE  PInv'
<1>1. PTypes /\ BusyActs /\ Seeds /\ SelectionShown /\ OneActive
  BY DEF PInv
<1>2. PICK where \in {"write", "list"} :
         /\ Stage(t, where)
         /\ where = "write" => t \in seeding /\ todo' # {}
         /\ where = "list" => t \notin seeding \/ todo' = {}
  BY DEF Reply
<1>3. /\ at[t] = "reply" /\ rows' = rows
      /\ todo' = IF t \in seeding THEN todo \ {Upcoming} ELSE todo
      /\ UNCHANGED <<shown, sel, busy, call, heard, seeding, had, disturbed, split>>
  BY DEF Reply, view, vars, notes
<1>4. /\ at' \in [Threads -> {"idle", "write", "reply", "list", "listed"}]
      /\ at'[t] = where
      /\ \A s \in Threads \ {t} : at'[s] = at[s]
  BY <1>1, <1>2, StageType
<1>5. PTypes'
  BY <1>1, <1>3, <1>4 DEF PTypes
<1>6. BusyActs' /\ SelectionShown' /\ OneActive'
  <2>1. BusyActs'
    BY <1>1, <1>3, <1>4, SchedulePageAssumption DEF BusyActs, Threads
  <2>2. SelectionShown' /\ OneActive'
    BY <1>1, <1>3 DEF SelectionShown, OneActive, Enabled, Listed
  <2>3. QED
    BY <2>1, <2>2
<1>7. Seeds'
  <2>1. CASE t \in seeding
    BY <1>1, <1>2, <1>3, <1>4, <2>1 DEF Seeds
  <2>2. CASE t \notin seeding
    BY <1>1, <1>3, <1>4, <2>2 DEF Seeds, PTypes
  <2>3. QED
    BY <2>1, <2>2
<1>8. ASSUME ~disturbed' PROVE Undisturbed'
  <2>1. ThreadAlone
    BY <1>3, <1>8 DEF PInv, Undisturbed
  <2>2. \A s \in Threads : at'[s] # "idle" => s = t
    BY <1>3, <1>4, <2>1 DEF ThreadAlone
  <2>3. ThreadAlone' /\ HeardFresh'
    BY <1>4, <2>2 DEF ThreadAlone, HeardFresh
  <2>4. t \in seeding => 1 \notin todo'
    <3>1. t \in seeding => todo # {} /\ todo' = todo \ {Upcoming}
      BY <1>1, <1>3 DEF Seeds
    <3>2. QED
      BY <1>1, <3>1, UpcomingFirst
  <2>5. HadFresh'
    BY <1>3, <1>5, <2>2, <2>4 DEF HadFresh, PTypes
  <2>6. ShownFresh' /\ CallFits'
    BY <1>2, <1>3, <1>4, <2>2 DEF ShownFresh, CallFits
  <2>7. QED
    BY <2>3, <2>5, <2>6 DEF Undisturbed
<1>9. QED
  BY <1>5, <1>6, <1>7, <1>8 DEF PInv

\* A call that fails keeps the invariant.
LEMMA FailedStep ==
    ASSUME PInv, NEW t \in Threads, Catch(t), UNCHANGED <<rows, split>>
    PROVE  PInv'
<1>1. PTypes' /\ BusyActs' /\ Seeds' /\ SelectionShown' /\ disturbed'
  BY CatchFacts DEF PInv
<1>2. OneActive'
  BY DEF PInv, OneActive, Enabled
<1>3. QED
  BY <1>1, <1>2 DEF PInv

\* So does every step of the page and of the server's rows.
LEMMA NextPInv ==
    ASSUME PInv, [PNext]_pvars
    PROVE  PInv'
<1>1. CASE \/ \E id \in Ids : Pick(id) \/ Use(id)
           \/ StartNew \/ Save \/ DeletePreset
  BY <1>1, UserStep
<1>2. ASSUME NEW t \in Threads, Query(t) PROVE PInv'
  BY <1>2, QueryStep
<1>3. ASSUME NEW t \in Threads, Answer(t) PROVE PInv'
  BY <1>3, ShownStep DEF Answer, vars, notes
<1>4. ASSUME NEW t \in Threads, SeedStarts(t) PROVE PInv'
  BY <1>4, SeedStartsStep
<1>5. ASSUME NEW t \in Threads, SeedEnds(t) PROVE PInv'
  BY <1>5, ShownStep DEF SeedEnds, vars, notes
<1>6. ASSUME NEW t \in Threads, Runs(t) PROVE PInv'
  BY <1>6, RunsStep
<1>7. ASSUME NEW t \in Threads, Reply(t) PROVE PInv'
  BY <1>7, ReplyStep
<1>8. ASSUME NEW t \in Threads, Rejected(t) \/ ReplyFails(t) \/ Lose(t) PROVE PInv'
  BY <1>8, FailedStep DEF Rejected, ReplyFails, Lose, vars
<1>9. CASE Reopen
  <2> USE DEF Reopen
  <2>1. PTypes'
    BY <1>9 DEF PInv, PTypes, Presets, Ops, Nothing, Loading, NoCall, Threads, vars
  <2>2. BusyActs' /\ Seeds' /\ SelectionShown'
    BY <1>9, SchedulePageAssumption DEF BusyActs, Seeds, SelectionShown, Loading, Threads
  <2>3. OneActive'
    BY <1>9 DEF PInv, OneActive, Enabled, vars
  <2>4. QED
    BY <1>9, <2>1, <2>2, <2>3 DEF PInv
<1>10. CASE Elsewhere
  <2>1. disturbed' /\ UNCHANGED <<shown, sel, busy, at, call, heard, seeding, todo, had>>
    BY <1>10 DEF Elsewhere, page, view, seeds
  <2>2. PICK op \in {"create", "update", "delete", "activate"}, id \in Ids, on \in BOOLEAN :
           Statement(op, id, on)
    BY <1>10 DEF Elsewhere
  <2>3. PTypes' /\ BusyActs' /\ Seeds' /\ SelectionShown'
    BY <2>1, <2>2, StatementType
       DEF PInv, PTypes, BusyActs, Seeds, SelectionShown, Listed
  <2>4. OneActive'
    BY <2>1, <2>2, ExcusedStatement DEF PInv
  <2>5. QED
    BY <2>1, <2>3, <2>4 DEF PInv
<1>11. ASSUME UNCHANGED <<rows, page, disturbed, split>> PROVE PInv'
  <2>1. PTypes' /\ BusyActs' /\ Seeds' /\ SelectionShown' /\ OneActive'
    BY <1>11 DEF PInv, PTypes, BusyActs, Seeds, SelectionShown, OneActive, Enabled, Listed,
                 page, view, seeds
  <2>2. Undisturbed => Undisturbed'
    BY <1>11 DEF Undisturbed, ThreadAlone, HeardFresh, HadFresh, ShownFresh, CallFits, Listed,
                 page, view, seeds
  <2>3. QED
    BY <1>11, <2>1, <2>2 DEF PInv
<1>12. CASE Outage
  BY <1>11, <1>12 DEF Outage, DbDown
<1>13. CASE OutageOver
  BY <1>11, <1>13 DEF OutageOver, DbUp, notes
<1>14. CASE UNCHANGED pvars
  BY <1>11, <1>14 DEF pvars, vars, notes
<1>15. QED
  BY <1>1, <1>2, <1>3, <1>4, <1>5, <1>6, <1>7, <1>8, <1>9, <1>10, <1>12, <1>13, <1>14
     DEF PNext

-----------------------------------------------------------------------------
(* The theorems.                                                            *)

\* The invariant holds in every state of the page.
THEOREM PageInvariant == PSpec => []PInv
<1>1. PInit => PInv
  BY InitPInv
<1>2. PInv /\ [PNext]_pvars => PInv'
  BY NextPInv
<1>3. QED
  BY <1>1, <1>2, PTL DEF PSpec

\* schedules.ts:62: no sequence of saves, activations, deletions and seedings
\* enables a second schedule, unless it acted on a list that was out of date.
THEOREM OneScheduleActive == PSpec => []OneActive
<1>1. PInv => OneActive
  BY DEF PInv
<1>2. QED
  BY <1>1, PageInvariant, PTL

\* A page at rest, whose last list was read with nothing else going on, shows
\* the rows (page.tsx:151-195, every action ends in load()).
THEOREM RestShowsRows == PSpec => []PageShowsRows
<1>1. PInv => PageShowsRows
  BY DEF PInv, Undisturbed, ShownFresh, PageShowsRows
<1>2. QED
  BY <1>1, PageInvariant, PTL

\* Under the invariant a save finds the row it was started for.
LEMMA SavesFind ==
    ASSUME PInv
    PROVE  SaveFindsRow
<1>1. SUFFICES ASSUME at[Act] = "write", ~Creates(Act), call.op = "update", ~disturbed
               PROVE  rows[call.id] # "absent" \/ Listed(shown) = {}
  BY DEF SaveFindsRow
<1>2. Act \in Threads \ seeding
  BY <1>1 DEF Creates, Threads
<1>3. CallFits /\ ShownFresh
  BY <1>1 DEF PInv, Undisturbed
<1>4. QED
  BY <1>1, <1>2, <1>3 DEF CallFits, ShownFresh, Listed

\* A save whose 404 nobody sees is one from a page that shows no preset at all.
THEOREM SavesLand == PSpec => []SaveFindsRow
<1>1. QED
  BY SavesFind, PageInvariant, PTL

\* What RunningStays says of a step.
Kept ==
    Enabled(rows) # {} /\ Enabled(rows') = {} /\ ~disturbed'
        => \E id \in Enabled(rows) : rows'[id] = "absent"

\* Every step keeps a schedule enabled, unless the page is disturbed or deletes it.
LEMMA KeptStep ==
    ASSUME PInv, [PNext]_pvars
    PROVE  Kept
<1> USE DEF Kept
<1>1. CASE rows' = rows
  BY <1>1 DEF Enabled
<1>2. ASSUME NEW t \in Threads, Runs(t) PROVE Kept
  BY <1>2, RequestFits DEF Runs, PInv
<1>3. CASE Elsewhere
  BY <1>3 DEF Elsewhere
<1>4. rows' = rows \/ Elsewhere \/ \E t \in Threads : Runs(t)
  BY DEF PNext, Pick, Use, StartNew, Save, DeletePreset, Click, Select, Query, Answer,
         SeedStarts, SeedEnds, Rejected, Reply, ReplyFails, Lose, Reopen, Outage,
         OutageOver, DbDown, DbUp, pvars, vars
<1>5. QED
  BY <1>1, <1>2, <1>3, <1>4

\* page.tsx:102-103, "we never steal active": saving, seeding and activating
\* leave a schedule in force; only deleting the one that runs ends it.
THEOREM RunningIsKept == PSpec => RunningStays
<1>1. PInv /\ [PNext]_pvars => [Kept]_pvars
  BY KeptStep
<1>2. QED
  BY <1>1, PageInvariant, PTL DEF PSpec, RunningStays, Kept

-----------------------------------------------------------------------------
(* The energy page.                                                         *)

Epochs == Nat \cup {Failed}

Kinds == Ranges \cup {"none", "today"}

LoadSlots == 0..MAX_RESETS

ETypes ==
    /\ range \in Ranges \cup {"today"} /\ closure \in Ranges \cup {"today"}
    /\ loads \in [LoadSlots -> [range: Kinds, left: 0..3, from: SUBSET Epochs]]
    /\ reset \in {"no", "asked", "done"}
    /\ resets \in LoadSlots /\ (reset # "no" => resets \in 1..MAX_RESETS)
    /\ epoch \in Nat

\* A load that is under way is for the selected range, and what it has got so
\* far it got from the rows there are.
LoadFits(load, r, e) ==
    load # NoLoad =>
        /\ load.range = r
        /\ load.from \subseteq {e}
        /\ load.left # 3 => load.from = {e}

\* So it is as long as nothing fails or crosses a reset, whose own load is for the
\* range that was selected when it was asked for;
LoadsFit == \A k \in LoadSlots : LoadFits(loads[k], range, epoch)

ClosureFits == reset # "no" => closure = range

\* and when no load is under way or about to be, what the last one got is shown.
DataFits ==
    (reset # "done" /\ \A k \in LoadSlots : ~Pending(k)) =>
        data.range = range /\ data.from = {epoch}

EInv == ETypes /\ (~crossed => LoadsFit /\ ClosureFits /\ DataFits)

-----------------------------------------------------------------------------
\* A load that was just sent fits.
LEMMA SentFits ==
    ASSUME ETypes, NEW r \in Ranges \cup {"today"}
    PROVE  /\ Sent(r) \in [range: Kinds, left: 0..3, from: SUBSET Epochs]
           /\ Sent(r) # NoLoad
           /\ \A e : LoadFits(Sent(r), r, e)
<1>1. QED
  BY DEF Sent, NoLoad, Kinds, LoadFits

\* The page starts with the loads of its mount under way.
LEMMA InitEInv == EInit => EInv
<1> SUFFICES ASSUME EInit PROVE EInv
  OBVIOUS
<1>1. ETypes
  BY EnergyPageAssumption DEF EInit, ETypes, LoadSlots, Sent, NoLoad, Kinds, Epochs
<1>2. loads[0] = Sent("today") /\ 0 \in LoadSlots
  BY EnergyPageAssumption DEF EInit, LoadSlots
<1>3. \A k \in LoadSlots : loads[k] = Sent("today") \/ loads[k] = NoLoad
  BY DEF EInit, LoadSlots
<1>4. /\ Sent("today") # NoLoad
      /\ \A e : LoadFits(Sent("today"), "today", e)
  BY <1>1, SentFits
<1>5. LoadsFit
  BY <1>3, <1>4 DEF LoadsFit, LoadFits, EInit
<1>6. ClosureFits /\ DataFits
  BY <1>2, <1>4 DEF ClosureFits, DataFits, Pending, EInit
<1>7. QED
  BY <1>1, <1>5, <1>6 DEF EInv

\* Another range is selected: what was under way is cancelled, and unless a reset
\* is in the way the new load is the only one.
LEMMA SetRangeStep ==
    ASSUME EInv, NEW r \in Ranges, SetRange(r)
    PROVE  EInv'
<1>1. ETypes /\ 0 \in LoadSlots
  BY EnergyPageAssumption DEF EInv, LoadSlots
<1>2. /\ loads' = [loads EXCEPT ![0] = Sent(r)] /\ range' = r
      /\ crossed' = ResetPending
      /\ UNCHANGED <<data, reset, closure, resets, misses, epoch>>
  BY DEF SetRange, Cancel
<1>3. /\ Sent(r) \in [range: Kinds, left: 0..3, from: SUBSET Epochs]
      /\ Sent(r) # NoLoad /\ \A e : LoadFits(Sent(r), r, e)
  BY <1>1, SentFits
<1>4. loads'[0] = Sent(r) /\ \A k \in LoadSlots \ {0} : loads'[k] = loads[k]
  BY <1>1, <1>2 DEF ETypes
<1>5. ETypes'
  BY <1>1, <1>2, <1>3 DEF ETypes
<1>6. ASSUME ~crossed' PROVE LoadsFit' /\ ClosureFits' /\ DataFits'
  <2>1. reset = "no" /\ \A k \in LoadSlots \ {0} : loads[k] = NoLoad
    <3>1. ~ResetPending
      BY <1>2, <1>6
    <3>2. QED
      BY <3>1, EnergyPageAssumption DEF ResetPending, Pending, LoadSlots
  <2>2. LoadsFit'
    <3>1. ASSUME NEW k \in LoadSlots PROVE LoadFits(loads'[k], r, epoch)
      <4>1. CASE k = 0
        BY <1>3, <1>4, <4>1
      <4>2. CASE k # 0
        BY <1>4, <2>1, <4>2 DEF LoadFits
      <4>3. QED
        BY <4>1, <4>2
    <3>2. QED
      BY <1>2, <3>1 DEF LoadsFit
  <2>3. ClosureFits' /\ DataFits'
    BY <1>1, <1>2, <1>3, <1>4, <2>1 DEF ClosureFits, DataFits, Pending
  <2>4. QED
    BY <2>2, <2>3
<1>7. QED
  BY <1>5, <1>6 DEF EInv

\* A query of a load is answered, from the rows there are or with nothing.
LEMMA AnsweredStep ==
    ASSUME EInv, NEW k \in LoadSlots, NEW e \in Epochs, loads[k].left > 0,
           loads' = [loads EXCEPT ![k].left = @ - 1, ![k].from = @ \cup {e}],
           UNCHANGED <<range, data, reset, closure, resets, epoch>>,
           crossed' \/ (crossed' = crossed /\ e = epoch)
    PROVE  EInv'
<1> DEFINE was == loads[k]
           got == [was EXCEPT !.left = @ - 1, !.from = @ \cup {e}]
<1>0. was.left > 0
  OBVIOUS
<1>1. ETypes /\ was \in [range: Kinds, left: 0..3, from: SUBSET Epochs]
  BY DEF EInv, ETypes
<1>2. /\ got \in [range: Kinds, left: 0..3, from: SUBSET Epochs]
      /\ got.range = was.range /\ got.left = was.left - 1
      /\ got.from = was.from \cup {e} /\ got # NoLoad
  <2>1. was.left - 1 \in 0..3 /\ was.from \cup {e} \in SUBSET Epochs
    BY <1>0, <1>1
  <2>2. got \in [range: Kinds, left: 0..3, from: SUBSET Epochs]
    BY <1>1, <2>1
  <2>3. got.range = was.range /\ got.left = was.left - 1 /\ got.from = was.from \cup {e}
    BY <1>1
  <2>4. got # NoLoad
    BY <2>3 DEF NoLoad
  <2>5. QED
    BY <2>2, <2>3, <2>4
<1>3. loads' = [loads EXCEPT ![k] = got]
  BY <1>1 DEF ETypes
<1>4. loads'[k] = got /\ \A j \in LoadSlots \ {k} : loads'[j] = loads[j]
  BY <1>1, <1>3 DEF ETypes
<1>5. ETypes'
  BY <1>1, <1>2, <1>3 DEF ETypes
<1>6. ASSUME ~crossed' PROVE LoadsFit' /\ ClosureFits' /\ DataFits'
  <2>1. LoadsFit /\ ClosureFits /\ DataFits /\ e = epoch
    BY <1>6 DEF EInv
  <2>2. was # NoLoad
    BY <1>1 DEF NoLoad
  <2>3. LoadFits(got, range, epoch)
    <3>1. LoadFits(was, range, epoch)
      BY <2>1 DEF LoadsFit
    <3>2. QED
      BY <1>2, <2>1, <2>2, <3>1 DEF LoadFits
  <2>4. LoadsFit'
    BY <1>4, <2>1, <2>3 DEF LoadsFit
  <2>5. ClosureFits' /\ DataFits'
    BY <1>2, <1>4, <2>1 DEF ClosureFits, DataFits, Pending
  <2>6. QED
    BY <2>4, <2>5
<1>7. QED
  BY <1>5, <1>6 DEF EInv

\* A load has all its answers, and they are shown.
LEMMA LoadedStep ==
    ASSUME EInv, NEW k \in LoadSlots, Loaded(k)
    PROVE  EInv'
<1>1. ETypes /\ NoLoad \in [range: Kinds, left: 0..3, from: SUBSET Epochs]
  BY DEF EInv, NoLoad, Kinds
<1>2. /\ loads[k] # NoLoad /\ loads[k].left = 0 /\ data' = loads[k]
      /\ loads' = [loads EXCEPT ![k] = NoLoad]
      /\ UNCHANGED <<range, reset, closure, resets, epoch, crossed>>
  BY DEF Loaded, Pending
<1>3. loads'[k] = NoLoad /\ \A j \in LoadSlots \ {k} : loads'[j] = loads[j]
  BY <1>1, <1>2 DEF ETypes
<1>4. ETypes'
  BY <1>1, <1>2 DEF ETypes
<1>5. ASSUME ~crossed' PROVE LoadsFit' /\ ClosureFits' /\ DataFits'
  <2>1. LoadsFit /\ ClosureFits
    BY <1>2, <1>5 DEF EInv
  <2>2. data'.range = range /\ data'.from = {epoch}
    BY <1>2, <2>1 DEF LoadsFit, LoadFits
  <2>3. QED
    BY <1>2, <1>3, <2>1, <2>2 DEF LoadsFit, LoadFits, ClosureFits, DataFits
<1>6. QED
  BY <1>4, <1>5 DEF EInv

\* A reset is over and sends its own load.
LEMMA ResetDoneStep ==
    ASSUME EInv, ResetDone
    PROVE  EInv'
<1>1. ETypes /\ resets \in LoadSlots /\ closure \in Ranges \cup {"today"}
  BY DEF EInv, ETypes
<1>2. /\ reset = "done" /\ reset' = "no"
      /\ loads' = [loads EXCEPT ![resets] = Sent(closure)]
      /\ UNCHANGED <<range, data, closure, resets, epoch, crossed>>
  BY DEF ResetDone
<1>3. /\ Sent(closure) \in [range: Kinds, left: 0..3, from: SUBSET Epochs]
      /\ Sent(closure) # NoLoad /\ \A e : LoadFits(Sent(closure), closure, e)
  BY <1>1, SentFits
<1>4. /\ loads'[resets] = Sent(closure)
      /\ \A j \in LoadSlots \ {resets} : loads'[j] = loads[j]
  BY <1>1, <1>2 DEF ETypes
<1>5. ETypes'
  BY <1>1, <1>2, <1>3 DEF ETypes
<1>6. ASSUME ~crossed' PROVE LoadsFit' /\ ClosureFits' /\ DataFits'
  <2>1. LoadsFit /\ closure = range
    BY <1>2, <1>6 DEF EInv, ClosureFits
  <2>2. QED
    BY <1>1, <1>2, <1>3, <1>4, <2>1
    DEF LoadsFit, LoadFits, ClosureFits, DataFits, Pending
<1>7. QED
  BY <1>5, <1>6 DEF EInv

\* Every step of the energy page keeps its invariant.
LEMMA NextEInv ==
    ASSUME EInv, [ENext]_epage
    PROVE  EInv'
<1>1. ASSUME NEW r \in Ranges, SetRange(r) PROVE EInv'
  BY <1>1, SetRangeStep
<1>2. ASSUME NEW k \in LoadSlots, Read(k) PROVE EInv'
  <2>1. epoch \in Epochs
    BY DEF EInv, ETypes, Epochs
  <2>2. QED
    BY <1>2, <2>1, AnsweredStep DEF Read
<1>3. ASSUME NEW k \in LoadSlots, ReadNothing(k) PROVE EInv'
  <2>1. Failed \in Epochs
    BY DEF Epochs
  <2>2. QED
    BY <1>3, <2>1, AnsweredStep DEF ReadNothing
<1>4. ASSUME NEW k \in LoadSlots, Loaded(k) PROVE EInv'
  BY <1>4, LoadedStep
<1>5. ASSUME NEW k \in LoadSlots, LoadThrows(k) PROVE EInv'
  <2>1. NoLoad \in [range: Kinds, left: 0..3, from: SUBSET Epochs]
    BY DEF NoLoad, Kinds
  <2>2. QED
    BY <1>5, <2>1 DEF LoadThrows, EInv, ETypes
<1>6. CASE ResetStats
  <2>1. ETypes'
    BY <1>6, EnergyPageAssumption DEF ResetStats, EInv, ETypes, LoadSlots
  <2>2. ~crossed => LoadsFit' /\ ClosureFits' /\ DataFits'
    BY <1>6 DEF ResetStats, EInv, LoadsFit, LoadFits, ClosureFits, DataFits, Pending
  <2>3. QED
    BY <1>6, <2>1, <2>2 DEF ResetStats, EInv
<1>7. CASE Wipe
  <2>1. ETypes'
    BY <1>7 DEF Wipe, EInv, ETypes
  <2>2. ~crossed' => LoadsFit' /\ ClosureFits' /\ DataFits'
    BY <1>7 DEF Wipe, EInv, LoadsFit, LoadFits, ClosureFits, DataFits, Pending, LoadSlots
  <2>3. QED
    BY <2>1, <2>2 DEF EInv
<1>8. CASE WipeFails
  <2>1. ETypes'
    BY <1>8 DEF WipeFails, EInv, ETypes
  <2>2. ~crossed' => LoadsFit' /\ ClosureFits' /\ DataFits'
    BY <1>8 DEF WipeFails, EInv, LoadsFit, LoadFits, ClosureFits, DataFits, Pending
  <2>3. QED
    BY <2>1, <2>2 DEF EInv
<1>9. CASE ResetDone
  BY <1>9, ResetDoneStep
<1>10. CASE UNCHANGED epage
  BY <1>10 DEF epage, EInv, ETypes, LoadsFit, LoadFits, ClosureFits, DataFits, Pending
<1>11. QED
  BY <1>1, <1>2, <1>3, <1>4, <1>5, <1>6, <1>7, <1>8, <1>9, <1>10 DEF ENext, LoadSlots

\* Under the invariant the page shows the energy of the range it is set to.
LEMMA EInvShows ==
    ASSUME EInv
    PROVE  ShowsEnergy
<1>1. SUFFICES ASSUME Calm, ~crossed PROVE data.range = range /\ data.from = {epoch}
  BY DEF ShowsEnergy
<1>2. reset = "no" /\ \A k \in LoadSlots : ~Pending(k)
  BY <1>1, EnergyPageAssumption DEF Calm, ResetPending, LoadSlots
<1>3. QED
  BY <1>1, <1>2 DEF EInv, DataFits

\* energy/page.tsx:146-193: unless a load failed, or one crossed a reset, a page at
\* rest shows the selected range and nothing a reset has wiped, however many
\* resets, selections and loads overlapped before.
THEOREM EnergyIsCurrent == ESpec => []ShowsEnergy
<1>1. QED
  BY EInvShows, InitEInv, NextEInv, PTL DEF ESpec

-----------------------------------------------------------------------------
(* The live page.                                                           *)

Modes == {"none", "manual", "schedule", "off"}

States == [mode: Modes, rpm: Nat]

Events == [event: {"controlState"}, state: States] \cup [event: {"telemetry"}, rpm: Nat]

LTypes ==
    /\ srv \in States /\ pump \in Nat
    /\ posts \in Seq(States) /\ live \in Seq(Events)
    /\ control \in States /\ rpm \in Nat \cup {NoRpm}
    /\ demoState \in States
    /\ pending \in Rpms \cup {NoRpm} /\ debounce \in Rpms \cup {NoRpm}
    /\ sock \in {"up", "down"}
    /\ connected \in BOOLEAN /\ demo \in BOOLEAN /\ failures \in 0..2

\* The simulator never runs next to the socket.
DemoOffline == sock = "up" => ~demo

\* The page is told what: the last of the broadcasts on their way.
Told(i) == live[i].event = "controlState"

LastTold(i) == Told(i) /\ \A j \in DOMAIN live : j > i => ~Told(j)

\* It is the state the server is in;
NewsIsTrue == sock = "up" => \A i \in DOMAIN live : LastTold(i) => live[i].state = Dto(srv)

\* and when there is none, and no request either, the page shows it.
StoreIsTrue ==
    sock = "up" /\ posts = <<>> /\ ~unheard /\ (\A i \in DOMAIN live : ~Told(i))
        => control = Dto(srv)

LInv == LTypes /\ DemoOffline /\ NewsIsTrue /\ StoreIsTrue

-----------------------------------------------------------------------------
\* What pool-api says of its state is a state.
LEMMA DtoType ==
    ASSUME NEW s \in States
    PROVE  Dto(s) \in States
<1>1. QED
  BY LivePageAssumption DEF Dto, State, States

\* The page starts with the store's first values.
LEMMA InitLInv == LiveInit => LInv
<1> SUFFICES ASSUME LiveInit PROVE LInv
  OBVIOUS
<1>1. LTypes
  <2>1. /\ State("schedule", 0) \in States /\ NoState \in States
        /\ State("schedule", DEMO_RPM) \in States
    BY LivePageAssumption DEF States, Modes, State, NoState
  <2>2. SCHEDULED_RPM \in Nat
    BY LivePageAssumption
  <2>3. /\ posts \in Seq(States) /\ live \in Seq(Events)
    BY DEF LiveInit
  <2>4. connected \in BOOLEAN /\ demo \in BOOLEAN
    BY DEF LiveInit
  <2>5. QED
    BY <2>1, <2>2, <2>3, <2>4 DEF LiveInit, LTypes
<1>2. QED
  BY <1>1 DEF LiveInit, LInv, DemoOffline, NewsIsTrue, StoreIsTrue

\* A command of this page leaves the server alone, and is under way.
LEMMA PostedKeeps ==
    ASSUME LInv, NEW s \in States, Post(s), NEW c \in States, control' = c,
           demoState' \in States, debounce' \in Rpms \cup {NoRpm},
           UNCHANGED <<server, live, link, rpm, pending, unheard>>
    PROVE  LInv'
<1>1. posts' \in Seq(States) /\ posts' # <<>>
  BY DEF Post, LInv, LTypes
<1>2. LTypes'
  BY <1>1 DEF LInv, LTypes, server, link
<1>3. DemoOffline' /\ NewsIsTrue'
  BY DEF LInv, DemoOffline, NewsIsTrue, LastTold, Told, server, link
<1>4. QED
  BY <1>1, <1>2, <1>3 DEF LInv, StoreIsTrue

\* Setting a speed keeps the invariant.
LEMMA SetRpmKeeps ==
    ASSUME LInv, NEW r \in Rpms, CommandSetRpm(r), debounce' \in Rpms \cup {NoRpm},
           UNCHANGED <<server, live, link, rpm, pending, unheard>>
    PROVE  LInv'
<1>1. /\ State("manual", r) \in States
      /\ State(IF r > 0 THEN "manual" ELSE "off", r) \in States
  BY LivePageAssumption DEF State, States, Modes
<1>2. QED
  BY <1>1, PostedKeeps DEF CommandSetRpm, Optimistic

\* A tap keeps the invariant, whatever it commands.
LEMMA TapKeeps ==
    ASSUME LInv, Tap
    PROVE  LInv'
<1>1. /\ debounce' \in Rpms \cup {NoRpm}
      /\ UNCHANGED <<server, live, link, rpm, pending, unheard>>
  BY DEF Tap, slider, LInv, LTypes
<1>2. CASE CommandResume
  <2>1. /\ State("schedule", 0) \in States
        /\ State("schedule", control.rpm) \in States
        /\ State("schedule", DEMO_RPM) \in States
    BY LivePageAssumption DEF State, States, Modes, LInv, LTypes
  <2>2. QED
    BY <1>1, <1>2, <2>1, PostedKeeps DEF CommandResume, Optimistic
<1>3. CASE \E r \in Rpms : CommandSetRpm(r)
  BY <1>1, <1>3, SetRpmKeeps
<1>4. QED
  BY <1>2, <1>3 DEF Tap

\* A command reaches the server, which tells a connected page.
LEMMA SetControlKeeps ==
    ASSUME LInv, NEW s \in States, SetControl(s), posts' \in Seq(States),
           UNCHANGED <<link, control, rpm, demoState, slider, unheard>>
    PROVE  LInv'
<1>1. srv' \in States
  BY DEF SetControl, LInv, LTypes, States, Modes
<1>2. Control(srv') \in Events /\ Control(srv').event = "controlState"
      /\ Control(srv').state = Dto(srv')
  BY <1>1, DtoType DEF Control, Events
<1>3. live' = IF sock = "up" THEN Append(live, Control(srv')) ELSE live
  BY DEF SetControl, Emit
<1>4. LTypes'
  BY <1>1, <1>2, <1>3 DEF SetControl, LInv, LTypes, link, slider
<1>5. DemoOffline'
  BY DEF LInv, DemoOffline, link
<1>6. ASSUME sock' = "up" PROVE NewsIsTrue' /\ StoreIsTrue'
  <2>1. live' = Append(live, Control(srv')) /\ live \in Seq(Events)
    BY <1>3, <1>6 DEF link, LInv, LTypes
  <2>2. /\ Len(live') \in DOMAIN live' /\ DOMAIN live' = 1..Len(live')
        /\ live'[Len(live')] = Control(srv')
    BY <1>2, <2>1
  <2>3. \A i \in DOMAIN live' : LastTold(i)' => i = Len(live')
    BY <1>2, <2>2 DEF LastTold, Told
  <2>4. QED
    BY <1>2, <2>2, <2>3 DEF NewsIsTrue, StoreIsTrue, Told
<1>7. QED
  BY <1>4, <1>5, <1>6 DEF LInv, NewsIsTrue, StoreIsTrue

\* One that is taken off the list is a command of the page.
LEMMA RemovedType ==
    ASSUME LInv, NEW i \in DOMAIN posts
    PROVE  RemoveAt(posts, i) \in Seq(States) /\ posts[i] \in States
<1>1. posts \in Seq(States) /\ i \in 1..Len(posts)
  BY DEF LInv, LTypes
<1>2. /\ SubSeq(posts, 1, i - 1) \in Seq(States)
      /\ SubSeq(posts, i + 1, Len(posts)) \in Seq(States)
  BY <1>1
<1>3. QED
  BY <1>1, <1>2 DEF RemoveAt

\* The page takes the next event from the socket.
LEMMA OnEventKeeps ==
    ASSUME LInv, OnEvent
    PROVE  LInv'
<1> DEFINE first == live[1]
<1>1. /\ live \in Seq(Events) /\ live # <<>> /\ live' = Tail(live)
      /\ Head(live) = first /\ first \in Events
  BY DEF OnEvent, LInv, LTypes
<1>2. /\ live' \in Seq(Events) /\ Len(live) > 0 /\ Len(live') = Len(live) - 1
      /\ \A i \in DOMAIN live' : i + 1 \in DOMAIN live /\ live'[i] = live[i + 1]
      /\ \A i \in DOMAIN live : i # 1 => i - 1 \in DOMAIN live' /\ live'[i - 1] = live[i]
  BY <1>1
<1>3. UNCHANGED <<server, posts, sock, connected, failures, demo, demoState, slider>>
  BY DEF OnEvent
<1>4. /\ first.event = "telemetry" => first.rpm \in Nat
      /\ first.event # "telemetry" => first.state \in States
  BY <1>1 DEF Events
<1>5. LTypes'
  <2>1. control' \in States /\ rpm' \in Nat \cup {NoRpm}
    BY <1>1, <1>4 DEF OnEvent, LInv, LTypes
  <2>2. QED
    BY <1>2, <1>3, <2>1 DEF LInv, LTypes, server, slider
<1>6. DemoOffline'
  BY <1>3 DEF LInv, DemoOffline
<1>7. ASSUME sock = "up" PROVE NewsIsTrue'
  <2>1. ASSUME NEW i \in DOMAIN live', LastTold(i)' PROVE live'[i].state = Dto(srv)
    <3>1. i \in Nat /\ i + 1 \in DOMAIN live /\ Told(i + 1)
      BY <1>2, <2>1 DEF LastTold, Told
    <3>2. ASSUME NEW j \in DOMAIN live, j > i + 1 PROVE ~Told(j)
      <4>1. j \in Nat /\ j - 1 \in DOMAIN live' /\ live'[j - 1] = live[j] /\ j - 1 > i
        BY <1>1, <1>2, <3>1, <3>2
      <4>2. QED
        BY <2>1, <4>1 DEF LastTold, Told
    <3>3. LastTold(i + 1)
      BY <3>1, <3>2 DEF LastTold
    <3>4. QED
      BY <1>2, <1>7, <3>1, <3>3 DEF LInv, NewsIsTrue
  <2>2. QED
    BY <1>3, <2>1 DEF NewsIsTrue, server, Dto
<1>8. ASSUME sock' = "up", posts' = <<>>, ~unheard', \A i \in DOMAIN live' : ~Told(i)'
      PROVE  control' = Dto(srv)'
  <2>1. \A i \in DOMAIN live : i # 1 => ~Told(i)
    BY <1>2, <1>8 DEF Told
  <2>2. CASE first.event = "telemetry"
    BY <1>1, <1>3, <1>8, <2>1, <2>2 DEF OnEvent, LInv, StoreIsTrue, Told, server, Dto
  <2>3. CASE first.event # "telemetry"
    <3>1. control' = first.state
      BY <1>1, <2>3 DEF OnEvent
    <3>2. 1 \in DOMAIN live /\ Told(1)
      BY <1>1, <1>2, <2>3 DEF Told, Events
    <3>3. LastTold(1)
      BY <1>1, <2>1, <3>2 DEF LastTold
    <3>4. QED
      BY <1>3, <1>8, <3>1, <3>2, <3>3 DEF LInv, NewsIsTrue, server, Dto
  <2>4. QED
    BY <2>2, <2>3
<1>9. QED
  BY <1>3, <1>5, <1>6, <1>7, <1>8 DEF LInv, NewsIsTrue, StoreIsTrue

\* Every step of the live page and of the server it watches keeps the invariant.
LEMMA NextLInv ==
    ASSUME LInv, [LiveNext]_lvars
    PROVE  LInv'
<1>1. CASE Tap
  BY <1>1, TapKeeps
<1>2. CASE OnApply
  <2>1. debounce \in Rpms /\ debounce' \in Rpms \cup {NoRpm}
    BY <1>2 DEF OnApply, LInv, LTypes
  <2>2. QED
    BY <1>2, <2>1, SetRpmKeeps DEF OnApply
<1>3. ASSUME \/ Settle \/ \E r \in Rpms : Commit(r)
      PROVE  LInv'
  BY <1>3 DEF Settle, Commit, Debounced, LInv, LTypes, DemoOffline, NewsIsTrue,
              StoreIsTrue, LastTold, Told, server, link, Dto
<1>4. ASSUME NEW i \in DOMAIN posts, PostArrives(i) PROVE LInv'
  BY <1>4, RemovedType, SetControlKeeps DEF PostArrives
<1>5. ASSUME NEW i \in DOMAIN posts, PostFails(i) PROVE LInv'
  <2>1. RemoveAt(posts, i) \in Seq(States)
    BY RemovedType
  <2>2. QED
    BY <1>5, <2>1 DEF PostFails, LInv, LTypes, DemoOffline, NewsIsTrue, StoreIsTrue,
                      LastTold, Told, server, link, slider, Dto
<1>6. CASE OtherCommand
  <2>1. PICK s \in [mode: {"manual"}, rpm: Rpms] \cup {State("schedule", 0)} : SetControl(s)
    BY <1>6 DEF OtherCommand
  <2>2. s \in States
    <3>1. ASSUME NEW q \in [mode: {"manual"}, rpm: Rpms] PROVE q \in States
      <4>1. Rpms \subseteq Nat
        BY LivePageAssumption
      <4>2. QED
        BY <4>1 DEF States, Modes
    <3>2. State("schedule", 0) \in States
      BY DEF State, States, Modes
    <3>3. QED
      BY <2>1, <3>1, <3>2
  <2>3. posts' \in Seq(States)
    BY <1>6 DEF OtherCommand, LInv, LTypes
  <2>4. QED
    BY <1>6, <2>1, <2>2, <2>3, SetControlKeeps DEF OtherCommand
<1>7. CASE PumpFollows
  <2>1. Dto(srv).rpm \in Nat
    BY DtoType DEF LInv, LTypes, States
  <2>2. QED
    BY <1>7, <2>1 DEF PumpFollows, LInv, LTypes, DemoOffline, NewsIsTrue, StoreIsTrue,
                      LastTold, Told, link, slider, Dto
<1>8. CASE Report
  <2>1. /\ live \in Seq(Events) /\ live' = Append(live, Telemetry) /\ Telemetry \in Events
        /\ Telemetry.event = "telemetry"
    BY <1>8 DEF Report, Telemetry, Events, LInv, LTypes
  <2>2. LTypes'
    BY <1>8, <2>1 DEF Report, LInv, LTypes, server, link, slider
  <2>3. /\ DOMAIN live' = DOMAIN live \cup {Len(live) + 1}
        /\ live'[Len(live) + 1] = Telemetry
        /\ \A i \in DOMAIN live : live'[i] = live[i]
    BY <2>1
  <2>4. NewsIsTrue' /\ StoreIsTrue' /\ DemoOffline'
    BY <1>8, <2>1, <2>3 DEF Report, LInv, NewsIsTrue, StoreIsTrue, DemoOffline,
                            LastTold, Told, server, link, slider, Dto
  <2>5. QED
    BY <2>2, <2>4 DEF LInv
<1>9. CASE OnConnect
  <2>1. Control(srv) \in Events /\ Control(srv).event = "controlState"
        /\ Control(srv).state = Dto(srv)
    BY DtoType DEF Control, Events, LInv, LTypes
  <2>2. live' = <<Control(srv)>> /\ srv' = srv /\ demo' = FALSE
    BY <1>9 DEF OnConnect, Greeting, StopDemo, server
  <2>3. LTypes'
    <3>1. connected' \in BOOLEAN /\ demo' \in BOOLEAN
      BY <1>9 DEF OnConnect, StopDemo
    <3>2. live' \in Seq(Events)
      BY <2>1, <2>2
    <3>3. QED
      BY <1>9, <3>1, <3>2 DEF OnConnect, LInv, LTypes, server, slider
  <2>4. DemoOffline' /\ NewsIsTrue' /\ StoreIsTrue'
    <3>1. 1 \in DOMAIN live' /\ DOMAIN live' = {1} /\ live'[1] = Control(srv)
      BY <2>2
    <3>2. QED
      BY <2>1, <2>2, <3>1 DEF DemoOffline, NewsIsTrue, StoreIsTrue, LastTold, Told, Dto
  <2>5. QED
    BY <2>3, <2>4 DEF LInv
<1>10. CASE OnDisconnect
  <2>1. sock' = "down" /\ live' = <<>>
    BY <1>10 DEF OnDisconnect
  <2>2. LTypes'
    <3>1. connected' \in BOOLEAN
      BY <1>10 DEF OnDisconnect
    <3>2. live' \in Seq(Events) /\ demo' \in BOOLEAN /\ failures' \in 0..2
      BY <1>10, <2>1 DEF OnDisconnect, LInv, LTypes
    <3>3. QED
      BY <1>10, <2>1, <3>1, <3>2 DEF OnDisconnect, LInv, LTypes, server, slider
  <2>3. QED
    BY <2>1, <2>2 DEF LInv, DemoOffline, NewsIsTrue, StoreIsTrue
<1>11. CASE OnConnectError
  <2>1. sock' = "down" /\ failures' \in 0..2
    BY <1>11 DEF OnConnectError, LInv, LTypes
  <2>2. demo' \in BOOLEAN /\ connected' \in BOOLEAN
    BY <1>11 DEF OnConnectError, LInv, LTypes
  <2>3. LTypes'
    BY <1>11, <2>1, <2>2 DEF OnConnectError, LInv, LTypes, server, slider
  <2>4. QED
    BY <2>1, <2>3 DEF LInv, DemoOffline, NewsIsTrue, StoreIsTrue
<1>12. CASE DemoTick
  <2>1. sock = "down" /\ sock' = "down"
    BY <1>12 DEF DemoTick, LInv, LTypes, DemoOffline, link
  <2>2. LTypes'
    BY <1>12 DEF DemoTick, LInv, LTypes, States, server, link, slider
  <2>3. QED
    BY <2>1, <2>2 DEF LInv, DemoOffline, NewsIsTrue, StoreIsTrue
<1>13. CASE OnEvent
  BY <1>13, OnEventKeeps
<1>14. CASE UNCHANGED lvars
  BY <1>14 DEF lvars, LInv, LTypes, DemoOffline, NewsIsTrue, StoreIsTrue, LastTold, Told,
               server, link, slider, Dto
<1>15. QED
  BY <1>1, <1>2, <1>3, <1>4, <1>5, <1>6, <1>7, <1>8, <1>9, <1>10, <1>11, <1>12, <1>13,
     <1>14 DEF LiveNext

\* Under the invariant the page shows what the server says.
LEMMA LInvShows ==
    ASSUME LInv
    PROVE  ShowsServer
<1>1. QED
  BY DEF LInv, StoreIsTrue, ShowsServer, Told, Range

\* socket.ts, controls.ts: the simulator is never passed off as the pump; it runs
\* only while there is no socket.
THEOREM SimulatorIsOffline == LiveSpec => []DemoOffline
<1>1. LInv => DemoOffline
  BY DEF LInv
<1>2. QED
  BY <1>1, InitLInv, NextLInv, PTL DEF LiveSpec

\* controls.ts:10-11: in the quiet the page shows the control state of the server,
\* for any number of commands, requests that overtake each other, and sockets lost,
\* unless a request failed and no broadcast has come since.
THEOREM LivePageIsCurrent == LiveSpec => []ShowsServer
<1>1. QED
  BY LInvShows, InitLInv, NextLInv, PTL DEF LiveSpec

-----------------------------------------------------------------------------
(* All of them next to the server.                                          *)

\* Without a page the requests are anybody's, and nothing is known of the rows;
\* with one there are no others than its own.
RouteFits ==
    /\ route = "none" => disturbed
    /\ route # "none" => \A l \in Loaders : Idle(l)

WInv == IInv /\ PInv /\ EInv /\ LInv /\ RouteFits

\* The pages start closed, and the server as each of them expects it.
LEMMA InitWInv == WInit => WInv
<1> SUFFICES ASSUME WInit PROVE WInv
  OBVIOUS
<1>1. LiveInit /\ PInit /\ EInit
  BY DEF WInit
<1>2. Init
  BY <1>1 DEF PInit
<1>3. RouteFits
  BY <1>1, <1>2 DEF RouteFits, PInit, Init, Idle
<1>4. QED
  BY <1>1, <1>2, <1>3, InitIInv, InitPInv, InitEInv, InitLInv DEF WInv

\* A step without a page: the page that is not there has nothing to lose.
LEMMA AnybodyStep ==
    ASSUME WInv, Anybody, Next
    PROVE  WInv'
<1>1. /\ route = "none" /\ disturbed /\ split' = TRUE
      /\ UNCHANGED <<lvars, page, disturbed, faults, epage, route>>
  BY DEF Anybody, WInv, RouteFits
<1>2. IInv' /\ LInv' /\ EInv'
  BY <1>1, NextIInv, NextLInv, NextEInv DEF WInv
<1>3. rows' \in Presets
  <2>1. rows \in Presets
    BY DEF WInv, PInv, PTypes
  <2>2. QED
    BY <2>1 DEF Presets, Next, Create, Update, Delete, Activate, ReadBack, Throws, Reload,
                Interval, Arrive, DbDown, DbUp
<1>4. PInv'
  <2>1. PTypes'
    BY <1>1, <1>3 DEF WInv, PInv, PTypes, page, view, seeds
  <2>2. BusyActs' /\ Seeds' /\ SelectionShown'
    BY <1>1 DEF WInv, PInv, BusyActs, Seeds, SelectionShown, Listed, page, view, seeds
  <2>3. OneActive' /\ disturbed'
    BY <1>1 DEF OneActive
  <2>4. QED
    BY <2>1, <2>2, <2>3 DEF PInv
<1>5. QED
  BY <1>1, <1>2, <1>4 DEF WInv, RouteFits

\* A statement of the page is in force at once, and nobody else has a request.
LEMMA PageKeepsCache ==
    ASSUME IInv, \A l \in Loaders : Idle(l), PNext
    PROVE  IInv' /\ \A l \in Loaders : Idle(l)'
<1>1. UNCHANGED <<pc, answer, excused>>
         /\ (UNCHANGED <<rows, cached>> \/ cached' = Enabled(rows'))
  BY DEF PNext, Pick, Use, StartNew, Save, DeletePreset, Click, Select, Query, Answer,
         SeedStarts, SeedEnds, Runs, Request, Statement, Rejected, Reply, ReplyFails, Lose,
         Reopen, Elsewhere, Outage, OutageOver, DbDown, DbUp, vars
<1>2. \A l \in Loaders : Idle(l)'
  BY <1>1 DEF Idle
<1>3. QED
  BY <1>1, <1>2 DEF IInv, Types, Alone, AnswerFresh, CacheFresh, Idle, Enabled

\* Every step of the server, of the route and of the open page keeps all of it.
LEMMA NextWInv ==
    ASSUME WInv, [WNext]_wvars
    PROVE  WInv'
<1>1. CASE Anybody /\ Next
  BY <1>1, AnybodyStep
<1>2. CASE Live /\ LiveNext
  <2>1. UNCHANGED <<pvars, epage, route>> /\ UNCHANGED <<vars, disturbed>>
    BY <1>2 DEF Live, pvars, notes
  <2>2. IInv' /\ PInv' /\ EInv' /\ LInv'
    BY <1>2, <2>1, NextIInv, NextPInv, NextEInv, NextLInv DEF WInv
  <2>3. QED
    BY <2>1, <2>2 DEF WInv, RouteFits, Idle, vars
<1>3. CASE Schedule /\ PNext
  <2>1. route = "schedule" /\ UNCHANGED <<lvars, epage, route>>
    BY <1>3 DEF Schedule
  <2>2. PInv' /\ EInv' /\ LInv'
    BY <1>3, <2>1, NextPInv, NextEInv, NextLInv DEF WInv
  <2>3. IInv' /\ \A l \in Loaders : Idle(l)'
    BY <1>3, <2>1, PageKeepsCache DEF WInv, RouteFits
  <2>4. QED
    BY <2>1, <2>2, <2>3 DEF WInv, RouteFits
<1>4. CASE Energy /\ ENext
  <2>1. UNCHANGED <<lvars, pvars, route>> /\ UNCHANGED <<vars, disturbed>>
    BY <1>4 DEF Energy, pvars, notes
  <2>2. IInv' /\ PInv' /\ EInv' /\ LInv'
    BY <1>4, <2>1, NextIInv, NextPInv, NextEInv, NextLInv DEF WInv
  <2>3. QED
    BY <2>1, <2>2 DEF WInv, RouteFits, Idle, vars
<1>5. CASE UNCHANGED wvars
  <2>1. UNCHANGED <<lvars, pvars, epage, route>> /\ UNCHANGED <<vars, disturbed>>
    BY <1>5 DEF wvars, pvars, notes
  <2>2. IInv' /\ PInv' /\ EInv' /\ LInv'
    BY <2>1, NextIInv, NextPInv, NextEInv, NextLInv DEF WInv
  <2>3. QED
    BY <2>1, <2>2 DEF WInv, RouteFits, Idle, vars
<1>6. QED
  BY <1>1, <1>2, <1>3, <1>4, <1>5 DEF WNext

\* Whichever page is open, or none: the cached schedules follow the rows, one
\* schedule is active, and each page shows what it should.
THEOREM PagesKeepTheirPromises ==
    WSpec => [](/\ CacheFresh /\ OneActive /\ PageShowsRows /\ SaveFindsRow
                /\ ShowsEnergy /\ ShowsServer)
<1>1. WInv => /\ CacheFresh /\ OneActive /\ PageShowsRows /\ SaveFindsRow
              /\ ShowsEnergy /\ ShowsServer
  <2> SUFFICES ASSUME WInv
               PROVE  /\ CacheFresh /\ OneActive /\ PageShowsRows /\ SaveFindsRow
                      /\ ShowsEnergy /\ ShowsServer
    OBVIOUS
  <2>1. IInv /\ PInv /\ EInv /\ LInv
    BY DEF WInv
  <2>2. CacheFresh /\ OneActive
    BY <2>1 DEF IInv, PInv
  <2>3. PageShowsRows
    BY <2>1 DEF PInv, Undisturbed, ShownFresh, PageShowsRows
  <2>4. SaveFindsRow /\ ShowsEnergy /\ ShowsServer
    BY <2>1, SavesFind, EInvShows, LInvShows
  <2>5. QED
    BY <2>2, <2>3, <2>4
<1>2. QED
  BY <1>1, InitWInv, NextWInv, PTL DEF WSpec

\* Whichever page is open, the schedule in force is ended by being deleted only.
THEOREM RunningStaysOnEveryRoute == WSpec => RunningStays
<1>1. WInv /\ [WNext]_wvars => [Kept]_pvars
  <2> SUFFICES ASSUME WInv, [WNext]_wvars PROVE [Kept]_pvars
    OBVIOUS
  <2>1. CASE Anybody /\ Next
    BY <2>1 DEF Anybody, WInv, RouteFits, Kept
  <2>2. CASE Schedule /\ PNext
    BY <2>2, KeptStep DEF WInv
  <2>3. CASE (Live /\ LiveNext) \/ (Energy /\ ENext) \/ UNCHANGED wvars
    BY <2>3 DEF Live, Energy, wvars
  <2>4. QED
    BY <2>1, <2>2, <2>3 DEF WNext
<1>2. QED
  BY <1>1, InitWInv, NextWInv, PTL DEF WSpec, RunningStays, Kept
=============================================================================
