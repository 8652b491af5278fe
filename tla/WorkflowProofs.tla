---------------------------- MODULE WorkflowProofs ----------------------------
(***************************************************************************)
(* A step of a workflow run reaches the contact at most once, for any      *)
(* chain, number of lanes, retries, crashes and lost locks: the run lock   *)
(* gives the run to one lane, and the journal in the step log tells every  *)
(* later pickup that the step fired.                                       *)
(***************************************************************************)
EXTENDS WorkflowRun, TLAPS

Stats == {"in_progress", "success", "failed", "waiting", "skipped_after_crash"}
\* Only a question or a wait is ever logged as waiting.
Entries == {e \in [n : Steps, st : Stats] : e.st = "waiting" => Kind[e.n] # "send"}
Logs == Seq(Entries)

\* Lanes that walk the graph on a copy of the log and the position.
Walking == {"start", "step", "run", "park", "advance"}
Views ==
  {Off}
  \cup [pc : {"lock", "skip"}, id : JobIds]
  \cup [pc : {"unlock"}, id : JobIds, end : {"returned", "thrown"}]
  \cup [pc : Walking, id : JobIds, log : Logs, answer : Nat, cur : Nat]
  \cup [pc : {"schedule"}, id : JobIds, seq : Nat]

Runs == [status : {"queued", "running", "waiting"} \cup TerminalRun, cur : 0..End,
         until : {"none", "future", "due"}, log : Logs, answer : Nat]

Shape ==
  /\ run \in Runs
  /\ lane \in [Lanes -> Views]
  /\ lock \in Lanes \cup {Free, Dead}
  /\ replies \in Nat
  /\ fired \in [Steps -> Nat]

\* The log ends with the open journal entry of step n.
Open(log, n) == log # <<>> /\ log[Len(log)] = [n |-> n, st |-> "in_progress"]

\* What the copy of a walking lane has to do with the row.
Copies(v) ==
  /\ v.pc = "start" =>
       v.log = run.log /\ v.cur <= End /\ (v.cur = run.cur \/ (run.cur = 0 /\ v.cur = 1))
  /\ v.pc = "step" => v.log = run.log /\ v.cur = run.cur
  /\ v.pc = "run" =>
       /\ v.log = run.log /\ v.cur = run.cur /\ v.cur \in Steps /\ Kind[v.cur] # "wait"
       /\ Open(run.log, run.cur)
       /\ fired[v.cur] > 0 => Waits(v.log, v.cur)
  /\ v.pc = "park" => v.cur = run.cur /\ v.cur \in Steps /\ Kind[v.cur] = "ask"
  /\ v.pc = "advance" => run.cur < v.cur /\ v.cur <= End

\* A walking lane holds the run lock.
Exclusive == \A l \in Lanes : lane[l].pc \in Walking => lock = l /\ Copies(lane[l])

\* The row tells that step n fired: the run is past it, or its journal entry is open,
\* or the run waits on it.
Told(n) ==
  run.cur > n \/ (run.cur = n /\ (Orphaned(run.log, n) \/ Waits(run.log, n)))
Once == \A n \in Steps : fired[n] <= 1 /\ (fired[n] > 0 => Told(n))

IInv == Shape /\ Exclusive /\ Once

-----------------------------------------------------------------------------
(* The step log.                                                           *)

LEMMA StepsRange == Len(Kind) \in Nat /\ Steps = 1..Len(Kind) /\ End = Len(Kind) + 1
BY ConstantsAssumption DEF Steps, End

LEMMA LanesRange == Free \notin Lanes /\ Dead \notin Lanes
BY ConstantsAssumption DEF Lanes, Free, Dead

LEMMA Domains == \A log \in Logs : DOMAIN log = 1..Len(log) /\ Len(log) \in Nat
BY DEF Logs

LEMMA Grown ==
  ASSUME NEW log \in Logs, NEW n \in Steps, NEW st \in Stats,
         st = "waiting" => Kind[n] # "send"
  PROVE  /\ log \o Entry(n, st) \in Logs
         /\ Len(log \o Entry(n, st)) = Len(log) + 1
         /\ DOMAIN (log \o Entry(n, st)) = 1..(Len(log) + 1)
         /\ (log \o Entry(n, st))[Len(log) + 1] = [n |-> n, st |-> st]
         /\ \A i \in 1..Len(log) : (log \o Entry(n, st))[i] = log[i]
<1> DEFINE e == [n |-> n, st |-> st]
<1>1. e \in Entries
  BY DEF Entries
<1>2. Entry(n, st) = <<e>>
  BY DEF Entry
<1> HIDE DEF e
<1>3. log \o <<e>> \in Logs /\ Len(log \o <<e>>) = Len(log) + 1
  BY <1>1 DEF Logs
<1>4. (log \o <<e>>)[Len(log) + 1] = e /\ \A i \in 1..Len(log) : (log \o <<e>>)[i] = log[i]
  BY <1>1 DEF Logs
<1>5. DOMAIN (log \o <<e>>) = 1..(Len(log) + 1)
  BY <1>3, Domains
<1>6. QED
  BY <1>2, <1>3, <1>4, <1>5 DEF e

LEMMA OpenIsOrphaned ==
  ASSUME NEW log \in Logs, NEW n \in Steps, Open(log, n)
  PROVE  Orphaned(log, n)
<1>1. Len(log) \in DOMAIN log /\ \A j \in DOMAIN log : j <= Len(log)
  BY Domains DEF Open, Logs
<1>2. QED
  BY <1>1 DEF Open, Orphaned

LEMMA JournalOpens ==
  ASSUME NEW log \in Logs, NEW n \in Steps
  PROVE  Open(log \o Entry(n, "in_progress"), n)
<1> DEFINE more == log \o Entry(n, "in_progress")
<1>1. /\ Len(more) = Len(log) + 1 /\ Len(log) \in Nat
      /\ more[Len(log) + 1] = [n |-> n, st |-> "in_progress"]
  BY Grown, Domains DEF Stats
<1> HIDE DEF more
<1>2. more # <<>>
  BY <1>1
<1>3. QED
  BY <1>1, <1>2 DEF Open, more

LEMMA WaitWaits ==
  ASSUME NEW log \in Logs, NEW n \in Steps, Kind[n] # "send"
  PROVE  Waits(log \o Entry(n, "waiting"), n)
<1> DEFINE more == log \o Entry(n, "waiting")
<1>1. /\ DOMAIN more = 1..(Len(log) + 1) /\ Len(log) \in Nat
      /\ more[Len(log) + 1] = [n |-> n, st |-> "waiting"]
  BY Grown, Domains DEF Stats
<1> HIDE DEF more
<1>2. Waits(more, n)
  BY <1>1 DEF Waits
<1>3. QED
  BY <1>2 DEF more

\* A wait in the log is never the wait of a send.
LEMMA WaitsNotSend ==
  ASSUME NEW log \in Logs, NEW n \in Steps, Waits(log, n)
  PROVE  Kind[n] # "send"
<1>1. PICK i \in DOMAIN log : log[i].n = n /\ log[i].st = "waiting"
  BY DEF Waits
<1>2. log[i] \in Entries
  BY DEF Logs
<1>3. QED
  BY <1>1, <1>2 DEF Entries

LEMMA JournalKeepsWait ==
  ASSUME NEW log \in Logs, NEW n \in Steps, Waits(log, n)
  PROVE  Waits(log \o Entry(n, "in_progress"), n)
<1> DEFINE more == log \o Entry(n, "in_progress")
<1>1. /\ DOMAIN more = 1..(Len(log) + 1) /\ Len(log) \in Nat /\ DOMAIN log = 1..Len(log)
      /\ more[Len(log) + 1] = [n |-> n, st |-> "in_progress"]
      /\ \A i \in 1..Len(log) : more[i] = log[i]
  BY Grown, Domains DEF Stats
<1> HIDE DEF more
<1>2. Waits(more, n)
  BY <1>1 DEF Waits
<1>3. QED
  BY <1>2 DEF more

LEMMA Shortened ==
  ASSUME NEW log \in Logs, log # <<>>
  PROVE  SubSeq(log, 1, Len(log) - 1) \in Logs
BY DEF Logs

-----------------------------------------------------------------------------
(* What keeps the invariant.                                               *)

\* A step that leaves the position and the log of the row, and moves no lane but out of the
\* walk.
LEMMA Quiet ==
  ASSUME IInv, Shape', run'.log = run.log, run'.cur = run.cur, fired' = fired,
         \A l \in Lanes : lane'[l].pc \in Walking => lane'[l] = lane[l] /\ (lock = l => lock' = l)
  PROVE  IInv'
<1>1. Exclusive'
  BY DEF IInv, Exclusive, Copies
<1>2. Once'
  BY DEF IInv, Once, Told
<1>3. QED
  BY <1>1, <1>2 DEF IInv

\* A step of the lane that holds the lock.
LEMMA Step ==
  ASSUME IInv, Shape', NEW l \in Lanes, lane[l].pc \in Walking, lock' = lock,
         \A m \in Lanes \ {l} : lane'[m] = lane[m],
         Copies(lane[l])', Once'
  PROVE  IInv'
<1>1. ASSUME NEW m \in Lanes, lane'[m].pc \in Walking
      PROVE  lock' = m /\ Copies(lane[m])'
  <2>1. m = l
    BY <1>1 DEF IInv, Exclusive
  <2>2. QED
    BY <2>1 DEF IInv, Exclusive
<1>2. QED
  BY <1>1 DEF IInv, Exclusive

\* The types of a write of a lane.
LEMMA WriteShape ==
  ASSUME Shape, NEW l \in Lanes, NEW r \in Runs, NEW v \in Views, Write(l, r, v),
         fired' \in [Steps -> Nat]
  PROVE  Shape'
BY DEF Shape, Write, Runs

-----------------------------------------------------------------------------
(* The environment, the queue and the sweepers: no step of the graph.      *)

LEMMA QuietOutside ==
  ASSUME IInv,
         \/ Dispatch \/ Reply \/ Elapse \/ GiveUp \/ LockLapses \/ Unpublish \/ Crash
         \/ SweepStep \/ SweepRows
         \/ \E m \in toWake : Wake(m)
         \/ \E id \in JobIds : Due(id) \/ JobExpires(id) \/ Stalled(id)
         \/ UNCHANGED vars
  PROVE  IInv'
<1> DEFINE Still == /\ run'.log = run.log /\ run'.cur = run.cur /\ fired' = fired
                    /\ lane' = lane /\ (lock' = lock \/ (lock = Dead /\ lock' = Free))
                    /\ Shape'
<1>1. ASSUME Still PROVE IInv'
  <2>1. \A l \in Lanes : lock = l => lock' = l
    BY <1>1, LanesRange
  <2>2. QED
    BY <1>1, <2>1, Quiet
<1> HIDE DEF Still
<1>2. CASE Dispatch \/ (\E m \in toWake : Wake(m)) \/ Unpublish \/ SweepStep \/ SweepRows
           \/ (\E id \in JobIds : Due(id) \/ JobExpires(id) \/ Stalled(id)) \/ UNCHANGED vars
  <2>1. UNCHANGED <<run, lane, lock, replies, fired>>
    BY <1>2 DEF Dispatch, Wake, Unpublish, SweepStep, SweepSelect, SweepProbe, SweepClear,
                SweepAdd, SweepRows, Due, JobExpires, Stalled, vars, bull, history
  <2>2. Still
    BY <2>1 DEF Still, IInv, Shape
  <2>3. QED
    BY <2>2, <1>1
<1>3. CASE Reply
  <2>1. Still
    BY <1>3 DEF Reply, Still, IInv, Shape, Runs, bull, history
  <2>2. QED
    BY <2>1, <1>1
<1>4. CASE Elapse
  <2>1. Still
    BY <1>4 DEF Elapse, Still, IInv, Shape, Runs, bull, history
  <2>2. QED
    BY <2>1, <1>1
<1>5. CASE GiveUp
  <2>1. Still
    BY <1>5 DEF GiveUp, Still, IInv, Shape, Runs, TerminalRun, bull, history
  <2>2. QED
    BY <2>1, <1>1
<1>6. CASE LockLapses
  <2>1. Still
    BY <1>6 DEF LockLapses, Still, IInv, Shape, bull, history
  <2>2. QED
    BY <2>1, <1>1
<1>7. CASE Crash
  <2>1. Shape'
    BY <1>7 DEF Crash, IInv, Shape, Views, history
  <2>2. run' = run /\ fired' = fired /\ \A l \in Lanes : lane'[l].pc \notin Walking
    BY <1>7 DEF Crash, Off, Walking, history
  <2>3. QED
    BY <2>1, <2>2, Quiet
<1>8. QED
  BY <1>2, <1>3, <1>4, <1>5, <1>6, <1>7

-----------------------------------------------------------------------------
(* Lanes outside the walk.                                                 *)

LEMMA QuietLane ==
  ASSUME IInv, NEW l \in Lanes,
         \/ \E id \in JobIds : Pickup(l, id)
         \/ LockTaken(l) \/ MarkSkipped(l) \/ Complete(l) \/ Schedule(l) \/ Finish(l)
  PROVE  IInv'
<1> DEFINE Aside == /\ run'.log = run.log /\ run'.cur = run.cur /\ fired' = fired
                    /\ \A m \in Lanes \ {l} : lane'[m] = lane[m]
                    /\ lane'[l].pc \notin Walking
                    /\ (lock' = lock \/ lock = l)
                    /\ Shape'
<1>1. ASSUME Aside PROVE IInv'
  <2>1. \A m \in Lanes : lane'[m].pc \in Walking => lane'[m] = lane[m] /\ (lock = m => lock' = m)
    BY <1>1
  <2>2. QED
    BY <1>1, <2>1, Quiet
<1>2. lane \in [Lanes -> Views] /\ lane[l] \in Views
  BY DEF IInv, Shape
<1> HIDE DEF Aside
<1>3. CASE \E id \in JobIds : Pickup(l, id)
  <2>1. PICK id \in JobIds : Pickup(l, id)
    BY <1>3
  <2>2. [pc |-> "lock", id |-> id] \in Views
    BY DEF Views
  <2>3. Aside
    BY <2>1, <2>2, <1>2 DEF Pickup, Aside, IInv, Shape, Walking, history
  <2>4. QED
    BY <2>3, <1>1
<1>4. CASE LockTaken(l)
  <2>1. Leave(lane[l], "returned") \in Views
    BY <1>4, <1>2 DEF LockTaken, At, Leave, Views, Off, Walking
  <2>2. Aside
    BY <1>4, <2>1, <1>2 DEF LockTaken, Aside, Leave, IInv, Shape, Walking, history
  <2>3. QED
    BY <2>2, <1>1
<1>5. CASE Schedule(l)
  <2>1. Leave(lane[l], "returned") \in Views
    BY <1>5, <1>2 DEF Schedule, At, Leave, Views, Off, Walking
  <2>2. Aside
    BY <1>5, <2>1, <1>2 DEF Schedule, Aside, Leave, IInv, Shape, Walking, history
  <2>3. QED
    BY <2>2, <1>1
<1>6. CASE MarkSkipped(l)
  <2>1. Leave(lane[l], "returned") \in Views
    BY <1>6, <1>2 DEF MarkSkipped, At, Leave, Views, Off, Walking
  <2>2. Aside
    BY <1>6, <2>1, <1>2
       DEF MarkSkipped, Write, Aside, Leave, IInv, Shape, Runs, TerminalRun, Walking, history
  <2>3. QED
    BY <2>2, <1>1
<1>7. CASE Complete(l)
  <2>1. Leave(lane[l], "returned") \in Views
    BY <1>7, <1>2 DEF Complete, At, Leave, Views, Off, Walking
  <2>2. Aside
    BY <1>7, <2>1, <1>2
       DEF Complete, Write, Aside, Leave, IInv, Shape, Runs, TerminalRun, Walking, history
  <2>3. QED
    BY <2>2, <1>1
<1>8. CASE Finish(l)
  <2>1. /\ lane' = [lane EXCEPT ![l] = Off] /\ UNCHANGED <<run, replies, fired>>
        /\ lock' = lock \/ (lock = l /\ lock' \in {Free, Dead})
    BY <1>8 DEF Finish, history
  <2>2. Aside
    BY <2>1, <1>2 DEF Aside, IInv, Shape, Views, Off, Walking
  <2>3. QED
    BY <2>2, <1>1
<1>9. QED
  BY <1>3, <1>4, <1>5, <1>6, <1>7, <1>8

-----------------------------------------------------------------------------
(* The walk.                                                               *)

\* The view of a lane in the walk.
LEMMA ViewOf ==
  ASSUME IInv, NEW l \in Lanes, lane[l].pc \in Walking
  PROVE  /\ lane[l] \in [pc : Walking, id : JobIds, log : Logs, answer : Nat, cur : Nat]
         /\ run \in Runs /\ lock = l /\ Copies(lane[l])
<1>1. lane[l] \in Views
  BY DEF IInv, Shape
<1>2. lane[l] \in [pc : Walking, id : JobIds, log : Logs, answer : Nat, cur : Nat]
  BY <1>1 DEF Views, Walking, Off
<1>3. QED
  BY <1>2 DEF IInv, Shape, Exclusive

LEMMA Typed ==
  ASSUME NEW v \in [pc : Walking, id : JobIds, log : Logs, answer : Nat, cur : Nat]
  PROVE  v \in Views
BY DEF Views

\* Nothing is told less when the row moves on.
LEMMA PastTold ==
  ASSUME IInv, fired' = fired, run.cur \in Nat, run'.cur \in Nat, run'.cur > run.cur
  PROVE  Once'
<1>1. ASSUME NEW n \in Steps PROVE fired[n] <= 1 /\ (fired[n] > 0 => Told(n)')
  <2>1. n \in Nat
    BY StepsRange
  <2>2. QED
    BY <2>1 DEF IInv, Once, Told
<1>2. QED
  BY <1>1 DEF Once

LEMMA SameTold ==
  ASSUME IInv, fired' = fired, run'.cur = run.cur, run'.log = run.log
  PROVE  Once'
BY DEF IInv, Once, Told

\* The row stays at step n, and its log tells of n.
LEMMA HereTold ==
  ASSUME IInv, fired' = fired, run.cur \in Steps, run'.cur = run.cur,
         fired[run.cur] > 0 => Orphaned(run'.log, run.cur) \/ Waits(run'.log, run.cur)
  PROVE  Once'
<1>1. ASSUME NEW n \in Steps PROVE fired[n] <= 1 /\ (fired[n] > 0 => Told(n)')
  BY DEF IInv, Once, Told
<1>2. QED
  BY <1>1 DEF Once

LEMMA LoadStep ==
  ASSUME IInv, NEW l \in Lanes, Load(l)
  PROVE  IInv'
<1> DEFINE v == lane[l]
           w == lane'[l]
<1>1. /\ v.pc = "lock" /\ lock = Free /\ lock' = l
      /\ UNCHANGED <<run, replies, fired>>
      /\ \A m \in Lanes \ {l} : lane'[m] = lane[m]
      /\ lane' = [lane EXCEPT ![l] = w]
  BY DEF Load, At, history, IInv, Shape
<1>2. v \in [pc : {"lock", "skip"}, id : JobIds]
  BY <1>1 DEF IInv, Shape, Views, Off, Walking
<1>3. run \in Runs /\ Len(Kind) \in Nat /\ End = Len(Kind) + 1
  BY StepsRange DEF IInv, Shape
<1>4. \/ w = [pc |-> "skip", id |-> v.id]
      \/ w = Leave(v, "returned")
      \/ w = [pc |-> "start", id |-> v.id, log |-> run.log, answer |-> run.answer,
               cur |-> IF run.cur = 0 /\ run.log = <<>> THEN 1 ELSE run.cur]
  BY DEF Load, IInv, Shape
<1>5. w \in Views /\ Copies(lane[l])'
  <2>1. CASE w = [pc |-> "skip", id |-> v.id]
    BY <2>1, <1>2 DEF Views, Copies
  <2>2. CASE w = Leave(v, "returned")
    BY <2>2, <1>2 DEF Views, Copies, Leave
  <2>3. CASE w = [pc |-> "start", id |-> v.id, log |-> run.log, answer |-> run.answer,
                  cur |-> IF run.cur = 0 /\ run.log = <<>> THEN 1 ELSE run.cur]
    <3>1. w \in [pc : Walking, id : JobIds, log : Logs, answer : Nat, cur : Nat]
      BY <2>3, <1>2, <1>3 DEF Runs, Walking
    <3>2. Copies(lane[l])'
      BY <2>3, <1>1, <1>3 DEF Copies, Runs
    <3>3. QED
      BY <3>1, <3>2, Typed
  <2>4. QED
    BY <1>4, <2>1, <2>2, <2>3
<1>6. Shape'
  BY <1>1, <1>5 DEF IInv, Shape
<1>7. Exclusive'
  <2>1. \A m \in Lanes : lane[m].pc \notin Walking
    BY <1>1, LanesRange DEF IInv, Exclusive
  <2>2. QED
    BY <1>1, <1>5, <2>1 DEF Exclusive
<1>8. Once'
  BY <1>1, SameTold
<1>9. QED
  BY <1>6, <1>7, <1>8 DEF IInv

\* A write of a walking lane, put together.
LEMMA Wrote ==
  ASSUME IInv, NEW l \in Lanes, lane[l].pc \in Walking, lane'[l] \in Views,
         lane' = [lane EXCEPT ![l] = lane'[l]], lock' = lock, replies' \in Nat,
         run' \in Runs, fired' \in [Steps -> Nat],
         Copies(lane[l])', Once'
  PROVE  IInv'
<1>1. Shape'
  BY DEF IInv, Shape
<1>2. \A m \in Lanes \ {l} : lane'[m] = lane[m]
  BY DEF IInv, Shape
<1>3. QED
  BY <1>1, <1>2, Step

LEMMA StartStep ==
  ASSUME IInv, NEW l \in Lanes, Start(l)
  PROVE  IInv'
<1> DEFINE v == lane[l]
<1>1. v.pc = "start" /\ v.pc \in Walking
  BY DEF Start, At, Walking
<1>2. /\ v \in [pc : Walking, id : JobIds, log : Logs, answer : Nat, cur : Nat]
      /\ run \in Runs /\ Copies(v)
  BY <1>1, ViewOf
<1>3. /\ run' = [run EXCEPT !.status = "running", !.cur = v.cur]
      /\ lane' = [lane EXCEPT ![l] = [v EXCEPT !.pc = "step"]]
      /\ UNCHANGED <<lock, replies, fired>>
  BY DEF Start, Write, history
<1>4. v.cur \in 0..End /\ v.log = run.log /\ (v.cur = run.cur \/ (run.cur = 0 /\ v.cur = 1))
  BY <1>1, <1>2, StepsRange DEF Copies
<1>5. run' \in Runs /\ run'.cur = v.cur /\ run'.log = run.log
  BY <1>2, <1>3, <1>4 DEF Runs
<1>6. /\ lane'[l] = [v EXCEPT !.pc = "step"] /\ lane' = [lane EXCEPT ![l] = lane'[l]]
      /\ lane'[l] \in [pc : Walking, id : JobIds, log : Logs, answer : Nat, cur : Nat]
  BY <1>2, <1>3 DEF IInv, Shape, Walking
<1>7. Copies(lane[l])'
  <2>1. lane'[l].pc = "step" /\ lane'[l].cur = v.cur /\ lane'[l].log = v.log
    BY <1>2, <1>6
  <2>2. QED
    BY <2>1, <1>4, <1>5 DEF Copies
<1>8. Once'
  <2>1. CASE v.cur = run.cur
    BY <2>1, <1>3, <1>5, SameTold
  <2>2. CASE run.cur = 0 /\ v.cur = 1
    BY <2>2, <1>3, <1>5, PastTold
  <2>3. QED
    BY <1>4, <2>1, <2>2
<1>9. QED
  BY <1>1, <1>3, <1>5, <1>6, <1>7, <1>8, Typed, Wrote DEF IInv, Shape

\* The position of a walking lane.
LEMMA Position ==
  ASSUME NEW n \in Steps
  PROVE  n \in 0..End /\ n + 1 \in 0..End /\ n \in Nat /\ n + 1 > n /\ n < End /\ End \in 0..End
BY StepsRange

\* A lane that parks the run leaves the walk; the row tells of the step it waits on.
LEMMA ParkStep ==
  ASSUME IInv, NEW l \in Lanes, lane[l].pc \in Walking, lane[l].cur \in Steps,
         lane[l].cur = run.cur, Kind[run.cur] = "ask",
         NEW log, log \in Logs, fired' = fired,
         ParkOn(l, log \o Entry(lane[l].cur, "waiting"))
  PROVE  IInv'
<1> DEFINE v == lane[l]
           more == log \o Entry(v.cur, "waiting")
           w == [pc |-> "schedule", id |-> v.id, seq |-> Len(more)]
<1>1. v \in [pc : Walking, id : JobIds, log : Logs, answer : Nat, cur : Nat] /\ run \in Runs
  BY ViewOf
<1>2. more \in Logs /\ Len(more) \in Nat /\ Waits(more, run.cur)
  BY Grown, WaitWaits, Domains DEF Stats
<1>3. /\ run' = [status |-> "waiting", cur |-> v.cur, until |-> "future", log |-> more, answer |-> 0]
      /\ lane' = [lane EXCEPT ![l] = w]
      /\ UNCHANGED <<lock, replies>>
  BY DEF ParkOn, Write
<1> HIDE DEF more
<1>4. run' \in Runs /\ run'.cur = run.cur /\ run'.log = more
  BY <1>1, <1>2, <1>3, Position DEF Runs
<1>5. lane'[l] = w /\ lane' = [lane EXCEPT ![l] = lane'[l]] /\ lane'[l] \in Views
  BY <1>1, <1>2, <1>3 DEF IInv, Shape, Views
<1>6. Copies(lane[l])'
  BY <1>5 DEF Copies
<1>7. Once'
  BY <1>2, <1>4, HereTold
<1>8. QED
  BY <1>3, <1>4, <1>5, <1>6, <1>7, Wrote DEF IInv, Shape

LEMMA ParkKeeps ==
  ASSUME IInv, NEW l \in Lanes, Park(l) \/ Rearm(l)
  PROVE  IInv'
<1> DEFINE v == lane[l]
<1>1. v.pc \in {"park", "step"} /\ v.pc \in Walking /\ fired' = fired
  BY DEF Park, Rearm, At, Walking, history
<1>2. v \in [pc : Walking, id : JobIds, log : Logs, answer : Nat, cur : Nat] /\ run \in Runs /\ Copies(v)
  BY <1>1, ViewOf
<1>3. CASE Park(l)
  <2>1. v.cur \in Steps /\ v.cur = run.cur /\ Kind[run.cur] = "ask"
    BY <1>2, <1>3 DEF Park, At, Copies
  <2>2. ParkOn(l, v.log \o Entry(v.cur, "waiting"))
    BY <1>3 DEF Park
  <2>3. QED
    BY <1>1, <1>2, <2>1, <2>2, ParkStep
<1>4. CASE Rearm(l)
  <2>1. v.cur \in Steps /\ v.cur = run.cur /\ Kind[run.cur] = "ask"
    BY <1>2, <1>4 DEF Rearm, At, Copies, Rearms
  <2>2. v.log \o Entry(v.cur, "skipped_after_crash") \in Logs
    BY <1>2, <2>1, Grown DEF Stats
  <2>3. ParkOn(l, (v.log \o Entry(v.cur, "skipped_after_crash")) \o Entry(v.cur, "waiting"))
    BY <1>4 DEF Rearm
  <2>4. QED
    BY <1>1, <2>1, <2>2, <2>3, ParkStep
<1>5. QED
  BY <1>3, <1>4

LEMMA SkipStep ==
  ASSUME IInv, NEW l \in Lanes, SkipOrphan(l) \/ Wait(l)
  PROVE  IInv'
<1> DEFINE v == lane[l]
<1>1. v.pc = "step" /\ v.pc \in Walking /\ v.cur \in Steps /\ fired' = fired
  BY DEF SkipOrphan, Wait, At, Walking, history
<1>2. v \in [pc : Walking, id : JobIds, log : Logs, answer : Nat, cur : Nat] /\ run \in Runs /\ Copies(v)
  BY <1>1, ViewOf
<1>3. v.cur = run.cur /\ run.cur \in Nat /\ v.cur + 1 \in 0..End /\ v.cur + 1 \in Nat
  BY <1>1, <1>2, Position DEF Copies
<1>4. CASE SkipOrphan(l)
  <2> DEFINE log == v.log \o Entry(v.cur, "skipped_after_crash")
             w == [v EXCEPT !.cur = v.cur + 1, !.log = log]
  <2>1. log \in Logs
    BY <1>1, <1>2, Grown, ZenonT(40) DEF Stats
  <2>2. run' = [run EXCEPT !.cur = v.cur + 1, !.log = log] /\ lane' = [lane EXCEPT ![l] = w]
        /\ UNCHANGED <<lock, replies>>
    BY <1>4 DEF SkipOrphan, Write
  <2> HIDE DEF log
  <2>3. run' \in Runs /\ run'.cur = v.cur + 1 /\ run'.log = log
    BY <1>2, <1>3, <2>1, <2>2 DEF Runs
  <2>4. /\ lane'[l] \in [pc : Walking, id : JobIds, log : Logs, answer : Nat, cur : Nat]
        /\ lane'[l] = w /\ lane' = [lane EXCEPT ![l] = lane'[l]]
    BY <1>2, <1>3, <2>1, <2>2 DEF IInv, Shape
  <2>5. lane'[l].pc = "step" /\ lane'[l].cur = v.cur + 1 /\ lane'[l].log = log
    BY <1>1, <1>2, <2>4
  <2>6. Copies(lane[l])'
    BY <2>3, <2>5 DEF Copies
  <2>7. Once'
    BY <1>1, <1>3, <2>3, PastTold
  <2>8. QED
    BY <1>1, <2>2, <2>3, <2>4, <2>6, <2>7, Typed, Wrote DEF IInv, Shape
<1>5. CASE Wait(l)
  <2> DEFINE log == v.log \o Entry(v.cur, "waiting")
             w == [pc |-> "schedule", id |-> v.id, seq |-> Len(log)]
  <2>1. log \in Logs /\ Len(log) \in Nat
    BY <1>1, <1>2, <1>5, Grown, Domains DEF Stats, Wait
  <2>2. /\ run' = [run EXCEPT !.status = "waiting", !.cur = v.cur + 1, !.until = "future",
                              !.log = log]
        /\ lane' = [lane EXCEPT ![l] = w]
        /\ UNCHANGED <<lock, replies>>
    BY <1>5 DEF Wait, Write
  <2> HIDE DEF log
  <2>3. run' \in Runs /\ run'.cur = v.cur + 1
    BY <1>2, <1>3, <2>1, <2>2 DEF Runs
  <2>4. lane'[l] = w /\ lane' = [lane EXCEPT ![l] = lane'[l]] /\ lane'[l] \in Views
    BY <1>2, <2>1, <2>2 DEF IInv, Shape, Views
  <2>5. Copies(lane[l])'
    BY <2>4 DEF Copies
  <2>6. Once'
    BY <1>1, <1>3, <2>3, PastTold
  <2>7. QED
    BY <1>1, <2>2, <2>3, <2>4, <2>5, <2>6, Wrote DEF IInv, Shape
<1>6. QED
  BY <1>4, <1>5

\* The journal entry is open before the side effect: nothing fired that only it would tell of,
\* but a question whose wait it keeps.
LEMMA JournalStep ==
  ASSUME IInv, NEW l \in Lanes, Journal(l)
  PROVE  IInv'
<1> DEFINE v == lane[l]
           log == v.log \o Entry(v.cur, "in_progress")
           w == [v EXCEPT !.pc = "run", !.log = log]
<1>1. /\ v.pc = "step" /\ v.pc \in Walking /\ v.cur \in Steps /\ fired' = fired
      /\ Kind[v.cur] # "wait" /\ ~Orphaned(v.log, v.cur)
      /\ run' = [run EXCEPT !.log = log] /\ lane' = [lane EXCEPT ![l] = w]
      /\ UNCHANGED <<lock, replies>>
  BY DEF Journal, At, Walking, history, Write
<1>2. v \in [pc : Walking, id : JobIds, log : Logs, answer : Nat, cur : Nat] /\ run \in Runs /\ Copies(v)
  BY <1>1, ViewOf
<1>3. v.cur = run.cur /\ v.log = run.log
  BY <1>1, <1>2 DEF Copies
<1>4. log \in Logs /\ Open(log, v.cur) /\ Orphaned(log, v.cur)
  BY <1>1, <1>2, Grown, JournalOpens, OpenIsOrphaned DEF Stats
<1>5. fired[v.cur] > 0 => Waits(log, v.cur)
  <2>1. SUFFICES ASSUME fired[v.cur] > 0 PROVE Waits(log, v.cur)
    OBVIOUS
  <2>2. Told(v.cur)
    BY <1>1, <2>1 DEF IInv, Once
  <2>3. ~(run.cur > v.cur)
    BY <1>1, <1>3, Position
  <2>4. Waits(v.log, v.cur)
    BY <1>1, <1>3, <2>2, <2>3 DEF Told
  <2>5. QED
    BY <1>1, <1>2, <2>4, JournalKeepsWait
<1> HIDE DEF log
<1>6. run' \in Runs /\ run'.cur = run.cur /\ run'.log = log
  BY <1>1, <1>2, <1>4 DEF Runs
<1>7. /\ lane'[l] \in [pc : Walking, id : JobIds, log : Logs, answer : Nat, cur : Nat]
      /\ lane'[l] = w /\ lane' = [lane EXCEPT ![l] = lane'[l]]
  BY <1>1, <1>2, <1>4 DEF IInv, Shape, Walking
<1>8. lane'[l].pc = "run" /\ lane'[l].cur = v.cur /\ lane'[l].log = log
  BY <1>2, <1>7
<1>9. Copies(lane[l])'
  BY <1>1, <1>3, <1>4, <1>5, <1>6, <1>8 DEF Copies
<1>10. Once'
  BY <1>1, <1>3, <1>4, <1>6, HereTold
<1>11. QED
  BY <1>1, <1>6, <1>7, <1>9, <1>10, Typed, Wrote DEF IInv, Shape

\* A step that is about to run never ran.
LEMMA Unfired ==
  ASSUME IInv, NEW l \in Lanes, At(l, "run"), ~Resuming(lane[l])
  PROVE  fired[lane[l].cur] = 0
<1> DEFINE v == lane[l]
<1>1. v \in [pc : Walking, id : JobIds, log : Logs, answer : Nat, cur : Nat] /\ Copies(v) /\ v.pc = "run"
  BY ViewOf DEF At, Walking
<1>2. v.cur \in Steps /\ Kind[v.cur] # "wait" /\ (fired[v.cur] > 0 => Waits(v.log, v.cur))
  BY <1>1 DEF Copies
<1>3. Kind[v.cur] \in {"ask", "wait", "send"}
  BY <1>2, ConstantsAssumption DEF Steps
<1>4. ~Waits(v.log, v.cur)
  BY <1>1, <1>2, <1>3, WaitsNotSend DEF Resuming
<1>5. QED
  BY <1>2, <1>4 DEF IInv, Shape

\* And its open journal entry tells of it once it did.
LEMMA FiredTold ==
  ASSUME IInv, NEW n \in Steps, fired[n] = 0, run.cur = n, Orphaned(run.log, n),
         fired' = [fired EXCEPT ![n] = @ + 1], run'.cur = run.cur, run'.log = run.log
  PROVE  Once' /\ fired' \in [Steps -> Nat]
<1>1. fired \in [Steps -> Nat]
  BY DEF IInv, Shape
<1>2. fired' \in [Steps -> Nat]
  BY <1>1
<1>3. ASSUME NEW m \in Steps PROVE fired'[m] <= 1 /\ (fired'[m] > 0 => Told(m)')
  <2>1. CASE m = n
    BY <2>1, <1>1 DEF Told
  <2>2. CASE m # n
    BY <2>2, <1>1 DEF IInv, Once, Told
  <2>3. QED
    BY <2>1, <2>2
<1>4. QED
  BY <1>2, <1>3 DEF Once

LEMMA RunStep ==
  ASSUME IInv, NEW l \in Lanes, Fire(l) \/ Refused(l) \/ Resume(l)
  PROVE  IInv'
<1> DEFINE v == lane[l]
<1>1. v.pc = "run" /\ v.pc \in Walking
  BY DEF Fire, Refused, Resume, At, Walking
<1>2. v \in [pc : Walking, id : JobIds, log : Logs, answer : Nat, cur : Nat] /\ run \in Runs /\ Copies(v)
  BY <1>1, ViewOf
<1>3. /\ v.cur \in Steps /\ v.cur = run.cur /\ v.log = run.log /\ v.log # <<>>
      /\ Orphaned(run.log, run.cur)
  BY <1>1, <1>2, OpenIsOrphaned DEF Copies, Open, Runs
<1>4. /\ v.cur + 1 \in 0..End /\ v.cur + 1 \in Nat /\ v.cur + 1 > v.cur /\ v.cur < End
      /\ End \in 0..End /\ End \in Nat
  BY <1>3, Position, StepsRange
<1>5. ASSUME NEW st \in {"success", "failed"}, NEW next \in {v.cur + 1, End},
             Write(l, run, Result(v, st, next)), fired' \in [Steps -> Nat], Once'
      PROVE  IInv'
  <2>1. next \in Nat /\ next <= End /\ run.cur < next
    BY <1>3, <1>4
  <2>2. /\ Result(v, st, next) \in [pc : Walking, id : JobIds, log : Logs, answer : Nat, cur : Nat]
        /\ Result(v, st, next).pc = "advance" /\ Result(v, st, next).cur = next
    <3>1. v \in [pc : Walking, id : JobIds, log : Logs, answer : Nat, cur : Nat]
          /\ v.log # <<>> /\ v.cur \in Steps /\ st \in {"success", "failed"} /\ next \in Nat
      BY <1>2, <1>3, <1>5, <2>1
    <3>2. SubSeq(v.log, 1, Len(v.log) - 1) \o Entry(v.cur, st) \in Logs
      BY <3>1, Shortened, Grown DEF Stats
    <3>3. QED
      BY <3>1, <3>2 DEF Result, Walking
  <2>3. /\ lane'[l] = Result(v, st, next) /\ lane' = [lane EXCEPT ![l] = lane'[l]]
        /\ run' = run /\ UNCHANGED <<lock, replies>>
    BY <1>5 DEF Write, IInv, Shape
  <2>4. Copies(lane[l])'
    BY <2>1, <2>2, <2>3 DEF Copies
  <2>5. QED
    BY <1>1, <1>2, <1>5, <2>2, <2>3, <2>4, Typed, Wrote DEF IInv, Shape
<1>6. CASE Refused(l)
  <2>1. fired' = fired
    BY <1>6 DEF Refused, history
  <2>2. run' = run
    BY <1>6 DEF Refused, Write
  <2>3. Once' /\ fired' \in [Steps -> Nat]
    BY <2>1, <2>2, SameTold DEF IInv, Shape
  <2>4. Write(l, run, Result(v, "failed", IF Kind[v.cur] = "ask" THEN End ELSE v.cur + 1))
    BY <1>6 DEF Refused
  <2>5. QED
    BY <1>5, <2>3, <2>4
<1>7. CASE Resume(l)
  <2>1. fired' = fired
    BY <1>7 DEF Resume
  <2>2. run' = run
    BY <1>7 DEF Resume, Write
  <2>3. Once' /\ fired' \in [Steps -> Nat]
    BY <2>1, <2>2, SameTold DEF IInv, Shape
  <2>4. Write(l, run, Result(v, "success", IF v.answer # 0 THEN v.cur + 1 ELSE End))
    BY <1>7 DEF Resume
  <2>5. QED
    BY <1>5, <2>3, <2>4
<1>8. CASE Fire(l)
  <2>1. /\ fired[v.cur] = 0 /\ fired' = [fired EXCEPT ![v.cur] = @ + 1]
        /\ UNCHANGED <<lock, replies>>
    BY <1>8, Unfired DEF Fire, Write
  <2>2. CASE Kind[v.cur] # "ask"
    <3>1. Write(l, run, Result(v, "success", v.cur + 1))
      BY <1>8, <2>2 DEF Fire
    <3>2. Once' /\ fired' \in [Steps -> Nat]
      BY <1>3, <2>1, <3>1, FiredTold DEF Write
    <3>3. QED
      BY <1>5, <3>1, <3>2
  <2>3. CASE Kind[v.cur] = "ask"
    <3> DEFINE w == [v EXCEPT !.pc = "park", !.log = SubSeq(@, 1, Len(@) - 1)]
    <3>1. run' = [run EXCEPT !.answer = 0] /\ lane' = [lane EXCEPT ![l] = w]
      BY <1>8, <2>3 DEF Fire, Write
    <3>2. run' \in Runs /\ run'.cur = run.cur /\ run'.log = run.log
      BY <1>2, <3>1 DEF Runs
    <3>3. /\ lane'[l] = w /\ lane' = [lane EXCEPT ![l] = lane'[l]]
      BY <3>1 DEF IInv, Shape
    <3>4. SubSeq(v.log, 1, Len(v.log) - 1) \in Logs
      BY <1>2, <1>3, Shortened
    <3>5. /\ lane'[l] \in [pc : Walking, id : JobIds, log : Logs, answer : Nat, cur : Nat]
          /\ lane'[l].pc = "park" /\ lane'[l].cur = v.cur
      BY <1>2, <3>3, <3>4 DEF Walking
    <3>6. Copies(lane[l])'
      BY <1>3, <2>3, <3>2, <3>5 DEF Copies
    <3>7. Once' /\ fired' \in [Steps -> Nat]
      BY <1>3, <2>1, <3>2, FiredTold
    <3>8. QED
      BY <1>1, <2>1, <3>2, <3>3, <3>5, <3>6, <3>7, Typed, Wrote DEF IInv, Shape
  <2>4. QED
    BY <2>2, <2>3
<1>9. QED
  BY <1>6, <1>7, <1>8

LEMMA AdvanceStep ==
  ASSUME IInv, NEW l \in Lanes, Advance(l)
  PROVE  IInv'
<1> DEFINE v == lane[l]
<1>1. v.pc = "advance" /\ v.pc \in Walking /\ fired' = fired
  BY DEF Advance, At, Walking, history
<1>2. v \in [pc : Walking, id : JobIds, log : Logs, answer : Nat, cur : Nat] /\ run \in Runs /\ Copies(v)
  BY <1>1, ViewOf
<1>3. v.cur \in 0..End /\ run.cur < v.cur /\ run.cur \in Nat
  BY <1>1, <1>2, StepsRange DEF Copies, Runs
<1>4. PICK used \in BOOLEAN :
        Write(l, [run EXCEPT !.cur = v.cur, !.log = v.log, !.answer = IF used THEN 0 ELSE @],
                 [v EXCEPT !.pc = "step", !.answer = IF used THEN 0 ELSE @])
  <2> DEFINE n == v.log[Len(v.log)].n
             Used == Kind[n] = "ask" /\ Waits(SubSeq(v.log, 1, Len(v.log) - 1), n)
  <2>1. Used \in BOOLEAN
    OBVIOUS
  <2>2. QED
    BY <2>1 DEF Advance
<1>5. /\ run' = [run EXCEPT !.cur = v.cur, !.log = v.log, !.answer = IF used THEN 0 ELSE @]
      /\ lane' = [lane EXCEPT ![l] = [v EXCEPT !.pc = "step", !.answer = IF used THEN 0 ELSE @]]
      /\ UNCHANGED <<lock, replies>>
  BY <1>4 DEF Write
<1>6. run' \in Runs /\ run'.cur = v.cur /\ run'.log = v.log
  BY <1>2, <1>3, <1>5 DEF Runs
<1>7. /\ lane'[l] \in [pc : Walking, id : JobIds, log : Logs, answer : Nat, cur : Nat]
      /\ lane'[l].pc = "step" /\ lane'[l].cur = v.cur /\ lane'[l].log = v.log
      /\ lane' = [lane EXCEPT ![l] = lane'[l]]
  BY <1>2, <1>5 DEF IInv, Shape, Walking
<1>8. Copies(lane[l])'
  BY <1>6, <1>7 DEF Copies
<1>9. Once'
  BY <1>1, <1>3, <1>6, PastTold
<1>10. QED
  BY <1>1, <1>5, <1>6, <1>7, <1>8, <1>9, Typed, Wrote DEF IInv, Shape

\* A throw may have fired the step, and leaves its journal entry open.
LEMMA ThrowStep ==
  ASSUME IInv, NEW l \in Lanes, Throw(l)
  PROVE  IInv'
<1> DEFINE v == lane[l]
           w == Leave(v, "thrown")
<1>1. /\ v.pc \in {"skip", "start", "step", "run", "park", "schedule", "advance"}
      /\ lane' = [lane EXCEPT ![l] = w] /\ UNCHANGED <<run, lock, replies>>
      /\ \/ fired' = fired
         \/ v.pc = "run" /\ ~Resuming(v) /\ fired' = [fired EXCEPT ![v.cur] = @ + 1]
  BY DEF Throw
<1>2. w \in Views /\ w.pc = "unlock"
  BY <1>1 DEF IInv, Shape, Views, Leave, Walking, Off
<1>3. Once' /\ fired' \in [Steps -> Nat]
  <2>1. CASE fired' = fired
    BY <1>1, <2>1, SameTold DEF IInv, Shape
  <2>2. CASE v.pc = "run" /\ ~Resuming(v) /\ fired' = [fired EXCEPT ![v.cur] = @ + 1]
    <3>1. v \in [pc : Walking, id : JobIds, log : Logs, answer : Nat, cur : Nat] /\ run \in Runs /\ Copies(v)
      BY <2>2, ViewOf DEF Walking
    <3>2. v.cur \in Steps /\ v.cur = run.cur /\ Orphaned(run.log, run.cur)
      BY <2>2, <3>1, OpenIsOrphaned DEF Copies, Runs
    <3>3. fired[v.cur] = 0
      BY <2>2, Unfired DEF At
    <3>4. QED
      BY <1>1, <2>2, <3>2, <3>3, FiredTold
  <2>3. QED
    BY <1>1, <2>1, <2>2
<1>4. /\ lane'[l] = w /\ \A m \in Lanes \ {l} : lane'[m] = lane[m]
      /\ lane' \in [Lanes -> Views]
  BY <1>1, <1>2 DEF IInv, Shape
<1>5. Shape'
  BY <1>1, <1>3, <1>4 DEF IInv, Shape
<1>6. Exclusive'
  <2>1. \A m \in Lanes \ {l} : Copies(lane[m])' \/ lane[m].pc \notin Walking
    <3>1. SUFFICES ASSUME NEW m \in Lanes \ {l}, lane[m].pc \in Walking PROVE Copies(lane[m])'
      OBVIOUS
    <3>2. fired' = fired
      <4>1. CASE v.pc = "run"
        BY <4>1, <3>1 DEF IInv, Exclusive, Walking
      <4>2. QED
        BY <4>1, <1>1
    <3>3. QED
      BY <3>1, <3>2, <1>1, <1>4 DEF IInv, Exclusive, Copies
  <2>2. QED
    BY <2>1, <1>1, <1>2, <1>4 DEF IInv, Exclusive, Walking
<1>7. QED
  BY <1>3, <1>5, <1>6 DEF IInv

-----------------------------------------------------------------------------

LEMMA Initially == Init => IInv
<1>1. SUFFICES ASSUME Init PROVE IInv
  OBVIOUS
<1>2. Shape
  BY <1>1, StepsRange DEF Init, Shape, Runs, Views, Logs
<1>3. Exclusive /\ Once
  BY <1>1 DEF Init, Exclusive, Once, Off, Walking
<1>4. QED
  BY <1>2, <1>3 DEF IInv

LEMMA Inductive == IInv /\ [Next]_vars => IInv'
<1>1. SUFFICES ASSUME IInv, [Next]_vars PROVE IInv'
  OBVIOUS
<1>2. ASSUME NEW l \in Lanes,
             (\E id \in JobIds : Pickup(l, id)) \/ LaneStep(l) \/ Refused(l) \/ Throw(l)
      PROVE  IInv'
  BY <1>1, <1>2, QuietLane, LoadStep, StartStep, ParkKeeps, SkipStep, JournalStep, RunStep,
     AdvanceStep, ThrowStep DEF LaneStep
<1>3. CASE ~\E l \in Lanes :
             (\E id \in JobIds : Pickup(l, id)) \/ LaneStep(l) \/ Refused(l) \/ Throw(l)
  BY <1>1, <1>3, QuietOutside DEF Next
<1>4. QED
  BY <1>2, <1>3

\* Whatever is redelivered, retried, resumed twice or recovered after a crash, a step of the
\* graph reaches the contact at most once (lib/workflows/executor.ts, journal and orphans).
THEOREM FiresOnceAlways == Spec => []FiresOnce
<1>1. IInv => FiresOnce
  BY DEF IInv, Once, FiresOnce
<1>2. QED
  BY <1>1, Initially, Inductive, PTL DEF Spec

=============================================================================
