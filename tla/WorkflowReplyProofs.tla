------------------------ MODULE WorkflowReplyProofs ------------------------
(***************************************************************************)
(* What the sweepers, late resumes and replies may do to a run that waits:  *)
(* the types of the whole state, with the bound on the step log; a wait    *)
(* step that is left only when its time is over; and a question that a     *)
(* reply claimed, which takes its timeout branch only if a late resume     *)
(* woke it before its time.                                                *)
(***************************************************************************)
EXTENDS WorkflowProofs, FiniteSetTheorems

\* A log with a wait on step n.
Asked(log, n) == \E i \in DOMAIN log : log[i] = [n |-> n, st |-> "waiting"]

\* A log of a run that has not passed step n.
Below(log, n) == \A i \in DOMAIN log : log[i].n <= n

\* How long the log of a run at step n can be.
Room(log, n) ==
  Most(n - 1) + (IF Asked(log, n) THEN 3 ELSE 0) + (IF Orphaned(log, n) THEN 1 ELSE 0)

\* The row: its log grows with its position, and an asked question is still waiting.
Row ==
  /\ Below(run.log, run.cur)
  /\ Asked(run.log, run.cur) => Waits(run.log, run.cur) /\ Kind[run.cur] = "ask"
  /\ IF run.cur = 0 THEN run.log = <<>> ELSE Len(run.log) <= Room(run.log, run.cur)
  /\ run.status = "queued" => run.log = <<>>
  /\ run.status = "waiting" =>
       /\ run.until # "none" /\ run.log # <<>>
       /\ Kind[run.log[Len(run.log)].n] = "wait" => ~Asked(run.log, run.cur)

\* The question the run is at was woken by its answer, by its time, or early.
Woken(answer) == run.cur \in early \/ answer # 0 \/ run.until = "due"

\* The row to claim is that of the question the run is at, or of an earlier one.
Await ==
  /\ awaiting \in [step : Steps \cup {0}, live : BOOLEAN]
  /\ awaiting # NoRow =>
       awaiting.step \in Steps /\ awaiting.step <= run.cur
  /\ awaiting # NoRow /\ awaiting.step = run.cur =>
       /\ Asked(run.log, run.cur)
       /\ awaiting.live => run.until = "future"
  /\ run.status = "running" /\ Asked(run.log, run.cur) => Woken(run.answer)

\* What a lane in the walk knows of the question it is at.
Knows(v) ==
  /\ v.pc \in {"start", "step", "run"} /\ Asked(run.log, run.cur) =>
       /\ Woken(v.answer)
       /\ v.answer # 0 => run.answer # 0
       /\ v.answer = 0 /\ run.cur \in claimed => run.cur \in early
  /\ v.pc = "start" /\ run.status = "waiting" =>
       run.until = "due" \/ Asked(run.log, run.cur)
  /\ v.pc \in {"step", "run", "park", "advance"} => run.status \notin {"queued", "waiting"}
  /\ v.pc = "park" =>
       ~Asked(run.log, run.cur) /\ Below(v.log, run.cur) /\ Len(v.log) <= Most(run.cur - 1)
  /\ v.pc = "advance" =>
       run.cur > 0 /\ Below(v.log, run.cur) /\ Len(v.log) <= Most(run.cur)
  /\ v.pc = "schedule" => v.seq \in 1..MaxLog
Lore == \A l \in Lanes : Knows(lane[l])

\* Questions whose row was claimed, and questions that timed out, were asked.
Reached(n) == n < run.cur \/ (n = run.cur /\ Asked(run.log, n))
Claims ==
  /\ claimed \subseteq Steps /\ early \subseteq Steps
  /\ \A n \in claimed : Reached(n) /\ (n = run.cur => run.answer # 0)
Timeouts ==
  /\ outcome \in [Steps -> {"none", "answered", "timeout", "skipped"}]
  /\ \A n \in Steps : outcome[n] = "timeout" =>
       Reached(n) /\ awaiting.step # n /\ (n \in claimed => n \in early)

AInv == IInv /\ Row /\ Await /\ Lore /\ Claims /\ Timeouts

\* A job that still has attempts, and no more than one holder while it is active.
GoodJob(j) ==
  /\ j \in [st : {"none", "waiting", "delayed", "active"} \cup TerminalJob,
            tries : 0..MaxAttempts, owner : Lanes \cup {Free}]
  /\ j.st \notin TerminalJob => j.tries < MaxAttempts
  /\ j.owner # Free => j.st = "active"
Jobs == job \in [JobIds -> {j \in [st : {"none", "waiting", "delayed", "active"} \cup TerminalJob,
                                   tries : 0..MaxAttempts, owner : Lanes \cup {Free}] :
                            GoodJob(j)}]

\* Also the lanes that read, or wait to schedule, hold the run lock.
Holders == \A l \in Lanes : lane[l].pc \in {"skip", "schedule"} => lock = l
Counts ==
  /\ replies \in 0..MaxReplies /\ run.answer \in 0..MaxReplies /\ toWake \subseteq 1..MaxReplies
Sweeps == sweep.at # "off" => sweep.id \in JobIds
TInv == AInv /\ Jobs /\ Holders /\ Counts /\ Sweeps

-----------------------------------------------------------------------------
(* The step log.                                                           *)

LEMMA AfterBelow ==
  ASSUME NEW log \in Logs, NEW m \in Int, NEW n \in Int, Below(log, m), m < n
  PROVE  ~Asked(log, n) /\ ~Orphaned(log, n) /\ Below(log, n)
<1>1. \A i \in DOMAIN log : log[i] \in Entries
  BY DEF Logs
<1>2. \A i \in DOMAIN log : log[i].n \in Int /\ log[i].n <= m
  BY <1>1, StepsRange DEF Entries, Below
<1>3. \A i \in DOMAIN log : log[i].n # n /\ log[i].n <= n
  BY <1>2
<1>4. QED
  BY <1>3 DEF Asked, Orphaned, Below

LEMMA AskedMore ==
  ASSUME NEW log \in Logs, NEW m \in Steps, NEW st \in Stats,
         st = "waiting" => Kind[m] # "send", NEW n
  PROVE  /\ Asked(log, n) => Asked(log \o Entry(m, st), n)
         /\ st # "waiting" /\ Asked(log \o Entry(m, st), n) => Asked(log, n)
         /\ st = "waiting" => Asked(log \o Entry(m, st), m)
         /\ \A k \in Int : Below(log, k) /\ m <= k => Below(log \o Entry(m, st), k)
<1> DEFINE more == log \o Entry(m, st)
<1>1. /\ DOMAIN more = 1..(Len(log) + 1) /\ Len(log) \in Nat /\ DOMAIN log = 1..Len(log)
      /\ more[Len(log) + 1] = [n |-> m, st |-> st]
      /\ \A i \in 1..Len(log) : more[i] = log[i]
  BY Grown, Domains
<1> HIDE DEF more
<1>2. Asked(log, n) => Asked(more, n)
  BY <1>1 DEF Asked
<1>3. st # "waiting" /\ Asked(more, n) => Asked(log, n)
  BY <1>1 DEF Asked
<1>4. st = "waiting" => Asked(more, m)
  BY <1>1 DEF Asked
<1>5. \A k \in Int : Below(log, k) /\ m <= k => Below(more, k)
  BY <1>1 DEF Below
<1>6. QED
  BY <1>2, <1>3, <1>4, <1>5 DEF more

LEMMA OneMore ==
  ASSUME NEW log \in Logs, NEW m \in Steps, NEW st \in Stats,
         st = "waiting" => Kind[m] # "send", NEW k \in Int, Below(log, k), m <= k
  PROVE  /\ log \o Entry(m, st) \in Logs /\ Below(log \o Entry(m, st), k)
         /\ Len(log \o Entry(m, st)) = Len(log) + 1
<1>1. log \o Entry(m, st) \in Logs /\ Len(log \o Entry(m, st)) = Len(log) + 1
  BY Grown
<1>2. Below(log \o Entry(m, st), k)
  BY AskedMore
<1>3. QED
  BY <1>1, <1>2

LEMMA Cut ==
  ASSUME NEW log \in Logs, log # <<>>, NEW k, Below(log, k)
  PROVE  LET less == SubSeq(log, 1, Len(log) - 1)
         IN  less \in Logs /\ Len(less) = Len(log) - 1 /\ Below(less, k)
<1> DEFINE less == SubSeq(log, 1, Len(log) - 1)
<1>1. less \in Logs /\ Len(less) = Len(log) - 1
  <2>1. log \in Seq(Entries) /\ Len(log) \in Nat /\ Len(log) # 0
    BY DEF Logs
  <2>2. less \in Logs
    BY Shortened
  <2>3. \A j \in Nat : j <= Len(log) => Len(SubSeq(log, 1, j)) = j
    BY <2>1
  <2>4. Len(log) - 1 \in Nat /\ Len(log) - 1 <= Len(log)
    BY <2>1
  <2>5. QED
    BY <2>2, <2>3, <2>4
<1>2. \A i \in 1..(Len(log) - 1) : less[i] = log[i]
  <2>1. log \in Seq(Entries)
    BY DEF Logs
  <2>2. QED
    BY <2>1
<1>3. DOMAIN less = 1..(Len(log) - 1) /\ DOMAIN log = 1..Len(log) /\ Len(log) \in Nat
  BY <1>1, Domains
<1> HIDE DEF less
<1>4. Below(less, k)
  BY <1>2, <1>3 DEF Below
<1>5. QED
  BY <1>1, <1>4 DEF less

LEMMA WaitsAsked ==
  ASSUME NEW log \in Logs, NEW n \in Steps, Waits(log, n)
  PROVE  Asked(log, n)
<1>1. PICK i \in DOMAIN log : log[i].n = n /\ log[i].st = "waiting"
  BY DEF Waits
<1>2. log[i] \in [n : Steps, st : Stats]
  BY DEF Logs, Entries
<1>3. log[i] = [n |-> n, st |-> "waiting"]
  BY <1>1, <1>2
<1>4. QED
  BY <1>3 DEF Asked

\* The room of a step.
LEMMA AsksGrow ==
  ASSUME NEW k \in Steps
  PROVE  /\ k \in Nat /\ k >= 1 /\ Most(k - 1) \in Nat /\ Most(k) \in Nat
         /\ Most(k) = Most(k - 1) + (IF Kind[k] = "ask" THEN 5 ELSE 2)
<1> DEFINE Asks(i) == {m \in 1..i : Kind[m] = "ask"}
<1>1. k \in Nat /\ k >= 1 /\ k - 1 \in Nat
  BY StepsRange
<1>2. IsFiniteSet(Asks(k - 1)) /\ Cardinality(Asks(k - 1)) \in Nat
  <2>1. IsFiniteSet(1..(k - 1))
    BY <1>1, FS_Interval
  <2>2. Asks(k - 1) \subseteq 1..(k - 1)
    OBVIOUS
  <2>3. IsFiniteSet(Asks(k - 1))
    BY <2>1, <2>2, FS_Subset
  <2>4. QED
    BY <2>3, FS_CardinalityType
<1>3. Cardinality(Asks(k)) = Cardinality(Asks(k - 1)) + (IF Kind[k] = "ask" THEN 1 ELSE 0)
  <2>1. CASE Kind[k] = "ask"
    <3>1. Asks(k) = Asks(k - 1) \cup {k} /\ k \notin Asks(k - 1)
      BY <1>1, <2>1
    <3> HIDE DEF Asks
    <3>2. QED
      BY <1>2, <2>1, <3>1, FS_AddElement
  <2>2. CASE Kind[k] # "ask"
    <3>1. Asks(k) = Asks(k - 1)
      BY <1>1, <2>2
    <3> HIDE DEF Asks
    <3>2. QED
      BY <1>2, <2>2, <3>1
  <2>3. QED
    BY <2>1, <2>2
<1>4. Most(k) = 2 * k + 3 * Cardinality(Asks(k))
      /\ Most(k - 1) = 2 * (k - 1) + 3 * Cardinality(Asks(k - 1))
  BY DEF Most
<1> HIDE DEF Asks
<1>5. QED
  BY <1>1, <1>2, <1>3, <1>4

LEMMA MostGrows ==
  ASSUME NEW i \in Nat, NEW j \in Nat, i <= j
  PROVE  Most(i) \in Nat /\ Most(i) <= Most(j)
<1> DEFINE Asks(k) == {m \in 1..k : Kind[m] = "ask"}
<1>1. IsFiniteSet(Asks(j))
  <2>1. IsFiniteSet(1..j)
    BY FS_Interval
  <2>2. Asks(j) \subseteq 1..j
    OBVIOUS
  <2>3. QED
    BY <2>1, <2>2, FS_Subset
<1>2. Asks(i) \subseteq Asks(j)
  OBVIOUS
<1>3. Most(i) = 2 * i + 3 * Cardinality(Asks(i)) /\ Most(j) = 2 * j + 3 * Cardinality(Asks(j))
  BY DEF Most
<1> HIDE DEF Asks
<1>4. IsFiniteSet(Asks(i)) /\ Cardinality(Asks(i)) <= Cardinality(Asks(j))
  BY <1>1, <1>2, FS_Subset
<1>5. Cardinality(Asks(i)) \in Nat /\ Cardinality(Asks(j)) \in Nat
  BY <1>1, <1>4, FS_CardinalityType
<1>6. QED
  BY <1>3, <1>4, <1>5

LEMMA Bounds ==
  /\ MaxLog = Most(Len(Kind)) /\ Len(Kind) \in Nat /\ MaxLog \in Nat
  /\ \A k \in Steps : /\ k \in Nat /\ k >= 1 /\ Most(k - 1) \in Nat /\ Most(k) \in Nat
                      /\ Most(k) = Most(k - 1) + (IF Kind[k] = "ask" THEN 5 ELSE 2)
                      /\ Most(k) <= MaxLog
<1>1. MaxLog = Most(Len(Kind)) /\ Len(Kind) \in Nat /\ MaxLog \in Nat
  BY StepsRange, MostGrows DEF MaxLog
<1>2. \A k \in Steps : Most(k) <= MaxLog
  BY <1>1, StepsRange, MostGrows
<1>3. QED
  BY <1>1, <1>2, AsksGrow

-----------------------------------------------------------------------------
(* What keeps the invariant.                                               *)

Extra == Row /\ Await /\ Lore /\ Claims /\ Timeouts

\* Lanes that know nothing of the run.
Idle == {"off", "lock", "skip", "unlock"}

LEMMA Rows ==
  ASSUME IInv
  PROVE  /\ run \in Runs /\ run.log \in Logs /\ run.cur \in Nat /\ run.cur <= End
         /\ Len(run.log) \in Nat /\ replies \in Nat /\ run.answer \in Nat
BY StepsRange, Domains DEF IInv, Shape, Runs

\* The row and the history stay, and no lane learns anything.
LEMMA Calm ==
  ASSUME AInv, UNCHANGED <<run, awaiting, claimed, early, outcome>>,
         \A l \in Lanes : lane'[l] = lane[l] \/ lane'[l].pc \in Idle
  PROVE  Extra'
<1>1. Row' /\ Await' /\ Claims' /\ Timeouts'
  BY DEF AInv, Row, Await, Woken, Claims, Timeouts, Reached
<1>2. ASSUME NEW l \in Lanes PROVE Knows(lane[l])'
  <2>1. CASE lane'[l].pc \in Idle
    BY <2>1 DEF Knows, Idle
  <2>2. CASE lane'[l] = lane[l]
    BY <2>2 DEF AInv, Lore, Knows, Woken
  <2>3. QED
    BY <2>1, <2>2
<1>3. QED
  BY <1>1, <1>2 DEF Extra, Lore

\* The run ends.
LEMMA Ended ==
  ASSUME AInv, NEW s \in TerminalRun, run' = [run EXCEPT !.status = s],
         UNCHANGED <<awaiting, claimed, early, outcome>>,
         \A l \in Lanes : lane'[l] = lane[l] \/ lane'[l].pc \in Idle
  PROVE  Extra'
<1>1. /\ run'.cur = run.cur /\ run'.log = run.log /\ run'.until = run.until
      /\ run'.answer = run.answer /\ run'.status \notin {"queued", "waiting", "running"}
  BY Rows DEF AInv, Runs, TerminalRun
<1>2. Row' /\ Await' /\ Claims' /\ Timeouts'
  BY <1>1 DEF AInv, Row, Await, Claims, Timeouts, Reached
<1>3. ASSUME NEW l \in Lanes PROVE Knows(lane[l])'
  <2>1. CASE lane'[l].pc \in Idle
    BY <2>1 DEF Knows, Idle
  <2>2. CASE lane'[l] = lane[l]
    BY <1>1, <2>2 DEF AInv, Lore, Knows, Woken
  <2>3. QED
    BY <2>1, <2>2
<1>4. QED
  BY <1>2, <1>3 DEF Extra, Lore

\* A step of the lane that holds the lock teaches only that lane.
LEMMA Learns ==
  ASSUME AInv, NEW l \in Lanes, \A m \in Lanes \ {l} : lane'[m] = lane[m],
         lane[l].pc \in Walking \/ lock \notin Lanes, Knows(lane[l])'
  PROVE  Lore'
<1>1. ASSUME NEW m \in Lanes, m # l PROVE Knows(lane[m])'
  <2>1. lane'[m] = lane[m] /\ lane[m].pc \notin Walking /\ Knows(lane[m])
    BY <1>1 DEF AInv, IInv, Exclusive, Lore
  <2>2. QED
    BY <2>1 DEF Knows, Walking
<1>2. QED
  BY <1>1 DEF Lore

-----------------------------------------------------------------------------
(* Outside the walk.                                                       *)

LEMMA RestKeeps ==
  ASSUME AInv,
         \/ Dispatch \/ Unpublish \/ SweepStep \/ LockLapses \/ Crash
         \/ \E m \in toWake : Wake(m)
         \/ \E id \in JobIds : Due(id) \/ JobExpires(id) \/ Stalled(id)
         \/ UNCHANGED vars
  PROVE  Extra'
<1>1. UNCHANGED <<run, awaiting, claimed, early, outcome>>
  BY DEF Dispatch, Unpublish, SweepStep, SweepSelect, SweepProbe, SweepClear, SweepAdd,
         LockLapses, Crash, Wake, Due, JobExpires, Stalled, vars, history
<1>2. lane' = lane \/ Crash
  BY DEF Dispatch, Unpublish, SweepStep, SweepSelect, SweepProbe, SweepClear, SweepAdd,
         LockLapses, Wake, Due, JobExpires, Stalled, vars, bull
<1>3. Crash => \A l \in Lanes : lane'[l].pc \in Idle
  BY DEF Crash, Off, Idle
<1>4. QED
  BY <1>1, <1>2, <1>3, Calm

LEMMA LaneKeeps ==
  ASSUME AInv, NEW l \in Lanes,
         \/ \E id \in JobIds : Pickup(l, id)
         \/ LockTaken(l) \/ Schedule(l) \/ Finish(l) \/ Throw(l) \/ MarkSkipped(l) \/ Complete(l)
  PROVE  Extra'
<1>1. UNCHANGED <<awaiting, claimed, early, outcome>>
  BY DEF Pickup, LockTaken, Schedule, Finish, Throw, MarkSkipped, Complete, history
<1>2. \A m \in Lanes \ {l} : lane'[m] = lane[m]
  BY DEF Pickup, LockTaken, Schedule, Finish, Throw, MarkSkipped, Complete, Write, AInv, IInv, Shape
<1>3. lane'[l].pc \in Idle
  <2>1. lane \in [Lanes -> Views]
    BY DEF AInv, IInv, Shape
  <2>2. CASE \E id \in JobIds : Pickup(l, id)
    BY <2>1, <2>2 DEF Pickup, Idle
  <2>3. CASE Finish(l)
    BY <2>1, <2>3 DEF Finish, Idle, Off
  <2>4. CASE LockTaken(l) \/ Schedule(l) \/ Throw(l)
    BY <2>1, <2>4 DEF LockTaken, Schedule, Throw, Leave, Idle
  <2>5. CASE MarkSkipped(l) \/ Complete(l)
    BY <2>1, <2>5 DEF MarkSkipped, Complete, Write, Leave, Idle
  <2>6. QED
    BY <2>2, <2>3, <2>4, <2>5
<1>4. CASE MarkSkipped(l) \/ Complete(l)
  <2>1. \E s \in TerminalRun : run' = [run EXCEPT !.status = s]
    BY <1>4 DEF MarkSkipped, Complete, Write, TerminalRun
  <2>2. QED
    BY <2>1, <1>1, <1>2, <1>3, Ended
<1>5. CASE ~(MarkSkipped(l) \/ Complete(l))
  <2>1. run' = run
    BY <1>5 DEF Pickup, LockTaken, Schedule, Finish, Throw
  <2>2. QED
    BY <2>1, <1>1, <1>2, <1>3, Calm
<1>6. QED
  BY <1>4, <1>5

LEMMA GiveUpKeeps ==
  ASSUME AInv, GiveUp
  PROVE  Extra'
<1>1. UNCHANGED <<awaiting, claimed, early, outcome, lane>>
  BY DEF GiveUp, bull, history
<1>2. run' = run \/ \E s \in TerminalRun : run' = [run EXCEPT !.status = s]
  BY DEF GiveUp, TerminalRun
<1>3. QED
  BY <1>1, <1>2, Calm, Ended

LEMMA SweepRowsKeeps ==
  ASSUME AInv, SweepRows
  PROVE  Extra'
<1>1. awaiting' = NoRow /\ UNCHANGED <<run, lane, claimed, early, outcome>>
  BY DEF SweepRows, bull, history
<1>2. Row' /\ Claims' /\ Lore'
  BY <1>1 DEF AInv, Row, Claims, Reached, Lore, Knows, Woken
<1>3. Await'
  BY <1>1 DEF AInv, Await, NoRow, Woken
<1>4. Timeouts'
  BY <1>1, StepsRange DEF AInv, Timeouts, Reached, NoRow
<1>5. QED
  BY <1>2, <1>3, <1>4 DEF Extra

\* A reply claims the row of a question: the present one, which then still has time to go, or an
\* earlier one.  A lane that walks on without the answer was woken early.
LEMMA ReplyKeeps ==
  ASSUME AInv, Reply
  PROVE  Extra'
<1> DEFINE n == awaiting.step
<1>1. /\ awaiting # NoRow /\ awaiting.live /\ awaiting' = NoRow
      /\ run' = [run EXCEPT !.answer = replies + 1] /\ claimed' = claimed \cup {n}
      /\ UNCHANGED <<lane, early, outcome>>
  BY DEF Reply, bull
<1>2. /\ n \in Steps /\ n <= run.cur
      /\ n = run.cur => Asked(run.log, run.cur) /\ run.until = "future"
  BY <1>1 DEF AInv, Await
<1>3. /\ run'.cur = run.cur /\ run'.log = run.log /\ run'.until = run.until
      /\ run'.status = run.status /\ run'.answer # 0
  BY <1>1, Rows DEF AInv, Runs
<1>4. n \in Nat /\ run.cur \in Nat /\ n # 0
  BY <1>2, Rows, StepsRange DEF AInv
<1>5. Row'
  BY <1>3 DEF AInv, Row
<1>6. Await'
  BY <1>1, <1>3 DEF Await, NoRow, Woken
<1>7. ASSUME NEW l \in Lanes PROVE Knows(lane[l])'
  <2>1. Knows(lane[l])
    BY DEF AInv, Lore
  <2>2. run.cur \in claimed' /\ run.cur \notin claimed => run.until = "future"
    BY <1>1, <1>2
  <2>3. QED
    BY <1>1, <1>3, <2>1, <2>2 DEF Knows, Woken
<1>8. Claims'
  BY <1>1, <1>2, <1>3, <1>4 DEF AInv, Claims, Reached
<1>9. Timeouts'
  BY <1>1, <1>3, StepsRange DEF AInv, Timeouts, Reached, NoRow
<1>10. QED
  BY <1>5, <1>6, <1>7, <1>8, <1>9 DEF Extra, Lore

LEMMA ElapseKeeps ==
  ASSUME AInv, Elapse
  PROVE  Extra'
<1>1. /\ run.until = "future" /\ run' = [run EXCEPT !.until = "due"]
      /\ UNCHANGED <<lane, claimed, early, outcome>>
  BY DEF Elapse, bull, history
<1>2. /\ run'.cur = run.cur /\ run'.log = run.log /\ run'.until = "due"
      /\ run'.status = run.status /\ run'.answer = run.answer
  BY <1>1, Rows DEF AInv, Runs
<1>3. /\ awaiting' \in [step : Steps \cup {0}, live : BOOLEAN] /\ awaiting'.step = awaiting.step
      /\ awaiting' # NoRow => awaiting # NoRow
      /\ awaiting' # NoRow /\ awaiting'.step = run.cur => ~awaiting'.live
  <2>1. awaiting \in [step : Steps \cup {0}, live : BOOLEAN]
    BY DEF AInv, Await
  <2>2. CASE awaiting = NoRow
    BY <2>1, <2>2 DEF Elapse, NoRow
  <2>3. CASE awaiting # NoRow /\ awaiting' = [awaiting EXCEPT !.live = FALSE]
    BY <2>1, <2>3 DEF NoRow
  <2>4. CASE awaiting # NoRow /\ awaiting' = awaiting /\ run.cur # awaiting.step
    BY <2>1, <2>4
  <2>5. QED
    BY <2>2, <2>3, <2>4 DEF Elapse
<1>4. Row'
  BY <1>2 DEF AInv, Row
<1>5. Await'
  BY <1>2, <1>3 DEF AInv, Await, Woken
<1>6. Lore'
  BY <1>1, <1>2 DEF AInv, Lore, Knows, Woken
<1>7. Claims'
  BY <1>1, <1>2 DEF AInv, Claims, Reached
<1>8. Timeouts'
  BY <1>1, <1>2, <1>3 DEF AInv, Timeouts, Reached
<1>9. QED
  BY <1>4, <1>5, <1>6, <1>7, <1>8 DEF Extra

-----------------------------------------------------------------------------
(* The walk.                                                               *)

\* A lane of the walk, with what it knows, and the row.
LEMMA WalkView ==
  ASSUME AInv, NEW l \in Lanes, lane[l].pc \in Walking
  PROVE  /\ lane[l] \in [pc : Walking, id : JobIds, log : Logs, answer : Nat, cur : Nat]
         /\ lane[l].log \in Logs /\ lane[l].cur \in Nat /\ lane[l].answer \in Nat
         /\ Copies(lane[l]) /\ Knows(lane[l])
         /\ run \in Runs /\ run.log \in Logs /\ run.cur \in Nat /\ run.cur <= End
         /\ Len(run.log) \in Nat
<1>1. lane[l] \in [pc : Walking, id : JobIds, log : Logs, answer : Nat, cur : Nat]
      /\ Copies(lane[l])
  BY ViewOf DEF AInv
<1>2. QED
  BY <1>1, Rows DEF AInv, Lore

LEMMA ParkedAsked ==
  ASSUME AInv, Parked
  PROVE  Asked(run.log, run.cur) /\ run.cur \in Steps
BY DEF Parked, Asked

\* The pickup is let through because the time is over, the answer is there, or early.
LEMMA LoadKeeps ==
  ASSUME AInv, NEW l \in Lanes, Load(l)
  PROVE  Extra'
<1> DEFINE v == lane[l]
           w == lane'[l]
<1>1. /\ lock = Free /\ UNCHANGED <<run, awaiting, claimed, outcome>>
      /\ \A m \in Lanes \ {l} : lane'[m] = lane[m]
  BY DEF Load, AInv, IInv, Shape
<1>2. \/ w.pc \in Idle /\ early' = early
      \/ /\ w.pc = "start" /\ run.status \notin TerminalRun /\ ~Stale(v.id)
         /\ w.answer = run.answer
         /\ early' = IF Early THEN early \cup {run.cur} ELSE early
  <2>1. lane \in [Lanes -> Views]
    BY DEF AInv, IInv, Shape
  <2>2. CASE ~published
    BY <2>1, <2>2 DEF Load, Idle
  <2>3. CASE published /\ (run.status \in TerminalRun \/ Stale(v.id))
    BY <2>1, <2>3 DEF Load, Idle, Leave
  <2>4. CASE published /\ ~(run.status \in TerminalRun \/ Stale(v.id))
    BY <2>1, <2>4 DEF Load
  <2>5. QED
    BY <2>2, <2>3, <2>4
<1>3. Early /\ w.pc = "start" => Asked(run.log, run.cur) /\ run.cur \in Steps
  BY <1>2, ParkedAsked DEF Early, Stale, Idle
<1>4. early \subseteq early' /\ early' \subseteq Steps
  BY <1>2, <1>3 DEF AInv, Claims
<1>5. Row' /\ Claims' /\ Await' /\ Timeouts'
  BY <1>1, <1>4 DEF AInv, Row, Claims, Await, Woken, Timeouts, Reached
<1>6. Knows(lane[l])'
  <2>1. CASE w.pc \in Idle
    BY <2>1 DEF Knows, Idle
  <2>2. CASE w.pc = "start" /\ w.pc \notin Idle
    <3>1. Asked(run.log, run.cur) => (Woken(run.answer))'
      <4>1. SUFFICES ASSUME Asked(run.log, run.cur) PROVE Woken(run.answer)'
        OBVIOUS
      <4>2. CASE run.status = "waiting"
        <5>1. run.until \in {"future", "due"}
          BY <4>2, Rows DEF AInv, Row, Runs
        <5>2. QED
          BY <5>1, <4>2, <1>1, <1>2, <2>2 DEF Early, Woken
      <4>3. CASE run.status = "running"
        BY <4>1, <4>3, <1>1, <1>4 DEF AInv, Await, Woken
      <4>4. CASE run.status = "queued"
        BY <4>1, <4>4 DEF AInv, Row, Asked
      <4>5. QED
        BY <4>2, <4>3, <4>4, <1>2, <2>2, Rows DEF AInv, Runs
    <3>2. run.cur \in claimed => run.answer # 0
      BY DEF AInv, Claims
    <3>3. run.status = "waiting" => run.until = "due" \/ Asked(run.log, run.cur)
      <4>1. run.status = "waiting" => run.until \in {"future", "due"}
        BY Rows DEF AInv, Row, Runs
      <4>2. QED
        BY <4>1, <1>2, <2>2, ParkedAsked DEF Stale
    <3>4. QED
      BY <1>1, <1>2, <2>2, <3>1, <3>2, <3>3 DEF Knows, Woken
  <2>3. QED
    BY <2>1, <2>2, <1>2
<1>7. Lore'
  BY <1>1, <1>6, Learns, LanesRange
<1>8. QED
  BY <1>5, <1>7 DEF Extra

LEMMA StartKeeps ==
  ASSUME AInv, NEW l \in Lanes, Start(l)
  PROVE  Extra'
<1> DEFINE v == lane[l]
<1>1. v.pc = "start" /\ v.pc \in Walking
  BY DEF Start, At, Walking
<1>2. /\ Copies(v) /\ Knows(v) /\ run \in Runs /\ run.log \in Logs /\ run.cur \in Nat
      /\ v \in [pc : Walking, id : JobIds, log : Logs, answer : Nat, cur : Nat]
  BY <1>1, WalkView
<1>3. /\ run' = [run EXCEPT !.status = "running", !.cur = v.cur]
      /\ lane' = [lane EXCEPT ![l] = [v EXCEPT !.pc = "step"]]
      /\ UNCHANGED <<awaiting, claimed, early, outcome>>
  BY DEF Start, Write, history
<1>4. /\ run'.cur = v.cur /\ run'.log = run.log /\ run'.until = run.until
      /\ run'.status = "running" /\ run'.answer = run.answer
  BY <1>2, <1>3 DEF Runs
<1>5. /\ lane'[l].pc = "step" /\ lane'[l].answer = v.answer
      /\ \A m \in Lanes \ {l} : lane'[m] = lane[m]
  BY <1>2, <1>3 DEF AInv, IInv, Shape
<1>6. CASE v.cur = run.cur
  <2>1. Row' /\ Claims' /\ Timeouts'
    BY <1>3, <1>4, <1>6 DEF AInv, Row, Claims, Timeouts, Reached
  <2>2. Await'
    BY <1>1, <1>2, <1>3, <1>4, <1>6 DEF AInv, Await, Knows, Woken
  <2>3. Knows(lane[l])'
    BY <1>1, <1>2, <1>3, <1>4, <1>5, <1>6 DEF Knows, Woken
  <2>4. QED
    BY <1>1, <1>5, <2>1, <2>2, <2>3, Learns DEF Extra
<1>7. CASE run.cur = 0 /\ v.cur = 1
  <2>1. run.log = <<>> /\ Len(run.log) = 0
    BY <1>7 DEF AInv, Row
  <2>2. ~Asked(run.log, 1) /\ ~Orphaned(run.log, 1) /\ Below(run.log, 1)
    BY <2>1 DEF Asked, Orphaned, Below
  <2>3. Row'
    <3>1. 0 <= Most(1 - 1)
      BY MostGrows
    <3>2. Len(run.log) <= Room(run.log, 1)
      BY <2>1, <2>2, <3>1, MostGrows DEF Room
    <3>3. QED
      BY <1>4, <1>7, <2>1, <2>2, <3>2 DEF Row
  <2>4. \A n \in Steps : ~Reached(n)
    BY <1>7, <2>1, StepsRange DEF Reached, Asked
  <2>5. Claims' /\ Timeouts'
    BY <1>3, <2>4 DEF AInv, Claims, Timeouts
  <2>6. awaiting = NoRow
    BY <1>7, StepsRange DEF AInv, Await
  <2>7. Await'
    BY <1>3, <1>4, <1>7, <2>2, <2>6 DEF Await, NoRow
  <2>8. Knows(lane[l])'
    BY <1>4, <1>5, <1>7, <2>2 DEF Knows
  <2>9. QED
    BY <1>1, <1>5, <2>3, <2>5, <2>7, <2>8, Learns DEF Extra
<1>8. QED
  BY <1>1, <1>2, <1>6, <1>7 DEF Copies

LEMMA JournalKeeps ==
  ASSUME AInv, NEW l \in Lanes, Journal(l)
  PROVE  Extra'
<1> DEFINE v == lane[l]
           log == v.log \o Entry(v.cur, "in_progress")
<1>1. /\ v.pc = "step" /\ v.pc \in Walking /\ v.cur \in Steps /\ ~Orphaned(v.log, v.cur)
      /\ run' = [run EXCEPT !.log = log]
      /\ lane' = [lane EXCEPT ![l] = [v EXCEPT !.pc = "run", !.log = log]]
      /\ UNCHANGED <<awaiting, claimed, early, outcome>>
  BY DEF Journal, At, Walking, Write, history
<1>2. /\ Copies(v) /\ Knows(v) /\ run \in Runs /\ run.log \in Logs /\ run.cur \in Nat
      /\ v \in [pc : Walking, id : JobIds, log : Logs, answer : Nat, cur : Nat]
      /\ Len(run.log) \in Nat
  BY <1>1, WalkView
<1>3. v.cur = run.cur /\ v.log = run.log /\ run.cur \in Steps /\ run.cur >= 1
  BY <1>1, <1>2, Bounds DEF Copies
<1>4. /\ log \in Logs /\ Len(log) = Len(run.log) + 1 /\ log # <<>>
      /\ Orphaned(log, run.cur) /\ (Asked(log, run.cur) <=> Asked(run.log, run.cur))
      /\ Below(run.log, run.cur) => Below(log, run.cur)
      /\ Waits(run.log, run.cur) => Waits(log, run.cur)
  <2>0. v.log \in Logs /\ v.cur \in Steps /\ run.cur \in Int /\ "in_progress" \in Stats
    BY <1>2, <1>3 DEF Stats
  <2>1. log \in Logs /\ Len(log) = Len(v.log) + 1
    BY <2>0, Grown, ZenonT(40)
  <2>2. Orphaned(log, run.cur) /\ log # <<>>
    BY <1>2, <1>3, <2>1, JournalOpens, OpenIsOrphaned DEF Open
  <2>3. (Asked(log, run.cur) <=> Asked(run.log, run.cur)) /\ (Below(run.log, run.cur) => Below(log, run.cur))
    <3>1. /\ Asked(log, run.cur) <=> Asked(v.log, run.cur)
          /\ \A k \in Int : Below(v.log, k) /\ v.cur <= k => Below(log, k)
      BY <2>0, AskedMore
    <3>2. QED
      BY <3>1, <2>0, <1>3
  <2>4. Waits(run.log, run.cur) => Waits(log, run.cur)
    BY <1>2, <1>3, JournalKeepsWait
  <2>5. QED
    BY <1>3, <2>1, <2>2, <2>3, <2>4
<1> HIDE DEF log
<1>5. /\ run'.cur = run.cur /\ run'.log = log /\ run'.until = run.until
      /\ run'.status = run.status /\ run'.answer = run.answer
  BY <1>1, <1>2 DEF Runs
<1>6. /\ lane'[l].pc = "run" /\ lane'[l].answer = v.answer
      /\ \A m \in Lanes \ {l} : lane'[m] = lane[m]
  BY <1>1, <1>2 DEF AInv, IInv, Shape
<1>7. run.status \notin {"queued", "waiting"}
  BY <1>1, <1>2 DEF Knows
<1>8. Row'
  <2>1. Len(log) <= Room(log, run.cur)
    <3>1. Most(run.cur - 1) \in Nat
      BY <1>3, Bounds
    <3>2. QED
      BY <3>1, <1>1, <1>2, <1>3, <1>4 DEF AInv, Row, Room
  <2>2. QED
    BY <1>3, <1>4, <1>5, <1>7, <2>1 DEF AInv, Row
<1>9. Claims' /\ Timeouts'
  BY <1>1, <1>4, <1>5 DEF AInv, Claims, Timeouts, Reached
<1>10. Await'
  BY <1>1, <1>4, <1>5 DEF AInv, Await, Woken
<1>11. Knows(lane[l])'
  BY <1>1, <1>2, <1>4, <1>5, <1>6 DEF Knows, Woken
<1>12. QED
  BY <1>1, <1>6, <1>8, <1>9, <1>10, <1>11, Learns DEF Extra

\* The run moves on to a step its log does not know yet.
LEMMA Moved ==
  ASSUME AInv, NEW l \in Lanes, lane[l].pc \in Walking,
         \A m \in Lanes \ {l} : lane'[m] = lane[m], Knows(lane[l])',
         UNCHANGED <<awaiting, claimed, early>>,
         run'.log \in Logs, run.cur > 0, run'.cur \in Nat, run.cur < run'.cur,
         Below(run'.log, run.cur), Len(run'.log) <= Most(run'.cur - 1),
         run'.status # "queued",
         run'.status = "waiting" => run'.until # "none" /\ run'.log # <<>>,
         outcome' \in [Steps -> {"none", "answered", "timeout", "skipped"}],
         \A n \in Steps : outcome'[n] = "timeout" => outcome[n] = "timeout"
  PROVE  Extra'
<1>1. run.cur \in Nat /\ Len(run'.log) \in Nat
  BY Rows, Domains DEF AInv
<1>2. /\ ~Asked(run'.log, run'.cur) /\ ~Orphaned(run'.log, run'.cur)
      /\ Below(run'.log, run'.cur)
  BY <1>1, AfterBelow
<1>3. Row'
  <2>1. run'.cur - 1 \in Nat /\ Most(run'.cur - 1) \in Nat
    BY <1>1, MostGrows
  <2>2. Len(run'.log) <= Room(run'.log, run'.cur)
    BY <1>1, <1>2, <2>1 DEF Room
  <2>3. QED
    BY <1>1, <1>2, <2>2 DEF Row
<1>4. Await'
  BY <1>1, <1>2, StepsRange DEF AInv, Await
<1>5. \A n \in Steps : Reached(n) => Reached(n)' /\ n # run'.cur
  BY <1>1, StepsRange DEF Reached
<1>6. Claims' /\ Timeouts'
  BY <1>5 DEF AInv, Claims, Timeouts
<1>7. QED
  BY <1>3, <1>4, <1>6, Learns DEF Extra

LEMMA SkipKeeps ==
  ASSUME AInv, NEW l \in Lanes, SkipOrphan(l) \/ Wait(l)
  PROVE  Extra'
<1> DEFINE v == lane[l]
<1>1. /\ v.pc = "step" /\ v.pc \in Walking /\ v.cur \in Steps
      /\ UNCHANGED <<awaiting, claimed, early>>
      /\ lane' = [lane EXCEPT ![l] = lane'[l]]
  BY DEF SkipOrphan, Wait, At, Walking, history, Write, AInv, IInv, Shape
<1>2. /\ Copies(v) /\ Knows(v) /\ run \in Runs /\ run.log \in Logs /\ run.cur \in Nat
      /\ v \in [pc : Walking, id : JobIds, log : Logs, answer : Nat, cur : Nat]
      /\ Len(run.log) \in Nat
  BY <1>1, WalkView
<1>3. /\ v.cur = run.cur /\ v.log = run.log /\ run.cur \in Steps /\ run.cur >= 1 /\ run.cur + 1 \in Nat
      /\ Below(run.log, run.cur) /\ Len(run.log) <= Room(run.log, run.cur)
      /\ run.status \notin {"queued", "waiting"}
      /\ Most(run.cur - 1) \in Nat /\ Most(run.cur) <= MaxLog /\ MaxLog \in Nat
      /\ Most(run.cur) \in Nat
      /\ Most(run.cur) = Most(run.cur - 1) + (IF Kind[run.cur] = "ask" THEN 5 ELSE 2)
      /\ Asked(run.log, run.cur) => Kind[run.cur] = "ask"
  BY <1>1, <1>2, Bounds, SMTT(20) DEF AInv, Row, Copies, Knows
<1>4. \A m \in Lanes \ {l} : lane'[m] = lane[m]
  BY <1>1 DEF AInv, IInv, Shape
<1>5. outcome \in [Steps -> {"none", "answered", "timeout", "skipped"}]
  BY DEF AInv, Timeouts
<1>6. CASE SkipOrphan(l)
  <2> DEFINE log == v.log \o Entry(v.cur, "skipped_after_crash")
  <2>1. /\ run' = [run EXCEPT !.cur = v.cur + 1, !.log = log]
        /\ lane' = [lane EXCEPT ![l] = [v EXCEPT !.cur = v.cur + 1, !.log = log]]
        /\ outcome' = [outcome EXCEPT ![v.cur] = "skipped"]
    BY <1>6 DEF SkipOrphan, Write
  <2>2. "skipped_after_crash" \in Stats
    BY DEF Stats
  <2>3. log \in Logs /\ Len(log) = Len(run.log) + 1 /\ Below(log, run.cur)
    <3>1. v.log \in Logs /\ v.cur \in Steps
      BY <1>2, <1>3
    <3>2. Below(v.log, run.cur) /\ run.cur \in Int /\ v.cur <= run.cur
      BY <1>2, <1>3
    <3>3. log \in Logs /\ Len(log) = Len(v.log) + 1 /\ Below(log, run.cur)
      BY <2>2, <3>1, <3>2, OneMore
    <3> HIDE DEF log
    <3>4. QED
      BY <1>3, <3>3
  <2> HIDE DEF log
  <2>4. Len(log) <= Most((run.cur + 1) - 1)
    <3>1. /\ run.cur \in Nat /\ Len(run.log) \in Nat /\ Len(run.log) <= Room(run.log, run.cur)
          /\ Len(log) = Len(run.log) + 1
          /\ Most(run.cur - 1) \in Nat /\ Most(run.cur) <= MaxLog /\ MaxLog \in Nat
          /\ Most(run.cur) \in Nat
          /\ Most(run.cur) = Most(run.cur - 1) + (IF Kind[run.cur] = "ask" THEN 5 ELSE 2)
          /\ Asked(run.log, run.cur) => Kind[run.cur] = "ask"
      BY <1>2, <1>3, <2>3
    <3>2. (run.cur + 1) - 1 = run.cur
      BY <3>1
    <3>3. Len(log) <= Most(run.cur)
      BY <3>1 DEF Room
    <3>4. QED
      BY <3>1, <3>2, <3>3
  <2>5. run'.cur = run.cur + 1 /\ run'.log = log /\ run'.status = run.status
    BY <1>2, <1>3, <2>1 DEF Runs
  <2>6. lane'[l].pc = "step"
    BY <1>1, <1>2, <2>1 DEF AInv, IInv, Shape
  <2>7. ~Asked(log, run.cur + 1)
    BY <1>2, <1>3, <2>3, AfterBelow
  <2>8. Knows(lane[l])'
    BY <1>3, <2>5, <2>6, <2>7 DEF Knows
  <2>9. \A k \in Steps : outcome'[k] = "timeout" => outcome[k] = "timeout"
    BY <1>5, <2>1
  <2>10. outcome' \in [Steps -> {"none", "answered", "timeout", "skipped"}]
    BY <1>5, <2>1
  <2>11. run'.status \notin {"queued", "waiting"} /\ run.cur > 0 /\ run.cur < run'.cur /\ run'.cur \in Nat
    BY <1>2, <1>3, <2>5
  <2>12. QED
    BY <1>1, <1>4, <2>3, <2>4, <2>5, <2>8, <2>9, <2>10, <2>11, Moved
<1>7. CASE Wait(l)
  <2> DEFINE log == v.log \o Entry(v.cur, "waiting")
  <2>1. /\ run' = [run EXCEPT !.status = "waiting", !.cur = v.cur + 1, !.until = "future",
                              !.log = log]
        /\ lane' = [lane EXCEPT ![l] = [pc |-> "schedule", id |-> v.id, seq |-> Len(log)]]
        /\ outcome' = outcome /\ Kind[v.cur] = "wait"
    BY <1>7 DEF Wait, Write, history
  <2>2. "waiting" \in Stats
    BY DEF Stats
  <2>3. log \in Logs /\ Len(log) = Len(run.log) + 1 /\ Below(log, run.cur)
    <3>1. v.log \in Logs /\ v.cur \in Steps
      BY <1>2, <1>3
    <3>2. Below(v.log, run.cur) /\ run.cur \in Int /\ v.cur <= run.cur
      BY <1>2, <1>3
    <3>3. log \in Logs /\ Len(log) = Len(v.log) + 1 /\ Below(log, run.cur)
      BY <2>1, <2>2, <3>1, <3>2, OneMore
    <3> HIDE DEF log
    <3>4. QED
      BY <1>3, <3>3
  <2> HIDE DEF log
  <2>4. Len(log) <= Most((run.cur + 1) - 1) /\ Len(log) \in 1..MaxLog
    <3>1. /\ run.cur \in Nat /\ Len(run.log) \in Nat /\ Len(run.log) <= Room(run.log, run.cur)
          /\ Len(log) = Len(run.log) + 1
          /\ Most(run.cur - 1) \in Nat /\ Most(run.cur) <= MaxLog /\ MaxLog \in Nat
          /\ Most(run.cur) \in Nat
          /\ Most(run.cur) = Most(run.cur - 1) + (IF Kind[run.cur] = "ask" THEN 5 ELSE 2)
          /\ Asked(run.log, run.cur) => Kind[run.cur] = "ask"
      BY <1>2, <1>3, <2>3
    <3>2. (run.cur + 1) - 1 = run.cur
      BY <3>1
    <3>3. Len(log) <= Most(run.cur)
      BY <3>1, <2>1, <1>3 DEF Room
    <3>4. QED
      BY <3>1, <3>2, <3>3, <2>3, Domains
  <2>5. run'.cur = run.cur + 1 /\ run'.log = log /\ run'.status = "waiting" /\ run'.until = "future"
    BY <1>2, <1>3, <2>1 DEF Runs
  <2>6. lane'[l].pc = "schedule" /\ lane'[l].seq = Len(log)
    BY <2>1 DEF AInv, IInv, Shape
  <2>7. Knows(lane[l])'
    BY <2>4, <2>6 DEF Knows
  <2>8. log # <<>>
    BY <2>4
  <2>9. run.cur > 0 /\ run.cur < run'.cur /\ run'.cur \in Nat
    BY <1>2, <1>3, <2>5
  <2>10. QED
    BY <1>1, <1>4, <1>5, <2>1, <2>3, <2>4, <2>5, <2>7, <2>8, <2>9, Moved
<1>8. QED
  BY <1>6, <1>7

LEMMA AdvanceKeeps ==
  ASSUME AInv, NEW l \in Lanes, Advance(l)
  PROVE  Extra'
<1> DEFINE v == lane[l]
<1>1. /\ v.pc = "advance" /\ v.pc \in Walking
      /\ UNCHANGED <<awaiting, claimed, early, outcome>>
  BY DEF Advance, At, Walking, history
<1>2. /\ Copies(v) /\ Knows(v) /\ run \in Runs /\ run.cur \in Nat
      /\ v \in [pc : Walking, id : JobIds, log : Logs, answer : Nat, cur : Nat]
      /\ v.log \in Logs /\ v.cur \in Nat /\ Len(v.log) \in Nat
  BY <1>1, WalkView, Domains
<1>3. \E a, b : /\ run' = [run EXCEPT !.cur = v.cur, !.log = v.log, !.answer = a]
                /\ lane' = [lane EXCEPT ![l] = [v EXCEPT !.pc = "step", !.answer = b]]
  <2> DEFINE used == LET k == v.log[Len(v.log)].n
                     IN  Kind[k] = "ask" /\ Waits(SubSeq(v.log, 1, Len(v.log) - 1), k)
  <2>1. /\ run' = [run EXCEPT !.cur = v.cur, !.log = v.log,
                              !.answer = IF used THEN 0 ELSE run.answer]
        /\ lane' = [lane EXCEPT ![l] =
                     [v EXCEPT !.pc = "step", !.answer = IF used THEN 0 ELSE v.answer]]
    BY DEF Advance, Write
  <2>2. QED
    BY <2>1
<1>4. run'.cur = v.cur /\ run'.log = v.log /\ run'.status = run.status
  BY <1>2, <1>3 DEF Runs
<1>5. lane'[l].pc = "step" /\ \A m \in Lanes \ {l} : lane'[m] = lane[m]
  BY <1>2, <1>3 DEF AInv, IInv, Shape
<1>6. /\ run.cur < v.cur /\ run.cur > 0 /\ Below(v.log, run.cur) /\ Len(v.log) <= Most(run.cur)
      /\ run.status \notin {"queued", "waiting"}
  BY <1>1, <1>2 DEF Copies, Knows
<1>7. ~Asked(v.log, v.cur)
  BY <1>2, <1>6, AfterBelow
<1>8. Knows(lane[l])'
  BY <1>4, <1>5, <1>6, <1>7 DEF Knows
<1>9. Len(v.log) <= Most(v.cur - 1)
  <2>1. v.cur - 1 \in Nat /\ run.cur <= v.cur - 1
    BY <1>2, <1>6
  <2>2. run.cur \in Nat
    BY <1>2
  <2> HIDE DEF v
  <2>3. Most(run.cur) \in Nat /\ Most(v.cur - 1) \in Nat /\ Most(run.cur) <= Most(v.cur - 1)
    BY <2>1, <2>2, MostGrows
  <2>4. QED
    BY <1>2, <1>6, <2>3
<1>10. outcome \in [Steps -> {"none", "answered", "timeout", "skipped"}]
  BY DEF AInv, Timeouts
<1>11. QED
  BY <1>1, <1>2, <1>4, <1>5, <1>6, <1>8, <1>9, <1>10, Moved

\* The run parks on a question it has not waited on before.
LEMMA Parks ==
  ASSUME AInv, NEW l \in Lanes, lane[l].pc \in Walking, run.cur \in Steps,
         lane[l].cur = run.cur, Kind[run.cur] = "ask", ~Asked(run.log, run.cur),
         NEW less \in Logs, Below(less, run.cur), Len(less) <= Most(run.cur - 1) + 2,
         ParkOn(l, less \o Entry(lane[l].cur, "waiting")), UNCHANGED history
  PROVE  Extra'
<1> DEFINE log == less \o Entry(run.cur, "waiting")
<1>1. /\ run' = [status |-> "waiting", cur |-> run.cur, until |-> "future", log |-> log,
                 answer |-> 0]
      /\ awaiting' = [step |-> run.cur, live |-> TRUE]
      /\ lane' = [lane EXCEPT ![l] = [pc |-> "schedule", id |-> lane[l].id, seq |-> Len(log)]]
      /\ UNCHANGED <<claimed, early, outcome>>
  BY DEF ParkOn, Write, history
<1>2. /\ "waiting" \in Stats /\ run.cur \in Int /\ run.cur \in Nat /\ run.cur >= 1
      /\ Len(less) \in Nat /\ MaxLog \in Nat /\ Most(run.cur - 1) \in Nat
      /\ Most(run.cur - 1) + 5 <= MaxLog
  BY Domains, Bounds DEF Stats
<1>3. log \in Logs /\ Len(log) = Len(less) + 1 /\ Below(log, run.cur)
  BY <1>2, OneMore
<1>4. Asked(log, run.cur)
  BY <1>2, AskedMore
<1>5. Waits(log, run.cur)
  BY <1>2, WaitWaits
<1>6. log[Len(log)].n = run.cur
  <2>1. log[Len(less) + 1] = [n |-> run.cur, st |-> "waiting"]
    BY <1>2, Grown
  <2>2. QED
    BY <1>3, <2>1
<1> HIDE DEF log
<1>7. /\ run'.cur = run.cur /\ run'.log = log /\ run'.until = "future"
      /\ run'.status = "waiting" /\ run'.answer = 0
      /\ awaiting'.step = run.cur
  BY <1>1
<1>8. log # <<>> /\ Len(log) \in 1..MaxLog
  BY <1>2, <1>3
<1>9. Len(log) <= Room(log, run.cur)
  BY <1>2, <1>3, <1>4 DEF Room
<1>10. Row'
  BY <1>2, <1>3, <1>4, <1>5, <1>6, <1>7, <1>8, <1>9 DEF Row
<1>11. Await'
  BY <1>1, <1>2, <1>4, <1>7 DEF Await
<1>12. Knows(lane[l])' /\ \A m \in Lanes \ {l} : lane'[m] = lane[m]
  BY <1>1, <1>8 DEF AInv, IInv, Shape, Knows
<1>13. \A k \in Steps : Reached(k) => k < run.cur /\ k # run.cur /\ Reached(k)'
  BY <1>2, <1>7, StepsRange DEF Reached
<1>14. Claims' /\ Timeouts'
  BY <1>1, <1>7, <1>13 DEF AInv, Claims, Timeouts
<1>15. QED
  BY <1>10, <1>11, <1>12, <1>14, Learns DEF Extra

LEMMA ParkStays ==
  ASSUME AInv, NEW l \in Lanes, Park(l) \/ Rearm(l)
  PROVE  Extra'
<1> DEFINE v == lane[l]
<1>1. v.pc \in {"park", "step"} /\ v.pc \in Walking /\ UNCHANGED history
  BY DEF Park, Rearm, At, Walking
<1>2. /\ Copies(v) /\ Knows(v) /\ run.log \in Logs /\ run.cur \in Nat /\ Len(run.log) \in Nat
      /\ v.log \in Logs /\ Len(v.log) \in Nat
  BY <1>1, WalkView, Domains
<1>3. CASE Park(l)
  <2>1. /\ v.cur = run.cur /\ run.cur \in Steps /\ Kind[run.cur] = "ask"
        /\ ~Asked(run.log, run.cur) /\ Below(v.log, run.cur)
        /\ Len(v.log) <= Most(run.cur - 1)
    BY <1>2, <1>3 DEF Park, At, Copies, Knows
  <2>2. ParkOn(l, v.log \o Entry(v.cur, "waiting"))
    BY <1>3 DEF Park
  <2>3. Len(v.log) <= Most(run.cur - 1) + 2
    BY <1>2, <2>1, Bounds
  <2>4. QED
    BY <1>1, <1>2, <2>1, <2>2, <2>3, Parks
<1>4. CASE Rearm(l)
  <2> DEFINE less == v.log \o Entry(v.cur, "skipped_after_crash")
  <2>1. /\ v.cur = run.cur /\ v.log = run.log /\ run.cur \in Steps /\ Kind[run.cur] = "ask"
        /\ ~Asked(run.log, run.cur)
    BY <1>2, <1>4 DEF Rearm, At, Copies, Rearms, Asked
  <2>2. ParkOn(l, less \o Entry(v.cur, "waiting"))
    BY <1>4 DEF Rearm
  <2>3. /\ "skipped_after_crash" \in Stats /\ run.cur \in Int /\ run.cur >= 1
        /\ Below(run.log, run.cur) /\ Len(run.log) <= Room(run.log, run.cur)
        /\ Most(run.cur - 1) \in Nat
    BY <2>1, Bounds DEF Stats, AInv, Row
  <2>4. less \in Logs /\ Len(less) = Len(run.log) + 1 /\ Below(less, run.cur)
    <3> DEFINE more == run.log \o Entry(run.cur, "skipped_after_crash")
    <3>1. /\ run.log \in Logs /\ run.cur \in Steps /\ "skipped_after_crash" \in Stats
          /\ run.cur \in Int /\ Below(run.log, run.cur) /\ run.cur <= run.cur
      BY <1>2, <2>1, <2>3
    <3>2. more \in Logs /\ Len(more) = Len(run.log) + 1 /\ Below(more, run.cur)
      BY <3>1, OneMore
    <3>3. less = more
      BY <2>1
    <3> HIDE DEF more, less
    <3>4. QED
      BY <3>2, <3>3
  <2> HIDE DEF less
  <2>5. Len(less) <= Most(run.cur - 1) + 2
    BY <1>2, <2>1, <2>3, <2>4 DEF Room
  <2>6. QED
    BY <1>1, <2>1, <2>2, <2>4, <2>5, Parks
<1>5. QED
  BY <1>3, <1>4

\* The lane that ran a step, or resumed a question, still holds the result back from the row.
LEMMA Ran ==
  ASSUME AInv, NEW l \in Lanes, At(l, "run"), run' = run, UNCHANGED <<claimed, early>>,
         NEW st \in {"success", "failed"}, NEW next,
         lane' = [lane EXCEPT ![l] = Result(lane[l], st, next)],
         Await', Timeouts'
  PROVE  Extra'
<1> DEFINE v == lane[l]
           log == SubSeq(v.log, 1, Len(v.log) - 1) \o Entry(v.cur, st)
<1>1. v.pc = "run" /\ v.pc \in Walking
  BY DEF At, Walking
<1>2. /\ Copies(v) /\ Knows(v) /\ run.log \in Logs /\ run.cur \in Nat /\ Len(run.log) \in Nat
      /\ v \in [pc : Walking, id : JobIds, log : Logs, answer : Nat, cur : Nat]
  BY <1>1, WalkView
<1>3. /\ v.cur = run.cur /\ v.log = run.log /\ run.cur \in Steps /\ run.log # <<>>
      /\ run.cur \in Int /\ run.cur >= 1
      /\ Below(run.log, run.cur) /\ Len(run.log) <= Room(run.log, run.cur)
      /\ run.status \notin {"queued", "waiting"}
  BY <1>1, <1>2, Bounds DEF AInv, Row, Copies, Knows, Open
<1>4. log \in Logs /\ Len(log) = Len(run.log) /\ Below(log, run.cur)
  <2> DEFINE less == SubSeq(run.log, 1, Len(run.log) - 1)
  <2>1. less \in Logs /\ Len(less) = Len(run.log) - 1 /\ Below(less, run.cur)
    BY <1>2, <1>3, Cut
  <2> HIDE DEF less
  <2>2. st \in Stats /\ st # "waiting"
    BY DEF Stats
  <2>3. /\ less \o Entry(run.cur, st) \in Logs /\ Below(less \o Entry(run.cur, st), run.cur)
        /\ Len(less \o Entry(run.cur, st)) = Len(less) + 1
    BY <1>3, <2>1, <2>2, OneMore
  <2>4. log = less \o Entry(run.cur, st)
    BY <1>3 DEF less
  <2> HIDE DEF log
  <2>5. QED
    BY <1>2, <2>1, <2>3, <2>4
<1>5. lane'[l] = [v EXCEPT !.pc = "advance", !.cur = next, !.log = log]
  BY DEF AInv, IInv, Shape, Result
<1> HIDE DEF log
<1>6. lane'[l].pc = "advance" /\ lane'[l].log = log
  BY <1>2, <1>5
<1>7. Len(log) <= Most(run.cur)
  <2>1. /\ Most(run.cur - 1) \in Nat /\ Most(run.cur) \in Nat
        /\ Most(run.cur) = Most(run.cur - 1) + (IF Kind[run.cur] = "ask" THEN 5 ELSE 2)
    BY <1>3, Bounds
  <2>2. Asked(run.log, run.cur) => Kind[run.cur] = "ask"
    BY DEF AInv, Row
  <2>3. QED
    BY <1>2, <1>3, <1>4, <2>1, <2>2 DEF Room
<1>8. Knows(lane[l])'
  BY <1>3, <1>4, <1>6, <1>7 DEF Knows
<1>9. \A m \in Lanes \ {l} : lane'[m] = lane[m]
  BY DEF AInv, IInv, Shape
<1>10. Row' /\ Claims'
  BY DEF AInv, Row, Claims, Reached
<1>11. QED
  BY <1>1, <1>8, <1>9, <1>10, Learns DEF Extra

LEMMA RanStays ==
  ASSUME AInv, UNCHANGED <<run, awaiting, claimed, early, outcome>>
  PROVE  Await' /\ Timeouts'
BY DEF AInv, Await, Woken, Timeouts, Reached

LEMMA RefusedKeeps ==
  ASSUME AInv, NEW l \in Lanes, Refused(l)
  PROVE  Extra'
<1>1. /\ At(l, "run") /\ UNCHANGED <<run, awaiting, claimed, early, outcome>>
      /\ \E next : lane' = [lane EXCEPT ![l] = Result(lane[l], "failed", next)]
  BY DEF Refused, Write, history
<1>2. QED
  BY <1>1, Ran, RanStays

\* A question that fires has not been waited on: no reply claimed it, and no answer is lost.
LEMMA FireKeeps ==
  ASSUME AInv, NEW l \in Lanes, Fire(l)
  PROVE  Extra'
<1> DEFINE v == lane[l]
<1>1. v.pc = "run" /\ v.pc \in Walking /\ At(l, "run") /\ ~Resuming(v)
      /\ UNCHANGED <<awaiting, claimed, early, outcome>>
  BY DEF Fire, At, Walking
<1>2. CASE Kind[v.cur] # "ask"
  <2>1. run' = run /\ lane' = [lane EXCEPT ![l] = Result(v, "success", v.cur + 1)]
    BY <1>2 DEF Fire, Write
  <2>2. QED
    BY <1>1, <2>1, Ran, RanStays
<1>3. CASE Kind[v.cur] = "ask"
  <2> DEFINE less == SubSeq(run.log, 1, Len(run.log) - 1)
  <2>1. /\ Copies(v) /\ Knows(v) /\ run \in Runs /\ run.log \in Logs /\ run.cur \in Nat
        /\ Len(run.log) \in Nat
        /\ v \in [pc : Walking, id : JobIds, log : Logs, answer : Nat, cur : Nat]
    BY <1>1, WalkView
  <2>2. /\ v.cur = run.cur /\ v.log = run.log /\ run.cur \in Steps /\ run.log # <<>>
        /\ run.cur >= 1 /\ Below(run.log, run.cur) /\ Len(run.log) <= Room(run.log, run.cur)
        /\ Most(run.cur - 1) \in Nat
        /\ run.status \notin {"queued", "waiting"}
    BY <1>1, <2>1, Bounds DEF AInv, Row, Copies, Knows, Open
  <2>3. ~Asked(run.log, run.cur)
    BY <1>1, <1>3, <2>2 DEF AInv, Row, Resuming
  <2>4. /\ run' = [run EXCEPT !.answer = 0]
        /\ lane' = [lane EXCEPT ![l] = [v EXCEPT !.pc = "park", !.log = less]]
    BY <1>3, <2>2 DEF Fire, Write
  <2>5. less \in Logs /\ Len(less) = Len(run.log) - 1 /\ Below(less, run.cur)
    BY <2>1, <2>2, Cut
  <2> HIDE DEF less
  <2>6. Len(less) <= Most(run.cur - 1)
    BY <2>1, <2>2, <2>3, <2>5 DEF Room
  <2>7. /\ run'.cur = run.cur /\ run'.log = run.log /\ run'.until = run.until
        /\ run'.status = run.status
    BY <2>1, <2>4 DEF Runs
  <2>8. /\ lane'[l].pc = "park" /\ lane'[l].log = less
        /\ \A m \in Lanes \ {l} : lane'[m] = lane[m]
    BY <2>1, <2>4 DEF AInv, IInv, Shape
  <2>9. Knows(lane[l])'
    BY <2>2, <2>3, <2>5, <2>6, <2>7, <2>8 DEF Knows
  <2>10. Row' /\ Timeouts'
    BY <1>1, <2>7 DEF AInv, Row, Timeouts, Reached
  <2>11. Claims' /\ Await'
    <3>1. \A k \in Steps : Reached(k) => k # run.cur /\ Reached(k)'
      BY <2>1, <2>3, <2>7, StepsRange DEF Reached
    <3>2. Claims'
      BY <1>1, <2>7, <3>1 DEF AInv, Claims
    <3>3. Await'
      BY <1>1, <2>3, <2>7 DEF AInv, Await
    <3>4. QED
      BY <3>2, <3>3
  <2>12. QED
    BY <1>1, <2>8, <2>9, <2>10, <2>11, Learns DEF Extra
<1>4. QED
  BY <1>2, <1>3

\* A question that times out has no claimed row, unless it was woken early, and its row goes.
LEMMA ResumeKeeps ==
  ASSUME AInv, NEW l \in Lanes, Resume(l)
  PROVE  Extra'
<1> DEFINE v == lane[l]
           end == IF v.answer # 0 THEN "answered" ELSE "timeout"
<1>1. /\ v.pc = "run" /\ v.pc \in Walking /\ At(l, "run") /\ Resuming(v)
      /\ run' = run /\ UNCHANGED <<claimed, early>> /\ awaiting' = NoRow
      /\ outcome' = [outcome EXCEPT ![v.cur] = end]
      /\ \E next : lane' = [lane EXCEPT ![l] = Result(v, "success", next)]
  BY DEF Resume, At, Walking, Write
<1>2. Copies(v) /\ Knows(v) /\ run.log \in Logs
  BY <1>1, WalkView
<1>3. v.cur = run.cur /\ v.log = run.log /\ run.cur \in Steps
  BY <1>1, <1>2 DEF Copies
<1>4. Asked(run.log, run.cur)
  BY <1>1, <1>2, <1>3, WaitsAsked DEF Resuming
<1>5. end = "timeout" /\ run.cur \in claimed => run.cur \in early
  BY <1>1, <1>2, <1>4 DEF Knows
<1>6. Await'
  BY <1>1 DEF AInv, Await, NoRow, Woken
<1>7. outcome' \in [Steps -> {"none", "answered", "timeout", "skipped"}]
  BY <1>1 DEF AInv, Timeouts
<1> HIDE DEF end
<1>8. ASSUME NEW k \in Steps, outcome'[k] = "timeout"
      PROVE  (Reached(k) /\ awaiting.step # k /\ (k \in claimed => k \in early))'
  <2>1. awaiting'.step # k
    BY <1>1, StepsRange DEF NoRow
  <2>2. CASE k = run.cur
    BY <2>1, <2>2, <1>1, <1>3, <1>4, <1>5, <1>8 DEF Reached, AInv, Timeouts
  <2>3. CASE k # run.cur
    <3>1. outcome[k] = "timeout"
      BY <2>3, <1>1, <1>3, <1>8 DEF AInv, Timeouts
    <3>2. QED
      BY <2>1, <3>1, <1>1 DEF AInv, Timeouts, Reached
  <2>4. QED
    BY <2>2, <2>3
<1>9. Timeouts'
  BY <1>7, <1>8 DEF Timeouts
<1>10. QED
  BY <1>1, <1>6, <1>9, Ran

-----------------------------------------------------------------------------

LEMMA AInitially == Init => AInv
<1>1. SUFFICES ASSUME Init PROVE Extra
  BY Initially DEF AInv, Extra
<1>2. Row
  BY <1>1 DEF Init, Row, Below, Asked
<1>3. Await
  BY <1>1 DEF Init, Await, NoRow
<1>4. Lore
  BY <1>1 DEF Init, Lore, Knows, Off
<1>5. Claims /\ Timeouts
  BY <1>1 DEF Init, Claims, Timeouts
<1>6. QED
  BY <1>2, <1>3, <1>4, <1>5 DEF Extra

LEMMA AInductive == AInv /\ [Next]_vars => AInv'
<1>1. SUFFICES ASSUME AInv, [Next]_vars PROVE Extra'
  BY Inductive DEF AInv, Extra
<1>2. ASSUME NEW l \in Lanes,
             (\E id \in JobIds : Pickup(l, id)) \/ LaneStep(l) \/ Refused(l) \/ Throw(l)
      PROVE  Extra'
  BY <1>1, <1>2, LaneKeeps, LoadKeeps, StartKeeps, ParkStays, SkipKeeps, JournalKeeps, FireKeeps,
     RefusedKeeps, ResumeKeeps, AdvanceKeeps DEF LaneStep
<1>3. CASE ~\E l \in Lanes :
             (\E id \in JobIds : Pickup(l, id)) \/ LaneStep(l) \/ Refused(l) \/ Throw(l)
  BY <1>1, <1>3, RestKeeps, GiveUpKeeps, SweepRowsKeeps, ReplyKeeps, ElapseKeeps DEF Next
<1>4. QED
  BY <1>2, <1>3

\* A question whose row a reply claimed does not take its timeout branch, unless a late resume of
\* an earlier reply woke it before its time (lib/workflows/runner.ts, the stale-resume guard).
THEOREM AnswersHonoured == Spec => []AnswerHonoured
<1>1. AInv => AnswerHonoured
  BY DEF AInv, Timeouts, AnswerHonoured
<1>2. QED
  BY <1>1, AInitially, AInductive, PTL DEF Spec

\* A wait step is left only when its time is over, whatever wakes the run.
THEOREM WaitsRunOut == Spec => WaitRunsOut
<1> DEFINE Leaves == /\ run.status = "waiting" /\ run'.status = "running"
                     /\ Kind[run.log[Len(run.log)].n] = "wait"
                     => run.until = "due"
<1>1. AInv /\ [Next]_vars => [Leaves]_vars
  <2>1. SUFFICES ASSUME AInv, Next, run.status = "waiting", run'.status = "running",
                        Kind[run.log[Len(run.log)].n] = "wait"
                 PROVE  run.until = "due"
    BY DEF vars
  <2>2. PICK l \in Lanes : Start(l)
    <3>1. run \in Runs
      BY <2>1, Rows DEF AInv
    <3>2. ASSUME NEW l \in Lanes, LaneStep(l) \/ Refused(l) \/ Throw(l) \/ \E id \in JobIds : Pickup(l, id)
          PROVE  Start(l)
      <4>1. run' # run
        BY <2>1
      <4>2. ~(Refused(l) \/ Throw(l) \/ \E id \in JobIds : Pickup(l, id))
        BY <4>1 DEF Refused, Write, Throw, Pickup
      <4>3. ~(LockTaken(l) \/ Load(l) \/ Schedule(l) \/ Finish(l) \/ Resume(l))
        BY <4>1 DEF LockTaken, Load, Schedule, Finish, Resume, Write
      <4>4. ~(MarkSkipped(l) \/ Complete(l) \/ Rearm(l) \/ Park(l) \/ Wait(l))
        <5>1. ~(MarkSkipped(l) \/ Complete(l) \/ Wait(l))
          BY <2>1, <3>1 DEF MarkSkipped, Complete, Wait, Write, Runs
        <5>2. ASSUME NEW log, ParkOn(l, log) PROVE run'.status = "waiting"
          BY <5>2 DEF ParkOn, Write
        <5>3. ~(Rearm(l) \/ Park(l))
          BY <2>1, <5>2 DEF Rearm, Park
        <5>4. QED
          BY <5>1, <5>3
      <4>5. ~(SkipOrphan(l) \/ Journal(l) \/ Fire(l) \/ Advance(l))
        BY <2>1, <3>1 DEF SkipOrphan, Journal, Fire, Advance, Write, Runs
      <4>6. QED
        BY <3>2, <4>2, <4>3, <4>4, <4>5 DEF LaneStep
    <3>3. ~(Reply \/ Elapse \/ GiveUp)
      BY <2>1, <3>1 DEF Reply, Elapse, GiveUp, Runs
    <3>4. run' # run
      BY <2>1
    <3>5. ~(Dispatch \/ (\E m \in toWake : Wake(m)) \/ Crash \/ LockLapses \/ Unpublish
            \/ SweepStep \/ SweepRows \/ (\E id \in JobIds : Due(id) \/ JobExpires(id) \/ Stalled(id)))
      BY <3>4 DEF Dispatch, Wake, Crash, LockLapses, Unpublish, SweepStep, SweepSelect, SweepProbe,
                  SweepClear, SweepAdd, SweepRows, Due, JobExpires, Stalled
    <3>6. QED
      BY <2>1, <3>2, <3>3, <3>5 DEF Next
  <2>3. Knows(lane[l])
    BY <2>1 DEF AInv, Lore
  <2>4. QED
    BY <2>1, <2>2, <2>3 DEF Start, At, Knows, AInv, Row
<1>2. QED
  BY <1>1, AInitially, AInductive, PTL DEF Spec, WaitRunsOut, Leaves

-----------------------------------------------------------------------------
(* The queue, the lock and the sweeper: the types of the rest of the state. *)

LEMMA PutJob ==
  ASSUME Jobs, NEW id, NEW j, job' = [job EXCEPT ![id] = j], id \in JobIds => GoodJob(j)
  PROVE  Jobs'
<1> DEFINE Good == {k \in [st : {"none", "waiting", "delayed", "active"} \cup TerminalJob,
                           tries : 0..MaxAttempts, owner : Lanes \cup {Free}] : GoodJob(k)}
<1>1. job \in [JobIds -> Good]
  BY DEF Jobs
<1>2. id \in JobIds => j \in Good
  BY DEF GoodJob
<1> HIDE DEF Good
<1>3. job' \in [JobIds -> Good]
  BY <1>1, <1>2
<1>4. QED
  BY <1>3 DEF Jobs, Good

LEMMA GoodJobs ==
  ASSUME Jobs, NEW id \in JobIds
  PROVE  GoodJob(job[id])
BY DEF Jobs

LEMMA SameJobs == Jobs /\ job' = job => Jobs'
BY DEF Jobs

\* An add with any id: one that is not in JobIds would leave the queue alone.
LEMMA AddJob ==
  ASSUME Jobs, NEW id, NEW st \in {"waiting", "delayed"}, Added(id, st)
  PROVE  Jobs'
<1>1. GoodJob(Queued(st))
  BY ConstantsAssumption, LanesRange DEF GoodJob, Queued, NoJob, TerminalJob
<1>2. CASE job[id].st = "none"
  BY <1>1, <1>2, PutJob DEF Added
<1>3. CASE job[id].st # "none"
  BY <1>3, SameJobs DEF Added
<1>4. QED
  BY <1>2, <1>3

LEMMA QueueKeeps ==
  ASSUME AInv, Jobs,
         \/ Dispatch \/ SweepStep
         \/ \E m \in toWake : Wake(m)
         \/ \E id \in JobIds : Due(id) \/ JobExpires(id) \/ Stalled(id)
         \/ \E l \in Lanes : Schedule(l) \/ (\E id \in JobIds : Pickup(l, id))
  PROVE  Jobs'
<1>1. CASE \/ Dispatch \/ SweepAdd \/ (\E m \in toWake : Wake(m)) \/ (\E l \in Lanes : Schedule(l))
  BY <1>1, AddJob, SameJobs DEF Dispatch, SweepAdd, Wake, Schedule
<1>2. CASE SweepSelect \/ SweepProbe
  BY <1>2, SameJobs DEF SweepSelect, SweepProbe, bull
<1>3. CASE SweepClear
  <2>1. GoodJob(NoJob)
    BY ConstantsAssumption, LanesRange DEF GoodJob, NoJob, TerminalJob
  <2>2. QED
    BY <1>3, <2>1, PutJob, SameJobs DEF SweepClear
<1>4. ASSUME NEW id \in JobIds, Due(id) \/ JobExpires(id) \/ Stalled(id) PROVE Jobs'
  <2>1. GoodJob(job[id])
    BY GoodJobs
  <2>2. PICK j : job' = [job EXCEPT ![id] = j] /\ GoodJob(j)
    <3>1. CASE Due(id) \/ Stalled(id)
      <4>1. GoodJob([job[id] EXCEPT !.st = "waiting"]) 
        BY <2>1, <3>1 DEF Due, Stalled, GoodJob, TerminalJob
      <4>2. job' = [job EXCEPT ![id] = [job[id] EXCEPT !.st = "waiting"]]
        BY <3>1 DEF Due, Stalled
      <4>3. QED
        BY <4>1, <4>2
    <3>2. CASE JobExpires(id)
      <4>1. GoodJob([job[id] EXCEPT !.owner = Free])
        BY <2>1 DEF GoodJob
      <4>2. job' = [job EXCEPT ![id] = [job[id] EXCEPT !.owner = Free]]
        BY <3>2 DEF JobExpires
      <4>3. QED
        BY <4>1, <4>2
    <3>3. QED
      BY <1>4, <3>1, <3>2
  <2>3. QED
    BY <2>2, PutJob
<1>5. ASSUME NEW l \in Lanes, NEW id \in JobIds, Pickup(l, id) PROVE Jobs'
  <2> DEFINE j == [job[id] EXCEPT !.st = "active", !.owner = l]
  <2>1. GoodJob(j)
    BY <1>5, GoodJobs DEF Pickup, GoodJob, TerminalJob
  <2>2. job' = [job EXCEPT ![id] = j]
    BY <1>5 DEF Pickup, Jobs
  <2> HIDE DEF j
  <2>3. QED
    BY <2>1, <2>2, PutJob
<1>6. QED
  BY <1>1, <1>2, <1>3, <1>4, <1>5 DEF SweepStep

LEMMA SettledGood ==
  ASSUME NEW j, GoodJob(j), j.st = "active", NEW end \in {"returned", "thrown"}
  PROVE  GoodJob(Settled(j, end))
<1>1. /\ j \in [st : {"none", "waiting", "delayed", "active"} \cup TerminalJob,
               tries : 0..MaxAttempts, owner : Lanes \cup {Free}]
      /\ j.tries \in Nat /\ j.tries < MaxAttempts /\ MaxAttempts \in Nat
  BY ConstantsAssumption DEF GoodJob, TerminalJob
<1>2. CASE end = "returned"
  <2>1. Settled(j, end) = [j EXCEPT !.owner = Free, !.st = "completed"]
    BY <1>1, <1>2 DEF Settled
  <2>2. QED
    BY <1>1, <2>1 DEF GoodJob, TerminalJob
<1>3. CASE end = "thrown" /\ j.tries + 1 < MaxAttempts
  <2>1. Settled(j, end) = [j EXCEPT !.owner = Free, !.tries = j.tries + 1, !.st = "delayed"]
    BY <1>1, <1>3 DEF Settled
  <2>2. j.tries + 1 \in 0..MaxAttempts
    BY <1>1
  <2>3. QED
    BY <1>1, <1>3, <2>1, <2>2 DEF GoodJob, TerminalJob
<1>4. CASE end = "thrown" /\ ~(j.tries + 1 < MaxAttempts)
  <2>1. Settled(j, end) = [j EXCEPT !.owner = Free, !.tries = j.tries + 1, !.st = "failed"]
    BY <1>1, <1>4 DEF Settled
  <2>2. j.tries + 1 \in 0..MaxAttempts
    BY <1>1
  <2>3. QED
    BY <1>1, <1>4, <2>1, <2>2 DEF GoodJob, TerminalJob
<1>5. QED
  BY <1>2, <1>3, <1>4

\* A job is settled by the lane that still has it, which has not used up its attempts.
LEMMA FinishKeeps ==
  ASSUME AInv, Jobs, NEW l \in Lanes, Finish(l)
  PROVE  Jobs'
<1> DEFINE v == lane[l]
<1>1. v \in [pc : {"unlock"}, id : JobIds, end : {"returned", "thrown"}]
  <2>1. v \in Views /\ v.pc = "unlock"
    BY DEF AInv, IInv, Shape, Finish, At
  <2>2. QED
    BY <2>1 DEF Views, Walking, Off
<1>2. CASE job[v.id].owner = l
  <2> DEFINE j == job[v.id]
  <2>1. GoodJob(j) /\ j.st = "active"
    <3>1. GoodJob(j)
      BY <1>1, GoodJobs
    <3>2. QED
      BY <1>2, <3>1, LanesRange DEF GoodJob
  <2>2. GoodJob(Settled(j, v.end))
    BY <1>1, <2>1, SettledGood
  <2>3. job' = [job EXCEPT ![v.id] = Settled(j, v.end)]
    BY <1>2 DEF Finish
  <2> HIDE DEF j, v
  <2>4. QED
    BY <2>2, <2>3, PutJob
<1>3. CASE job[v.id].owner # l
  BY <1>3, SameJobs DEF Finish
<1>4. QED
  BY <1>2, <1>3

LEMMA CrashKeeps ==
  ASSUME Jobs, Crash
  PROVE  Jobs'
<1>1. job' = [id \in JobIds |-> [job[id] EXCEPT !.owner = Free]]
  BY DEF Crash
<1>2. ASSUME NEW id \in JobIds PROVE GoodJob([job[id] EXCEPT !.owner = Free])
  BY GoodJobs DEF GoodJob
<1>3. QED
  BY <1>1, <1>2 DEF Jobs, GoodJob

\* A lane keeps what it holds, or leaves.
LEMMA HoldersStay ==
  ASSUME Holders,
         \A l \in Lanes : \/ lane'[l] = lane[l] /\ (lock = l => lock' = l)
                          \/ lane'[l].pc \notin {"skip", "schedule"}
                          \/ lock' = l
  PROVE  Holders'
BY DEF Holders

LEMMA HoldersKeep ==
  ASSUME AInv, Holders, Next
  PROVE  Holders'
<1>1. ASSUME NEW l \in Lanes,
             (\E id \in JobIds : Pickup(l, id)) \/ LaneStep(l) \/ Refused(l) \/ Throw(l)
      PROVE  Holders'
  <2>1. lane \in [Lanes -> Views] /\ l # Free /\ l # Dead
    BY LanesRange DEF AInv, IInv, Shape
  <2>2. \A m \in Lanes \ {l} : lane'[m] = lane[m]
    BY <1>1, <2>1 DEF LaneStep, Pickup, Refused, Throw, LockTaken, Load, MarkSkipped, Start, Rearm,
       SkipOrphan, Journal, Wait, Fire, Park, ParkOn, Resume, Advance, Complete, Schedule, Finish,
       Write
  <2>3. lock' = lock \/ lock \notin Lanes \/ lock = l
    BY <1>1, LanesRange DEF LaneStep, Pickup, Refused, Throw, LockTaken, Load, MarkSkipped, Start,
       Rearm, SkipOrphan, Journal, Wait, Fire, Park, ParkOn, Resume, Advance, Complete, Schedule,
       Finish, Write
  <2>4. lane'[l].pc \notin {"skip", "schedule"} \/ lock' = l
    <3>1. CASE Load(l)
      BY <3>1 DEF Load
    <3>2. CASE lane[l].pc \in Walking
      <4>1. lock = l
        BY <3>2 DEF AInv, IInv, Exclusive
      <4>2. ~Finish(l) /\ ~Load(l)
        BY <3>2 DEF Finish, Load, At, Walking
      <4>3. lock' = lock
        BY <1>1, <4>2 DEF LaneStep, Pickup, Refused, Throw, LockTaken, MarkSkipped, Start, Rearm,
           SkipOrphan, Journal, Wait, Fire, Park, ParkOn, Resume, Advance, Complete, Schedule, Write
      <4>4. QED
        BY <4>1, <4>3
    <3>3. CASE lane[l].pc \notin Walking /\ ~Load(l)
      <4>1. \/ (\E id \in JobIds : Pickup(l, id)) \/ LockTaken(l) \/ MarkSkipped(l) \/ Schedule(l)
            \/ Finish(l) \/ Throw(l)
        BY <1>1, <3>3 DEF LaneStep, Refused, Start, Rearm, SkipOrphan, Journal, Wait, Fire, Park,
           Resume, Advance, Complete, At, Walking
      <4>2. CASE \E id \in JobIds : Pickup(l, id)
        BY <2>1, <4>2 DEF Pickup
      <4>3. CASE Finish(l)
        BY <2>1, <4>3 DEF Finish, Off
      <4>4. CASE LockTaken(l) \/ MarkSkipped(l) \/ Schedule(l) \/ Throw(l)
        BY <2>1, <4>4 DEF LockTaken, MarkSkipped, Schedule, Throw, Leave, Write
      <4>5. QED
        BY <4>1, <4>2, <4>3, <4>4
    <3>4. QED
      BY <3>1, <3>2, <3>3
  <2>5. QED
    BY <2>2, <2>3, <2>4, HoldersStay
<1>2. CASE ~\E l \in Lanes :
             (\E id \in JobIds : Pickup(l, id)) \/ LaneStep(l) \/ Refused(l) \/ Throw(l)
  <2>1. CASE Crash
    BY <2>1, HoldersStay DEF Crash, Off
  <2>2. CASE ~Crash
    <3>1. lane' = lane /\ (lock' = lock \/ lock = Dead)
      BY <1>2, <2>2 DEF Next, Dispatch, Reply, Elapse, GiveUp, Wake, Due, JobExpires, Stalled,
         LockLapses, Unpublish, SweepStep, SweepSelect, SweepProbe, SweepClear, SweepAdd, SweepRows,
         bull
    <3>2. QED
      BY <3>1, LanesRange, HoldersStay
  <2>3. QED
    BY <2>1, <2>2
<1>3. QED
  BY <1>1, <1>2

LEMMA CountsKeep ==
  ASSUME AInv, Counts, Next
  PROVE  Counts'
<1>1. MaxReplies \in Nat /\ run \in Runs
  BY ConstantsAssumption, Rows DEF AInv
<1>2. CASE Reply
  <2>1. replies + 1 \in 1..MaxReplies
    BY <1>1, <1>2 DEF Reply, Counts
  <2>2. QED
    BY <1>1, <1>2, <2>1 DEF Reply, Counts, Runs
<1>3. CASE ~Reply
  <2>1. replies' = replies /\ toWake' \subseteq toWake
    BY <1>3, ZenonT(40) DEF Next, LaneStep, Pickup, Refused, Throw, LockTaken, Load, MarkSkipped,
                            Start, Rearm,
       SkipOrphan, Journal, Wait, Fire, Park, ParkOn, Resume, Advance, Complete, Schedule, Finish,
       Write, Dispatch, Elapse, GiveUp, Wake, Due, JobExpires, Stalled, Crash, LockLapses,
       Unpublish, SweepStep, SweepSelect, SweepProbe, SweepClear, SweepAdd, SweepRows
  <2>2. run' = run \/ run'.answer \in {0, run.answer}
    <3>1. CASE \E l \in Lanes : LaneStep(l)
      <4>1. PICK l \in Lanes : LaneStep(l)
        BY <3>1
      <4>2. CASE LockTaken(l) \/ Load(l) \/ MarkSkipped(l) \/ Start(l) \/ SkipOrphan(l)
                 \/ Journal(l) \/ Wait(l) \/ Fire(l) \/ Resume(l) \/ Complete(l) \/ Schedule(l)
                 \/ Finish(l)
        BY <1>1, <4>2 DEF LockTaken, Load, MarkSkipped, Start, SkipOrphan, Journal, Wait, Fire,
           Resume, Complete, Schedule, Finish, Write, Runs
      <4>3. CASE Rearm(l) \/ Park(l)
        <5>1. ASSUME NEW log, ParkOn(l, log) PROVE run'.answer = 0
          BY <5>1 DEF ParkOn, Write
        <5>2. QED
          BY <4>3, <5>1 DEF Rearm, Park
      <4>4. CASE Advance(l)
        <5>1. \E c, g, a : a \in {0, run.answer}
                           /\ run' = [run EXCEPT !.cur = c, !.log = g, !.answer = a]
          <6> DEFINE v == lane[l]
                     used == LET k == v.log[Len(v.log)].n
                             IN  Kind[k] = "ask" /\ Waits(SubSeq(v.log, 1, Len(v.log) - 1), k)
          <6>1. run' = [run EXCEPT !.cur = v.cur, !.log = v.log,
                                   !.answer = IF used THEN 0 ELSE run.answer]
            BY <4>4 DEF Advance, Write
          <6>2. QED
            BY <6>1
        <5>2. QED
          BY <1>1, <5>1 DEF Runs
      <4>5. QED
        BY <4>1, <4>2, <4>3, <4>4 DEF LaneStep
    <3>2. CASE ~\E l \in Lanes : LaneStep(l)
      BY <1>1, <1>3, <3>2 DEF Next, Pickup, Refused, Throw, Write, Dispatch, Elapse, GiveUp, Wake,
         Due, JobExpires, Stalled, Crash, LockLapses, Unpublish, SweepStep, SweepSelect, SweepProbe,
         SweepClear, SweepAdd, SweepRows, Runs
    <3>3. QED
      BY <3>1, <3>2
  <2>3. QED
    BY <1>1, <2>1, <2>2 DEF Counts
<1>4. QED
  BY <1>2, <1>3

\* Five entries of a question and two of any other step are the most there can be.
LEMMA LogBounded ==
  ASSUME AInv
  PROVE  Len(run.log) <= MaxLog
<1>1. /\ run.log \in Logs /\ run.cur \in Nat /\ run.cur <= End /\ Len(run.log) \in Nat
  BY Rows DEF AInv
<1>2. CASE run.cur = 0
  BY <1>2, Bounds DEF AInv, Row
<1>3. CASE run.cur \in Steps
  <2>1. /\ Len(run.log) <= Room(run.log, run.cur) /\ run.cur >= 1
        /\ Asked(run.log, run.cur) => Kind[run.cur] = "ask"
        /\ Most(run.cur - 1) \in Nat /\ Most(run.cur) <= MaxLog /\ MaxLog \in Nat
        /\ Most(run.cur) = Most(run.cur - 1) + (IF Kind[run.cur] = "ask" THEN 5 ELSE 2)
    BY <1>1, <1>3, Bounds DEF AInv, Row
  <2>2. QED
    BY <1>1, <2>1 DEF Room
<1>4. CASE run.cur = End
  <2>1. run.cur \notin Steps /\ run.cur # 0
    BY <1>4, StepsRange
  <2>2. \A i \in DOMAIN run.log : run.log[i].n \in Steps
    BY <1>1 DEF Logs, Entries
  <2>3. \A i \in DOMAIN run.log : run.log[i].n # run.cur
    BY <2>1, <2>2
  <2>4. ~Asked(run.log, run.cur) /\ ~Orphaned(run.log, run.cur)
    BY <2>3 DEF Asked, Orphaned
  <2>5. run.cur - 1 = Len(Kind) /\ Most(run.cur - 1) \in Nat
    BY <1>4, StepsRange, Bounds
  <2>6. Len(run.log) <= Most(run.cur - 1)
    BY <1>1, <2>1, <2>4, <2>5 DEF AInv, Row, Room
  <2>7. QED
    BY <2>5, <2>6, Bounds
<1>5. QED
  BY <1>1, <1>2, <1>3, <1>4, StepsRange

\* A resume of the present wait has an id: the log is never longer than MaxLog.
LEMMA SweepsKeep ==
  ASSUME AInv, Sweeps, Next
  PROVE  Sweeps'
<1>1. CASE SweepSelect
  <2>1. Recovery \in JobIds
    <3>1. CASE run.status = "waiting"
      <4>1. run.log \in Logs /\ run.log # <<>> /\ run.cur \in Nat /\ run.cur <= End
            /\ Len(run.log) \in Nat /\ run.cur # 0 /\ Len(run.log) <= Room(run.log, run.cur)
        BY <3>1, Rows DEF AInv, Row
      <4>2. Len(run.log) # 0
        BY <4>1 DEF Logs
      <4>3. Len(run.log) <= MaxLog /\ MaxLog \in Nat
        BY LogBounded, Bounds
      <4>4. QED
        BY <3>1, <4>1, <4>2, <4>3 DEF Recovery, JobIds
    <3>2. CASE run.status # "waiting"
      BY <3>2 DEF Recovery, JobIds
    <3>3. QED
      BY <3>1, <3>2
  <2>2. QED
    BY <1>1, <2>1 DEF SweepSelect, Sweeps
<1>2. CASE SweepProbe
  <2>1. sweep.id \in JobIds /\ sweep'.at # "off" => sweep' = [sweep EXCEPT !.at = "clear"]
    BY <1>2 DEF SweepProbe, Sweeps
  <2>2. QED
    BY <1>2, <2>1 DEF SweepProbe, Sweeps
<1>3. CASE SweepClear
  BY <1>3 DEF SweepClear, Sweeps
<1>4. CASE ~(SweepSelect \/ SweepProbe \/ SweepClear)
  <2>1. sweep' = sweep \/ sweep'.at = "off"
    <3>1. CASE Crash \/ SweepAdd
      BY <3>1 DEF Crash, SweepAdd
    <3>2. CASE ~(Crash \/ SweepAdd)
      BY <1>4, <3>2, ZenonT(40) DEF Next, LaneStep, Pickup, Refused, Throw, LockTaken, Load,
                                    MarkSkipped, Start,
         Rearm, SkipOrphan, Journal, Wait, Fire, Park, ParkOn, Resume, Advance, Complete, Schedule,
         Finish, Write, Dispatch, Reply, Elapse, GiveUp, Wake, Due, JobExpires, Stalled, LockLapses,
         Unpublish, SweepStep, SweepRows
    <3>3. QED
      BY <3>1, <3>2
  <2>2. QED
    BY <2>1 DEF Sweeps
<1>5. QED
  BY <1>1, <1>2, <1>3, <1>4

LEMMA JobsKeep ==
  ASSUME AInv, Jobs, Next
  PROVE  Jobs'
<1>1. CASE ~(\/ Dispatch \/ SweepStep \/ Crash
             \/ \E m \in toWake : Wake(m)
             \/ \E id \in JobIds : Due(id) \/ JobExpires(id) \/ Stalled(id)
             \/ \E l \in Lanes : Schedule(l) \/ Finish(l) \/ (\E id \in JobIds : Pickup(l, id)))
  <2>1. job' = job
    BY <1>1, ZenonT(40) DEF Next, LaneStep, Refused, Throw, LockTaken, Load, MarkSkipped, Start,
                            Rearm,
       SkipOrphan, Journal, Wait, Fire, Park, ParkOn, Resume, Advance, Complete, Write, Reply,
       Elapse, GiveUp, LockLapses, Unpublish, SweepRows, bull
  <2>2. QED
    BY <2>1, SameJobs
<1>2. QED
  BY <1>1, QueueKeeps, FinishKeeps, CrashKeeps

LEMMA TInitially == Init => TInv
<1>1. SUFFICES ASSUME Init PROVE Jobs /\ Holders /\ Counts /\ Sweeps
  BY AInitially DEF TInv
<1>2. GoodJob(NoJob) /\ MaxReplies \in Nat
  BY ConstantsAssumption, LanesRange DEF GoodJob, NoJob, TerminalJob
<1>3. Jobs
  BY <1>1, <1>2 DEF Init, Jobs, GoodJob
<1>4. Holders /\ Counts /\ Sweeps
  BY <1>1, <1>2 DEF Init, Holders, Counts, Sweeps, Off
<1>5. QED
  BY <1>3, <1>4

LEMMA TInductive == TInv /\ [Next]_vars => TInv'
<1>1. SUFFICES ASSUME TInv, [Next]_vars PROVE Jobs' /\ Holders' /\ Counts' /\ Sweeps'
  BY AInductive DEF TInv
<1>2. CASE Next
  BY <1>1, <1>2, JobsKeep, HoldersKeep, CountsKeep, SweepsKeep DEF TInv
<1>3. CASE UNCHANGED vars
  BY <1>1, <1>3 DEF TInv, vars, bull, history, Jobs, Holders, Counts, Sweeps
<1>4. QED
  BY <1>1, <1>2, <1>3

\* Every variable has its type; the lock is held by the lane that walks, the step log is never longer
\* than MaxLog, and every resume that is scheduled has a job id.
THEOREM TypeCorrect == Spec => []TypeOK
<1>1. TInv => TypeOK
  <2>1. SUFFICES ASSUME TInv PROVE TypeOK
    OBVIOUS
  <2>2. /\ run \in Runs /\ Len(run.log) <= MaxLog /\ run.answer \in 0..MaxReplies
        /\ lock \in Lanes \cup {Free, Dead} /\ fired \in [Steps -> Nat]
        /\ toWake \subseteq 1..MaxReplies
    BY <2>1, LogBounded DEF TInv, AInv, IInv, Shape, Counts
  <2>3. job \in [JobIds -> [st : {"none", "waiting", "delayed", "active"} \cup TerminalJob,
                            tries : 0..MaxAttempts, owner : Lanes \cup {Free}]]
    BY <2>1 DEF TInv, Jobs
  <2>4. ASSUME NEW l \in Lanes
        PROVE  /\ lane[l].pc \notin {"off", "lock", "unlock"} => lock = l
               /\ lane[l].pc = "schedule" => <<"resume", lane[l].seq>> \in JobIds
    <3>1. lane[l].pc \in {"off", "lock", "skip", "unlock", "schedule"} \cup Walking
      <4>1. lane[l] \in Views
        BY <2>1 DEF TInv, AInv, IInv, Shape
      <4>2. QED
        BY <4>1 DEF Views, Off
    <3>2. lane[l].pc = "schedule" => lane[l].seq \in 1..MaxLog
      BY <2>1 DEF TInv, AInv, Lore, Knows
    <3>3. QED
      BY <2>1, <3>1, <3>2 DEF TInv, AInv, IInv, Exclusive, Holders, JobIds
  <2>5. QED
    BY <2>1, <2>2, <2>3, <2>4 DEF TypeOK, Runs, TInv, AInv, Await, Claims, Timeouts, Sweeps
<1>2. QED
  BY <1>1, TInitially, TInductive, PTL DEF Spec

=============================================================================
