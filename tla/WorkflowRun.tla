---------------------------- MODULE WorkflowRun ----------------------------
(***************************************************************************)
(* One workflow run: the dispatcher that creates and enqueues it, the lanes *)
(* of the worker that walk its graph, the contact whose reply answers an    *)
(* ask_question step, the timers, and the sweepers that recover it          *)
(* (src/apps/api/src/lib/workflows/, src/apps/api/src/lib/sweepers/         *)
(*  workflow-waiting.ts and workflow-awaiting-reply.ts).                    *)
(*                                                                         *)
(* The graph is a chain: step n goes on to n + 1, a question that times out *)
(* or cannot be asked leads to the end.  BullMQ locks jobs and not runs, so *)
(* several jobs of one run may be active: the first run, the resumes that   *)
(* a wait schedules, and the resume a reply sends.                          *)
(***************************************************************************)
EXTENDS Integers, Sequences, FiniteSets

CONSTANTS
  Kind,         \* the chain: a sequence of "ask", "wait" and "send"
  Concurrency,  \* jobs the worker runs at once
  MaxAttempts,  \* attempts of a job
  MaxReplies,   \* replies of the contact that find a question open
  MaxCrashes, MaxExpiries, MaxBlips, MaxLosses, MaxLags, MaxUnpublishes, \* the environment
  MaxEvents     \* and all of it together

ASSUME ConstantsAssumption ==
  /\ Kind \in Seq({"ask", "wait", "send"})
  /\ {Concurrency, MaxAttempts} \subseteq Nat \ {0}
  /\ {MaxReplies, MaxCrashes, MaxExpiries, MaxBlips, MaxLosses, MaxLags, MaxUnpublishes,
      MaxEvents} \subseteq Nat

VARIABLES
  run,       \* the WorkflowRun row
  published, \* workflow.published
  awaiting,  \* the WorkflowAwaitingReply row: [step, live], or NoRow
  toWake,    \* committed replies whose resume is still to be enqueued
  dispatch,  \* the dispatcher has still to enqueue the run
  job,       \* the BullMQ job of each id
  lane,      \* what each lane of the worker is doing
  lock,      \* holder of the run lock in Redis
  giveUp,    \* the "failed" listener of a job out of attempts
  sweep,     \* what the waiting-runs sweeper is doing
  budget,    \* what is left of each bound on the environment
  replies,   \* replies taken so far
  fired,     \* history: how often each step reached the contact
  claimed,   \* history: questions whose row a reply claimed
  early,     \* history: questions a late resume woke before their time and before an answer
  outcome    \* history: how each question ended

bull == <<job, lane, lock>>
history == <<fired, claimed, early, outcome>>
vars == <<run, published, awaiting, toWake, dispatch, bull, giveUp, sweep, budget, replies,
          history>>

Steps == DOMAIN Kind
End == Len(Kind) + 1
Lanes == 1..Concurrency
Free == 0   \* of a lock or a job
Dead == -1  \* the lock of a lane that died, until its TTL
NoRow == [step |-> 0, live |-> FALSE]
TerminalRun == {"completed", "failed", "skipped"}
TerminalJob == {"completed", "failed"}

\* What the log can hold of the first n steps: a step that is begun and orphaned leaves
\* two entries, a question that is re-armed and resumed in between three more.
Most(n) == 2 * n + 3 * Cardinality({m \in 1..n : Kind[m] = "ask"})
MaxLog == Most(Len(Kind))
JobIds == {<<"run", 0>>} \union ({"resume"} \X (1..MaxLog)) \union ({"inbound"} \X (1..MaxReplies))

NoJob == [st |-> "none", tries |-> 0, owner |-> Free]
Queued(st) == [NoJob EXCEPT !.st = st]
Off == [pc |-> "off"]

Allowed == [crash |-> MaxCrashes, expiry |-> MaxExpiries, blip |-> MaxBlips,
            loss |-> MaxLosses, lag |-> MaxLags, unpublish |-> MaxUnpublishes, event |-> MaxEvents]

Init ==
  /\ run = [status |-> "queued", cur |-> 0, until |-> "none", log |-> <<>>, answer |-> 0]
  /\ published = TRUE
  /\ awaiting = NoRow
  /\ toWake = {}
  /\ dispatch = TRUE
  /\ job = [id \in JobIds |-> NoJob]
  /\ lane = [l \in Lanes |-> Off]
  /\ lock = Free
  /\ giveUp = "no"
  /\ sweep = [at |-> "off"]
  /\ budget = Allowed
  /\ replies = 0
  /\ fired = [n \in Steps |-> 0]
  /\ claimed = {}
  /\ early = {}
  /\ outcome = [n \in Steps |-> "none"]

\* Trouble of one kind is one event, however often it strikes.
Spend(what) ==
  LET event == IF budget[what] = Allowed[what] THEN 1 ELSE 0
  IN  /\ budget[what] > 0 /\ budget.event >= event
      /\ budget' = [budget EXCEPT ![what] = @ - 1, !.event = @ - event]

-----------------------------------------------------------------------------
(* Enqueueing: an add with the id of a job that is still kept is a no-op. *)

Added(id, st) ==
  job' = IF job[id].st = "none" THEN [job EXCEPT ![id] = Queued(st)] ELSE job

\* The dispatcher's enqueue after the row is committed, or its last retry failing.
Dispatch ==
  /\ dispatch
  /\ dispatch' = FALSE
  /\ \/ Added(<<"run", 0>>, "waiting") /\ UNCHANGED budget
     \/ Spend("loss") /\ UNCHANGED job
  /\ UNCHANGED <<run, published, awaiting, toWake, lane, lock, giveUp, sweep, replies, history>>

\* MUTANT of Reply: the claim does not look at expiresAt.
ReplyLate ==
  /\ awaiting # NoRow
  /\ replies < MaxReplies
  /\ replies' = replies + 1
  /\ awaiting' = NoRow
  /\ run' = [run EXCEPT !.answer = replies']
  /\ toWake' = toWake \union {replies'}
  /\ claimed' = claimed \union {awaiting.step}
  /\ UNCHANGED <<published, dispatch, bull, giveUp, sweep, budget, fired, early, outcome>>

\* An inbound message of the contact, in the transaction that stores it: the
\* DELETE of the awaiting row is the claim, and the answer goes on the run.
Reply ==
  /\ awaiting # NoRow /\ awaiting.live
  /\ replies < MaxReplies
  /\ replies' = replies + 1
  /\ awaiting' = NoRow
  /\ run' = [run EXCEPT !.answer = replies']
  /\ toWake' = toWake \union {replies'}
  /\ claimed' = claimed \union {awaiting.step}
  /\ UNCHANGED <<published, dispatch, bull, giveUp, sweep, budget, fired, early, outcome>>

\* After the commit; a failed enqueue is only logged.
Wake(m) ==
  /\ m \in toWake
  /\ toWake' = toWake \ {m}
  /\ \/ Added(<<"inbound", m>>, "waiting") /\ UNCHANGED budget
     \/ Spend("loss") /\ UNCHANGED job
  /\ UNCHANGED <<run, published, awaiting, dispatch, lane, lock, giveUp, sweep, replies, history>>

-----------------------------------------------------------------------------
(* Time. *)

\* The wait the run is in, or was last in, is over.  A question's row expires
\* with the wait of that question; a row left behind by an earlier one may
\* expire before or after.
Elapse ==
  /\ run.until = "future"
  /\ run' = [run EXCEPT !.until = "due"]
  /\ awaiting' \in IF awaiting = NoRow THEN {NoRow}
                   ELSE {[awaiting EXCEPT !.live = FALSE]} \union
                        (IF run.cur = awaiting.step THEN {} ELSE {awaiting})
  /\ UNCHANGED <<published, toWake, dispatch, bull, giveUp, sweep, budget, replies, history>>

\* A delayed job becomes due: the resume of the present wait with that wait,
\* an older resume or a retry at any time.
PresentResume(id) ==
  id[1] = "resume" /\ job[id].tries = 0 /\ run.status = "waiting" /\ id[2] = Len(run.log)

Due(id) ==
  /\ job[id].st = "delayed"
  /\ PresentResume(id) => run.until = "due"
  /\ job' = [job EXCEPT ![id].st = "waiting"]
  /\ UNCHANGED <<run, published, awaiting, toWake, dispatch, lane, lock, giveUp, sweep, budget,
                 replies, history>>

-----------------------------------------------------------------------------
(* The worker takes a job, and the run lock. *)

\* Lanes are interchangeable: the first free one takes the job.
Vacant(l) == lane[l].pc = "off" /\ \A m \in 1..(l - 1) : lane[m].pc # "off"

Pickup(l, id) ==
  /\ Vacant(l) /\ job[id].st = "waiting"
  /\ job' = [job EXCEPT ![id].st = "active", ![id].owner = l]
  /\ lane' = [lane EXCEPT ![l] = [pc |-> "lock", id |-> id]]
  /\ UNCHANGED <<run, published, awaiting, toWake, dispatch, lock, giveUp, sweep, budget, replies,
                 history>>

At(l, pc) == lane[l].pc = pc

\* The pickup is over, by returning or by throwing.
Leave(v, end) == [pc |-> "unlock", id |-> v.id, end |-> end]

\* SET NX: a run another lane holds is skipped, and the job is done.
LockTaken(l) ==
  /\ At(l, "lock") /\ lock # Free
  /\ lane' = [lane EXCEPT ![l] = Leave(@, "returned")]
  /\ UNCHANGED <<run, published, awaiting, toWake, dispatch, job, lock, giveUp, sweep, budget,
                 replies, history>>

\* The newest entry of step n that is not in progress, if any, is a wait.
Waits(log, n) ==
  LET mine == {i \in DOMAIN log : log[i].n = n /\ log[i].st # "in_progress"}
  IN  \E i \in mine : log[i].st = "waiting" /\ \A j \in mine : j <= i

\* isParkedOnAskQuestionAwaitingReply, which looks at the newest entry of all.
Parked ==
  /\ run.cur \in Steps /\ Kind[run.cur] = "ask"
  /\ \E i \in DOMAIN run.log :
       /\ run.log[i] = [n |-> run.cur, st |-> "waiting"]
       /\ \A j \in DOMAIN run.log : run.log[j].n = run.cur => j <= i

\* MUTANT of Stale: every inbound resume counts as the answer.
StaleTrusts(id) == run.status = "waiting" /\ run.until = "future" /\ id[1] # "inbound"

\* A pickup while the wait still has time to go is stale, unless it brings the
\* answer to the question the run is parked on.
Stale(id) ==
  /\ run.status = "waiting" /\ run.until = "future"
  /\ ~(id[1] = "inbound" /\ Parked)

\* Parked with time to go and without an answer: what a resume let in here brings was
\* used up by an earlier question.
Early == run.status = "waiting" /\ run.until = "future" /\ run.answer = 0

\* With the lock in hand, the row is read and the pickup decided.
Load(l) ==
  /\ At(l, "lock") /\ lock = Free
  /\ lock' = l
  /\ LET v == lane[l]
     IN  lane' = [lane EXCEPT ![l] =
           CASE ~published -> [pc |-> "skip", id |-> v.id]
             [] published /\ (run.status \in TerminalRun \/ Stale(v.id)) -> Leave(v, "returned")
             [] OTHER -> [pc |-> "start", id |-> v.id, log |-> run.log, answer |-> run.answer,
                          cur |-> IF run.cur = 0 /\ run.log = <<>> THEN 1 ELSE run.cur]]
         /\ early' = IF lane'[l].pc = "start" /\ Early THEN early \union {run.cur} ELSE early
  /\ UNCHANGED <<run, published, awaiting, toWake, dispatch, job, giveUp, sweep, budget, replies,
                 fired, claimed, outcome>>

\* Every write of a pickup: the run row, and where the lane goes on.
Write(l, r, v) ==
  /\ run' = r
  /\ lane' = [lane EXCEPT ![l] = v]
  /\ UNCHANGED <<published, toWake, dispatch, job, lock, giveUp, sweep, budget, replies>>

MarkSkipped(l) ==
  /\ At(l, "skip")
  /\ Write(l, [run EXCEPT !.status = "skipped"], Leave(lane[l], "returned"))
  /\ UNCHANGED <<awaiting, history>>

Start(l) ==
  /\ At(l, "start")
  /\ Write(l, [run EXCEPT !.status = "running", !.cur = lane[l].cur],
              [lane[l] EXCEPT !.pc = "step"])
  /\ UNCHANGED <<awaiting, history>>

-----------------------------------------------------------------------------
(* One step of the graph. *)

\* MUTANT of Orphaned: no orphan is recognised.
OrphanedNever(log, n) == FALSE

\* An in_progress entry of step n that nothing resolved since: an earlier
\* pickup died, or threw, in the middle of its side effect.
Orphaned(log, n) ==
  LET of(st) == {i \in DOMAIN log : log[i] = [n |-> n, st |-> st]}
  IN  \E i \in of("in_progress") :
        \A j \in of("in_progress") \union of("success") \union of("failed")
                 \union of("skipped_after_crash") : j <= i

Rearms(v) == Kind[v.cur] = "ask" /\ ~\E i \in DOMAIN v.log :
                                        v.log[i] = [n |-> v.cur, st |-> "waiting"]

Entry(n, st) == <<[n |-> n, st |-> st]>>

\* Parked on a question: the row to claim, the wait and the run in one transaction.
ParkOn(l, log) ==
  LET v == lane[l]
  IN  /\ awaiting' = [step |-> v.cur, live |-> TRUE]
      /\ Write(l, [status |-> "waiting", cur |-> v.cur, until |-> "future", log |-> log,
                   answer |-> 0],
                  [pc |-> "schedule", id |-> v.id, seq |-> Len(log)])

\* The question went out and its await was never stored: wait for the answer
\* now, without asking again.
Rearm(l) ==
  /\ At(l, "step") /\ lane[l].cur \in Steps
  /\ Orphaned(lane[l].log, lane[l].cur) /\ Rearms(lane[l])
  /\ ParkOn(l, lane[l].log \o Entry(lane[l].cur, "skipped_after_crash")
                           \o Entry(lane[l].cur, "waiting"))
  /\ UNCHANGED history

\* Any other orphan: go on without running the side effect again.
SkipOrphan(l) ==
  LET v == lane[l]
      log == v.log \o Entry(v.cur, "skipped_after_crash")
  IN  /\ At(l, "step") /\ v.cur \in Steps
      /\ Orphaned(v.log, v.cur) /\ ~Rearms(v)
      /\ Write(l, [run EXCEPT !.cur = v.cur + 1, !.log = log],
                  [v EXCEPT !.cur = v.cur + 1, !.log = log])
      /\ outcome' = [outcome EXCEPT ![v.cur] = "skipped"]
      /\ UNCHANGED <<awaiting, fired, claimed, early>>

\* The in_progress entry is stored before an irreversible step runs.
Journal(l) ==
  LET v == lane[l]
      log == v.log \o Entry(v.cur, "in_progress")
  IN  /\ At(l, "step") /\ v.cur \in Steps
      /\ Kind[v.cur] # "wait" /\ ~Orphaned(v.log, v.cur)
      /\ Write(l, [run EXCEPT !.log = log], [v EXCEPT !.pc = "run", !.log = log])
      /\ UNCHANGED <<awaiting, history>>

Wait(l) ==
  LET v == lane[l]
      log == v.log \o Entry(v.cur, "waiting")
  IN  /\ At(l, "step") /\ v.cur \in Steps /\ Kind[v.cur] = "wait"
      /\ Write(l, [run EXCEPT !.status = "waiting", !.cur = v.cur + 1, !.until = "future",
                              !.log = log],
                  [pc |-> "schedule", id |-> v.id, seq |-> Len(log)])
      /\ UNCHANGED <<awaiting, history>>

Resuming(v) == Kind[v.cur] = "ask" /\ Waits(v.log, v.cur)

\* The step's result replaces its in_progress entry; next is where it leads.
Result(v, st, next) ==
  [v EXCEPT !.pc = "advance", !.cur = next,
            !.log = SubSeq(@, 1, Len(@) - 1) \o Entry(v.cur, st)]

\* The message goes out.  A question then forgets any older answer and parks.
Fire(l) ==
  LET v == lane[l]
  IN  /\ At(l, "run") /\ ~Resuming(v)
      /\ fired' = [fired EXCEPT ![v.cur] = @ + 1]
      /\ IF Kind[v.cur] = "ask"
           THEN Write(l, [run EXCEPT !.answer = 0],
                         [v EXCEPT !.pc = "park", !.log = SubSeq(@, 1, Len(@) - 1)])
           ELSE Write(l, run, Result(v, "success", v.cur + 1))
      /\ UNCHANGED <<awaiting, claimed, early, outcome>>

\* The provider refuses it for good: the failure is logged and the run goes on.
Refused(l) ==
  LET v == lane[l]
  IN  /\ At(l, "run") /\ ~Resuming(v)
      /\ Write(l, run, Result(v, "failed", IF Kind[v.cur] = "ask" THEN End ELSE v.cur + 1))
      /\ UNCHANGED <<awaiting, history>>

Park(l) ==
  /\ At(l, "park")
  /\ ParkOn(l, lane[l].log \o Entry(lane[l].cur, "waiting"))
  /\ UNCHANGED history

\* The question resumes, by the answer the pickup read, or else timed out.
Resume(l) ==
  LET v == lane[l]
      answered == v.answer # 0
  IN  /\ At(l, "run") /\ Resuming(v)
      /\ awaiting' = NoRow
      /\ outcome' = [outcome EXCEPT ![v.cur] = IF answered THEN "answered" ELSE "timeout"]
      /\ Write(l, run, Result(v, "success", IF answered THEN v.cur + 1 ELSE End))
      /\ UNCHANGED <<fired, claimed, early>>

\* The result is stored, and the answer a question used is cleared with it.
Advance(l) ==
  LET v == lane[l]
      n == v.log[Len(v.log)].n
      used == Kind[n] = "ask" /\ Waits(SubSeq(v.log, 1, Len(v.log) - 1), n)
  IN  /\ At(l, "advance")
      /\ Write(l, [run EXCEPT !.cur = v.cur, !.log = v.log,
                              !.answer = IF used THEN 0 ELSE @],
                  [v EXCEPT !.pc = "step", !.answer = IF used THEN 0 ELSE @])
      /\ UNCHANGED <<awaiting, history>>

Complete(l) ==
  /\ At(l, "step") /\ lane[l].cur = End
  /\ Write(l, [run EXCEPT !.status = "completed"], Leave(lane[l], "returned"))
  /\ UNCHANGED <<awaiting, history>>

Schedule(l) ==
  /\ At(l, "schedule")
  /\ Added(<<"resume", lane[l].seq>>, "delayed")
  /\ lane' = [lane EXCEPT ![l] = Leave(@, "returned")]
  /\ UNCHANGED <<run, published, awaiting, toWake, dispatch, lock, giveUp, sweep, budget, replies,
                 history>>

\* A database, Redis or provider call fails, and the pickup throws.  A side
\* effect may have happened all the same; its in_progress entry stays.  A job
\* that failed once may go on failing.
Throw(l) ==
  LET v == lane[l]
  IN  /\ v.pc \in {"skip", "start", "step", "run", "park", "schedule", "advance"}
      /\ IF job[v.id].tries = 0 THEN Spend("blip") ELSE UNCHANGED budget
      /\ lane' = [lane EXCEPT ![l] = Leave(@, "thrown")]
      /\ \/ UNCHANGED fired
         \/ v.pc = "run" /\ ~Resuming(v) /\ fired' = [fired EXCEPT ![v.cur] = @ + 1]
      /\ UNCHANGED <<run, published, awaiting, toWake, dispatch, job, lock, giveUp, sweep, replies,
                     claimed, early, outcome>>

\* MUTANT of Settled: the attempts are counted one too far.
SettledLate(j, end) ==
  [j EXCEPT !.owner = Free,
            !.tries = IF end = "thrown" THEN @ + 1 ELSE @,
            !.st = CASE end = "returned" -> "completed"
                     [] end = "thrown" /\ j.tries < MaxAttempts -> "delayed"
                     [] OTHER -> "failed"]

Settled(j, end) ==
  [j EXCEPT !.owner = Free,
            !.tries = IF end = "thrown" THEN @ + 1 ELSE @,
            !.st = CASE end = "returned" -> "completed"
                     [] end = "thrown" /\ j.tries + 1 < MaxAttempts -> "delayed"
                     [] OTHER -> "failed"]

\* The run lock is released if the lane holds it, or a failed release leaves it
\* to its TTL; then BullMQ settles the job if the lane still has that.
Finish(l) ==
  LET v == lane[l]
  IN  /\ At(l, "unlock")
      /\ \/ lock' = (IF lock = l THEN Free ELSE lock) /\ UNCHANGED budget
         \/ Spend("loss") /\ lock = l /\ lock' = Dead
      /\ IF job[v.id].owner = l
           THEN /\ job' = [job EXCEPT ![v.id] = Settled(@, v.end)]
                /\ giveUp' = IF job'[v.id].st = "failed" THEN "look" ELSE giveUp
           ELSE UNCHANGED <<job, giveUp>>
      /\ lane' = [lane EXCEPT ![l] = Off]
      /\ UNCHANGED <<run, published, awaiting, toWake, dispatch, sweep, replies, history>>

\* failRunFromRetryExhaustion: read, then write whatever was read.
GiveUp ==
  /\ \/ /\ giveUp = "look"
        /\ giveUp' = IF run.status \in TerminalRun THEN "no" ELSE "fail"
        /\ UNCHANGED run
     \/ /\ giveUp = "fail"
        /\ giveUp' = "no"
        /\ run' = [run EXCEPT !.status = "failed"]
  /\ UNCHANGED <<published, awaiting, toWake, dispatch, bull, sweep, budget, replies, history>>

-----------------------------------------------------------------------------
(* Crashes, lost locks, the operator. *)

Crash ==
  /\ Spend("crash")
  /\ lane' = [l \in Lanes |-> Off]
  /\ job' = [id \in JobIds |-> [job[id] EXCEPT !.owner = Free]]
  /\ lock' = IF lock \in Lanes THEN Dead ELSE lock
  /\ dispatch' = FALSE /\ toWake' = {} /\ giveUp' = "no" /\ sweep' = [at |-> "off"]
  /\ UNCHANGED <<run, published, awaiting, replies, history>>

LockLapses ==
  /\ lock = Dead
  /\ lock' = Free
  /\ UNCHANGED <<run, published, awaiting, toWake, dispatch, job, lane, giveUp, sweep, budget,
                 replies, history>>

\* The job's own lock is lost under a lane that is still going.
JobExpires(id) ==
  /\ job[id].owner # Free
  /\ Spend("expiry")
  /\ job' = [job EXCEPT ![id].owner = Free]
  /\ UNCHANGED <<run, published, awaiting, toWake, dispatch, lane, lock, giveUp, sweep, replies,
                 history>>

Stalled(id) ==
  /\ job[id].st = "active" /\ job[id].owner = Free
  /\ job' = [job EXCEPT ![id].st = "waiting"]
  /\ UNCHANGED <<run, published, awaiting, toWake, dispatch, lane, lock, giveUp, sweep, budget,
                 replies, history>>

Unpublish ==
  /\ Spend("unpublish")
  /\ published' = FALSE
  /\ UNCHANGED <<run, awaiting, toWake, dispatch, bull, giveUp, sweep, replies, history>>

-----------------------------------------------------------------------------
(* The sweepers. *)

\* The job that should bring the run forward.
Recovery == IF run.status = "waiting" THEN <<"resume", Len(run.log)>> ELSE <<"run", 0>>

Live(id) == job[id].st \in {"waiting", "delayed", "active"}

\* Overdue, still queued, or running: past the grace.  A run whose job is on
\* its way is that old only when the worker lags behind, which is bounded.
SweepSelect ==
  /\ sweep.at = "off"
  /\ \/ run.status = "waiting" /\ run.until = "due"
     \/ run.status \in {"queued", "running"}
  /\ IF Live(Recovery) \/ dispatch THEN Spend("lag") ELSE UNCHANGED budget
  /\ sweep' = [at |-> IF run.status = "running" THEN "probe" ELSE "clear", id |-> Recovery]
  /\ UNCHANGED <<run, published, awaiting, toWake, dispatch, bull, giveUp, replies, history>>

\* A running row whose lock is held has a live lane.
SweepProbe ==
  /\ sweep.at = "probe"
  /\ sweep' = IF lock = Free THEN [sweep EXCEPT !.at = "clear"] ELSE [at |-> "off"]
  /\ UNCHANGED <<run, published, awaiting, toWake, dispatch, bull, giveUp, budget, replies, history>>

\* MUTANT of SweepClear: the terminal job stays and swallows the re-add.
SweepClearNot ==
  /\ sweep.at = "clear"
  /\ sweep' = [sweep EXCEPT !.at = "add"]
  /\ UNCHANGED <<run, published, awaiting, toWake, dispatch, bull, giveUp, budget, replies,
                 history>>

\* clearTerminalJob: a terminal job would swallow the re-add.
SweepClear ==
  /\ sweep.at = "clear"
  /\ sweep' = [sweep EXCEPT !.at = "add"]
  /\ job' = IF job[sweep.id].st \in TerminalJob THEN [job EXCEPT ![sweep.id] = NoJob] ELSE job
  /\ UNCHANGED <<run, published, awaiting, toWake, dispatch, lane, lock, giveUp, budget, replies,
                 history>>

SweepAdd ==
  /\ sweep.at = "add"
  /\ sweep' = [at |-> "off"]
  /\ Added(sweep.id, "waiting")
  /\ UNCHANGED <<run, published, awaiting, toWake, dispatch, lane, lock, giveUp, budget, replies,
                 history>>

\* workflow-awaiting-reply.ts: rows past their expiry go.
SweepRows ==
  /\ awaiting # NoRow /\ ~awaiting.live
  /\ awaiting' = NoRow
  /\ UNCHANGED <<run, published, toWake, dispatch, bull, giveUp, sweep, budget, replies, history>>

-----------------------------------------------------------------------------
LaneStep(l) ==
  \/ LockTaken(l) \/ Load(l) \/ MarkSkipped(l) \/ Start(l)
  \/ Rearm(l) \/ SkipOrphan(l) \/ Journal(l) \/ Wait(l)
  \/ Fire(l) \/ Park(l) \/ Resume(l) \/ Advance(l) \/ Complete(l) \/ Schedule(l)
  \/ Finish(l)

SweepStep == SweepSelect \/ SweepProbe \/ SweepClear \/ SweepAdd

Next ==
  \/ Dispatch \/ Reply \/ Elapse \/ GiveUp
  \/ \E m \in toWake : Wake(m)
  \/ \E id \in JobIds : Due(id) \/ JobExpires(id) \/ Stalled(id)
  \/ \E l \in Lanes :
       \/ \E id \in JobIds : Pickup(l, id)
       \/ LaneStep(l) \/ Refused(l) \/ Throw(l)
  \/ Crash \/ LockLapses \/ Unpublish
  \/ SweepStep \/ SweepRows

Spec == Init /\ [][Next]_vars

\* Lanes go on, BullMQ hands jobs out, promotes delayed ones and finds stalled
\* ones, Redis drops expired locks, time passes, the listener and the sweeper run.
Fairness ==
  /\ \A l \in Lanes : WF_vars(LaneStep(l))
  /\ WF_vars(\E id \in JobIds : Due(id)) /\ WF_vars(\E id \in JobIds : Stalled(id))
  /\ WF_vars(\E l \in Lanes, id \in JobIds : Pickup(l, id))
  /\ WF_vars(Dispatch) /\ WF_vars(\E m \in toWake : Wake(m)) /\ WF_vars(GiveUp)
  /\ WF_vars(LockLapses) /\ WF_vars(Elapse) /\ WF_vars(SweepStep)

FairSpec == Spec /\ Fairness

-----------------------------------------------------------------------------
TypeOK ==
  /\ run.status \in {"queued", "running", "waiting"} \union TerminalRun
  /\ run.cur \in 0..End /\ run.until \in {"none", "future", "due"}
  /\ run.answer \in 0..MaxReplies /\ Len(run.log) <= MaxLog
  /\ awaiting \in [step : Steps \union {0}, live : BOOLEAN]
  /\ toWake \subseteq 1..MaxReplies /\ {claimed, early} \subseteq SUBSET Steps
  /\ job \in [JobIds -> [st : {"none", "waiting", "delayed", "active"} \union TerminalJob,
                         tries : 0..MaxAttempts, owner : Lanes \union {Free}]]
  /\ lock \in Lanes \union {Free, Dead}
  /\ \A l \in Lanes : lane[l].pc \notin {"off", "lock", "unlock"} => lock = l
  /\ \A l \in Lanes : lane[l].pc = "schedule" => <<"resume", lane[l].seq>> \in JobIds
  /\ sweep.at # "off" => sweep.id \in JobIds
  /\ fired \in [Steps -> Nat]
  /\ outcome \in [Steps -> {"none", "answered", "timeout", "skipped"}]

\* Whatever is redelivered, retried, resumed twice or recovered after a crash,
\* a step reaches the contact at most once.
FiresOnce == \A n \in Steps : fired[n] <= 1

\* A question whose row a reply claimed does not take its timeout branch, unless the
\* late resume of an earlier question's reply woke it before its time and before its
\* own answer was there.
AnswerHonoured == \A n \in Steps : outcome[n] = "timeout" /\ n \in claimed => n \in early

\* A wait step is left only when its time is over, whatever stale resume or
\* late reply wakes the run.
WaitRunsOut ==
  [][/\ run.status = "waiting" /\ run'.status = "running"
     /\ Kind[run.log[Len(run.log)].n] = "wait"
     => run.until = "due"]_vars

\* Every run ends: a lost enqueue, a dead lane, a skipped redelivery or a
\* resume job that used up its attempts does not leave it behind.
RunSettles == <>(run.status \in TerminalRun)

\* A question times out only when its time is over (the comment on
\* isParkedOnAskQuestionAwaitingReply).
QuestionWaits ==
  [][\A n \in Steps : outcome'[n] = "timeout" /\ outcome[n] # "timeout" => run.until = "due"]_vars
=============================================================================
