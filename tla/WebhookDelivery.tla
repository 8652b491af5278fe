-------------------------- MODULE WebhookDelivery --------------------------
(***************************************************************************)
(* Partner webhook delivery: the subscriber that writes a delivery row and *)
(* enqueues its job, the BullMQ worker that POSTs it, the circuit breaker  *)
(* of the subscription, and the sweeper that re-enqueues stranded rows     *)
(* (src/apps/api/src/lib/outbound-webhooks/,                               *)
(*  src/apps/api/src/outbound-webhooks/,                                   *)
(*  src/apps/api/src/lib/sweepers/orphan-webhook-delivery.ts).             *)
(*                                                                         *)
(* One subscription of one workspace.  BullMQ is external and modelled by  *)
(* what the worker relies on: an add with a known job id is a no-op, a     *)
(* thrown attempt is delayed until the attempts are used up, a job whose   *)
(* lock is gone is handed out again at most MaxStalls times, and a run     *)
(* that lost its lock cannot finish the job.                               *)
(***************************************************************************)
EXTENDS Integers, FiniteSets

CONSTANTS
  Deliveries,    \* delivery rows
  Tests,         \* those an operator fired with the Test button
  Concurrency,   \* runs the worker holds at once
  PerTeam,       \* WEBHOOK_PER_TEAM_CONCURRENCY
  MaxAttempts,   \* attempts of a job
  MaxStalls,     \* maxStalledCount
  Threshold,     \* AUTO_DISABLE_THRESHOLD
  MaxCrashes, MaxExpiries, MaxBlips, MaxToggles, MaxLags, \* bounds on the environment,
  MaxEvents      \* and on all of it together

ASSUME ConstantsAssumption ==
  /\ Tests \subseteq Deliveries
  /\ {Concurrency, PerTeam, MaxAttempts, Threshold} \subseteq Nat \ {0}
  /\ {MaxStalls, MaxCrashes, MaxExpiries, MaxBlips, MaxToggles, MaxLags, MaxEvents}
       \subseteq Nat

VARIABLES
  enabled,    \* outboundWebhook.enabled
  failures,   \* outboundWebhook.consecutiveFailures
  row,        \* the delivery rows (tried: attemptCount > 0)
  toEnqueue,  \* rows created whose enqueue is still to come
  job,        \* the BullMQ job of each row
  run,        \* what each lane of the worker is doing
  slots,      \* teamSlots: the workspace's runs in flight
  sweep,      \* how far the orphan sweep is with each row
  budget,     \* what is left of each bound on the environment
  accepts,    \* history: how often the partner took each delivery
  again,      \* history: how often something made a delivery run again
  failed      \* history: deliveries failed on their last attempt since the
              \*          subscription last worked or was enabled

webhook == <<enabled, failures>>
history == <<accepts, again, failed>>
vars == <<webhook, row, toEnqueue, job, run, slots, sweep, budget, history>>

Lanes == 1..Concurrency
Nobody == 0
Terminal == {"completed", "failed"}

NoRow == [made |-> FALSE, tried |-> FALSE, delivered |-> FALSE, failed |-> FALSE]
NoJob == [st |-> "none", tries |-> 0, stalls |-> 0, owner |-> Nobody]
NewJob == [NoJob EXCEPT !.st = "waiting"]
Idle == [step |-> "off"]

Allowed == [crash |-> MaxCrashes, expiry |-> MaxExpiries, blip |-> MaxBlips,
            toggle |-> MaxToggles, lag |-> MaxLags, event |-> MaxEvents]

Init ==
  /\ enabled = TRUE /\ failures = 0
  /\ row = [d \in Deliveries |-> NoRow]
  /\ toEnqueue = {}
  /\ job = [d \in Deliveries |-> NoJob]
  /\ run = [l \in Lanes |-> Idle]
  /\ slots = 0
  /\ sweep = [d \in Deliveries |-> "no"]
  /\ budget = Allowed
  /\ accepts = [d \in Deliveries |-> 0]
  /\ again = [d \in Deliveries |-> 0] /\ failed = {}

\* Trouble of one kind is one event, however often it strikes.
Spend(what) ==
  LET event == IF budget[what] = Allowed[what] THEN 1 ELSE 0
  IN  /\ budget[what] > 0 /\ budget.event >= event
      /\ budget' = [budget EXCEPT ![what] = @ - 1, !.event = @ - event]

-----------------------------------------------------------------------------
(* The subscriber: create the row, then enqueue its job. *)

Create(d) ==
  /\ ~row[d].made
  /\ enabled \/ d \in Tests
  /\ row' = [row EXCEPT ![d].made = TRUE]
  /\ toEnqueue' = toEnqueue \union {d}
  /\ UNCHANGED <<webhook, job, run, slots, sweep, budget, history>>

\* Mutant: the job has a random id, so a known one is queued afresh.
AddedAgain(d) == job' = [job EXCEPT ![d] = NewJob]

\* add() with jobId deliver-<id>: a no-op while any job of that id is kept.
Added(d) ==
  job' = IF job[d].st = "none" THEN [job EXCEPT ![d] = NewJob] ELSE job

Enqueue(d) ==
  /\ d \in toEnqueue
  /\ toEnqueue' = toEnqueue \ {d}
  /\ Added(d)
  /\ UNCHANGED <<webhook, row, run, slots, sweep, budget, history>>

\* A failed enqueue is logged; the row stays behind for the sweeper.
EnqueueFails(d) ==
  /\ d \in toEnqueue
  /\ Spend("blip")
  /\ toEnqueue' = toEnqueue \ {d}
  /\ UNCHANGED <<webhook, row, job, run, slots, sweep, history>>

-----------------------------------------------------------------------------
(* The worker. *)

\* Lanes are interchangeable: the first free one takes the job.
Free(l) == run[l].step = "off" /\ \A m \in 1..(l - 1) : run[m].step # "off"

\* The row and the subscription are read once, when the run starts: the Test
\* on a disabled subscription (isDisabledTest) is told by what was read then.
Pickup(l, d) ==
  /\ Free(l) /\ job[d].st = "waiting"
  /\ slots < PerTeam
  /\ slots' = slots + 1
  /\ job' = [job EXCEPT ![d].st = "active", ![d].owner = l]
  /\ run' = [run EXCEPT ![l] =
       [step |-> IF enabled \/ d \in Tests THEN "posting" ELSE "noop",
        d |-> d, attempt |-> job[d].tries + 1, disabledTest |-> d \in Tests /\ ~enabled]]
  /\ UNCHANGED <<webhook, row, toEnqueue, sweep, budget, history>>

\* The workspace is at its cap: delayed without using up an attempt.
Defer(l, d) ==
  /\ Free(l) /\ job[d].st = "waiting"
  /\ slots >= PerTeam
  /\ job' = [job EXCEPT ![d].st = "delayed"]
  /\ UNCHANGED <<webhook, row, toEnqueue, run, slots, sweep, budget, history>>

Due(d) ==
  /\ job[d].st = "delayed"
  /\ job' = [job EXCEPT ![d].st = "waiting"]
  /\ UNCHANGED <<webhook, row, toEnqueue, run, slots, sweep, budget, history>>

At(l, step) == run[l].step = step

\* The job function is over, by returning or by throwing.
Over(r, end) == [step |-> end, d |-> r.d]

\* The secret does not decrypt: the row is failed and the attempt thrown.
Undecryptable(l) ==
  /\ At(l, "posting") /\ Spend("blip")
  /\ run' = [run EXCEPT ![l].step = "sealed"]
  /\ UNCHANGED <<webhook, row, toEnqueue, job, slots, sweep, history>>

LastAttempt(r) == r.attempt >= MaxAttempts

\* The failure still to be recorded: whether it is final, and how the job
\* function ends once it is.
Failing(r, final, end) ==
  [step |-> "row", d |-> r.d, attempt |-> r.attempt, final |-> final, end |-> end]

\* The POST reaches the partner, which takes it.
Post(l) ==
  /\ At(l, "posting")
  /\ run' = [run EXCEPT ![l].step = "taken"]
  /\ accepts' = [accepts EXCEPT ![run[l].d] = @ + 1]
  /\ UNCHANGED <<webhook, row, toEnqueue, job, slots, sweep, budget, again, failed>>

\* The partner refuses it or is not reachable now, or the address check blocks
\* it for good, which ends the job without a retry.
NotTaken(l) ==
  /\ At(l, "posting")
  /\ \E blocked \in BOOLEAN :
       run' = [run EXCEPT ![l] =
                 Failing(@, blocked \/ LastAttempt(@),
                         IF blocked THEN "returned" ELSE "thrown")]
  /\ UNCHANGED <<webhook, row, toEnqueue, job, slots, sweep, budget, history>>

Again(ds) == again' = [d \in Deliveries |-> again[d] + (IF d \in ds THEN 1 ELSE 0)]

\* The answer is lost on the way and recorded as a failure.
AnswerLost(l) ==
  /\ At(l, "taken")
  /\ run' = [run EXCEPT ![l] = Failing(@, LastAttempt(@), "thrown")]
  /\ Again({run[l].d})
  /\ UNCHANGED <<webhook, row, toEnqueue, job, slots, sweep, budget, accepts, failed>>

\* A 2xx: one transaction over the row and the breaker.  A Test on a disabled
\* subscription leaves the breaker alone, by the flag read before the POST.
RecordOk(l) ==
  /\ At(l, "taken")
  /\ LET r == run[l]
     IN  /\ row' = [row EXCEPT ![r.d] = [made |-> TRUE, tried |-> TRUE,
                                         delivered |-> TRUE, failed |-> FALSE]]
         /\ failures' = IF r.disabledTest THEN failures ELSE 0
         /\ failed' = IF r.disabledTest THEN failed ELSE {}
         /\ run' = [run EXCEPT ![l] = Over(r, "returned")]
  /\ UNCHANGED <<enabled, toEnqueue, job, slots, sweep, budget, accepts, again>>

FailedRow(d) ==
  row' = [row EXCEPT ![d].tried = TRUE, ![d].failed = TRUE]

\* The rows of a disabled subscription and of an undecryptable secret.
RecordSkip(l) ==
  /\ \/ At(l, "noop") /\ run' = [run EXCEPT ![l] = Over(@, "returned")]
     \/ At(l, "sealed") /\ run' = [run EXCEPT ![l] = Over(@, "thrown")]
  /\ FailedRow(run[l].d)
  /\ UNCHANGED <<webhook, toEnqueue, job, slots, sweep, budget, history>>

\* Mutant: every failed attempt goes on to the counter.
RecordFailureEach(l) ==
  /\ At(l, "row")
  /\ FailedRow(run[l].d)
  /\ run' = [run EXCEPT ![l].step = "bump"]
  /\ UNCHANGED <<webhook, toEnqueue, job, slots, sweep, budget, history>>

\* recordFailure, its first write.
RecordFailure(l) ==
  /\ At(l, "row")
  /\ FailedRow(run[l].d)
  /\ run' = [run EXCEPT ![l] = IF @.final THEN [@ EXCEPT !.step = "bump"] ELSE Over(@, @.end)]
  /\ UNCHANGED <<webhook, toEnqueue, job, slots, sweep, budget, history>>

\* Its second: the counter goes up by the delivery, not by the attempt.
Bump(l) ==
  /\ At(l, "bump")
  /\ failures' = failures + 1
  /\ failed' = failed \union {run[l].d}
  /\ run' = [run EXCEPT ![l] = IF enabled /\ failures + 1 >= Threshold
                               THEN [@ EXCEPT !.step = "trip"] ELSE Over(@, @.end)]
  /\ UNCHANGED <<enabled, row, toEnqueue, job, slots, sweep, budget, accepts, again>>

\* Its third: only the run that turns the flag announces it.
Trip(l) ==
  /\ At(l, "trip")
  /\ enabled' = FALSE
  /\ run' = [run EXCEPT ![l] = Over(@, @.end)]
  /\ UNCHANGED <<failures, row, toEnqueue, job, slots, sweep, budget, accepts, again, failed>>

\* The database fails under the reads or one of the writes, or the message's
\* media is still uploading: the attempt throws.
Blip(l) ==
  /\ run[l].step \in {"posting", "noop", "sealed", "taken", "row", "bump", "trip"}
  /\ Spend("blip")
  /\ Again(IF At(l, "taken") \/ (At(l, "trip") /\ run[l].end = "returned")
            THEN {run[l].d} ELSE {})
  /\ run' = [run EXCEPT ![l] = Over(@, "thrown")]
  /\ UNCHANGED <<webhook, row, toEnqueue, job, slots, sweep, accepts, failed>>

\* What BullMQ makes of a finished run that still holds the job's lock.
Settled(j, end) ==
  [j EXCEPT !.owner = Nobody,
            !.tries = IF end = "thrown" THEN @ + 1 ELSE @,
            !.st = CASE end = "returned" -> "completed"
                     [] end = "thrown" /\ j.tries + 1 < MaxAttempts -> "delayed"
                     [] OTHER -> "failed"]

\* Mutant: only a run that returns gives its slot back.
FinishLeaks(l) ==
  /\ run[l].step \in {"returned", "thrown"}
  /\ slots' = IF At(l, "returned") THEN slots - 1 ELSE slots
  /\ run' = [run EXCEPT ![l] = Idle]
  /\ LET d == run[l].d
     IN  job' = IF job[d].owner = l THEN [job EXCEPT ![d] = Settled(@, run[l].step)] ELSE job
  /\ UNCHANGED <<webhook, row, toEnqueue, sweep, budget, history>>

Finish(l) ==
  /\ run[l].step \in {"returned", "thrown"}
  /\ slots' = slots - 1
  /\ run' = [run EXCEPT ![l] = Idle]
  /\ LET d == run[l].d
     IN  job' = IF job[d].owner = l THEN [job EXCEPT ![d] = Settled(@, run[l].step)] ELSE job
  /\ UNCHANGED <<webhook, row, toEnqueue, sweep, budget, history>>

-----------------------------------------------------------------------------
(* Crashes, lost locks and stalled jobs. *)

Held == {d \in Deliveries : job[d].owner # Nobody}

Crash ==
  /\ Spend("crash")
  /\ run' = [l \in Lanes |-> Idle]
  /\ slots' = 0
  /\ toEnqueue' = {}
  /\ sweep' = [d \in Deliveries |-> "no"]
  /\ job' = [d \in Deliveries |-> [job[d] EXCEPT !.owner = Nobody]]
  /\ Again(Held)
  /\ UNCHANGED <<webhook, row, accepts, failed>>

\* The lock of a run that is still going is not renewed in time.
LockExpires(d) ==
  /\ job[d].owner # Nobody
  /\ Spend("expiry")
  /\ job' = [job EXCEPT ![d].owner = Nobody]
  /\ Again({d})
  /\ UNCHANGED <<webhook, row, toEnqueue, run, slots, sweep, accepts, failed>>

Stalled(d) ==
  /\ job[d].st = "active" /\ job[d].owner = Nobody
  /\ job' = [job EXCEPT ![d].stalls = IF @ < MaxStalls THEN @ + 1 ELSE @,
                        ![d].st = IF job[d].stalls < MaxStalls THEN "waiting" ELSE "failed"]
  /\ UNCHANGED <<webhook, row, toEnqueue, run, slots, sweep, budget, history>>

-----------------------------------------------------------------------------
(* The operator and the orphan sweeper. *)

\* update() with an enabled flag: enabling also clears the breaker.
Toggle(on) ==
  /\ Spend("toggle")
  /\ enabled' = on
  /\ failures' = IF on THEN 0 ELSE failures
  /\ failed' = IF on THEN {} ELSE failed
  /\ UNCHANGED <<row, toEnqueue, job, run, slots, sweep, accepts, again>>

Orphan(d) == row[d].made /\ ~row[d].tried /\ ~row[d].delivered /\ ~row[d].failed

Live(d) == d \in toEnqueue \/ job[d].st \in {"waiting", "delayed", "active"}

\* Rows younger than graceMs() are left alone.  A row still on its way is that
\* old only when the worker or Redis lags behind, which is bounded.
SweepSelect ==
  /\ \A d \in Deliveries : sweep[d] = "no" \* one sweep at a time
  /\ \E old \in {{d \in Deliveries : Orphan(d) /\ ~Live(d)}, {d \in Deliveries : Orphan(d)}} :
       /\ old # {}
       /\ IF \E d \in old : Live(d) THEN Spend("lag") ELSE UNCHANGED budget
       /\ sweep' = [d \in Deliveries |-> IF d \in old THEN "selected" ELSE "no"]
  /\ UNCHANGED <<webhook, row, toEnqueue, job, run, slots, history>>

\* Mutant: the terminal job stays and swallows the re-add.
SweepClearNot(d) ==
  /\ sweep[d] = "selected"
  /\ sweep' = [sweep EXCEPT ![d] = "checked"]
  /\ UNCHANGED <<webhook, row, toEnqueue, job, run, slots, budget, history>>

\* A terminal job would swallow the re-add, so it is removed first.
SweepClear(d) ==
  /\ sweep[d] = "selected"
  /\ sweep' = [sweep EXCEPT ![d] = "checked"]
  /\ IF job[d].st \in Terminal
       THEN job' = [job EXCEPT ![d] = NoJob] /\ Again({d})
       ELSE UNCHANGED <<job, again>>
  /\ UNCHANGED <<webhook, row, toEnqueue, run, slots, budget, accepts, failed>>

SweepAdd(d) ==
  /\ sweep[d] = "checked"
  /\ sweep' = [sweep EXCEPT ![d] = "no"]
  /\ Added(d)
  /\ UNCHANGED <<webhook, row, toEnqueue, run, slots, budget, history>>

-----------------------------------------------------------------------------
LaneStep(l) ==
  \/ Post(l)
  \/ RecordOk(l) \/ RecordSkip(l) \/ RecordFailure(l) \/ Bump(l) \/ Trip(l) \/ Finish(l)

Next ==
  \/ \E d \in Deliveries :
       \/ Create(d) \/ Enqueue(d) \/ EnqueueFails(d) \/ Due(d)
       \/ LockExpires(d) \/ Stalled(d) \/ SweepClear(d) \/ SweepAdd(d)
  \/ \E l \in Lanes :
       \/ \E d \in Deliveries : Pickup(l, d) \/ Defer(l, d)
       \/ LaneStep(l) \/ NotTaken(l) \/ AnswerLost(l) \/ Undecryptable(l) \/ Blip(l)
  \/ Crash
  \/ \E on \in BOOLEAN : Toggle(on)
  \/ SweepSelect

Spec == Init /\ [][Next]_vars

\* A run in flight goes on (every call in it has a timeout), BullMQ promotes
\* delayed jobs, hands out waiting ones and checks for stalled ones, and the
\* sweeper's timer fires.
Fairness ==
  /\ \A l \in Lanes : WF_vars(LaneStep(l))
  /\ \A d \in Deliveries :
       /\ WF_vars(Enqueue(d)) /\ WF_vars(Due(d)) /\ WF_vars(Stalled(d))
       /\ WF_vars(\E l \in Lanes : Pickup(l, d))
       /\ WF_vars(SweepClear(d)) /\ WF_vars(SweepAdd(d))
  /\ WF_vars(SweepSelect)

FairSpec == Spec /\ Fairness

-----------------------------------------------------------------------------
TypeOK ==
  /\ enabled \in BOOLEAN /\ failures \in Nat
  /\ row \in [Deliveries -> [made : BOOLEAN, tried : BOOLEAN,
                             delivered : BOOLEAN, failed : BOOLEAN]]
  /\ toEnqueue \subseteq Deliveries
  /\ job \in [Deliveries -> [st : {"none", "waiting", "delayed", "active"} \union Terminal,
                             tries : 0..MaxAttempts, stalls : 0..MaxStalls,
                             owner : Lanes \union {Nobody}]]
  /\ slots = Cardinality({l \in Lanes : run[l].step # "off"}) /\ slots <= PerTeam
  /\ sweep \in [Deliveries -> {"no", "selected", "checked"}]
  /\ failed \subseteq Deliveries
  /\ accepts \in [Deliveries -> Nat] /\ again \in [Deliveries -> Nat]

\* The partner takes a delivery a second time only for a reason: an answer or
\* the record of it was lost, a run was cut short or lost its lock, or the
\* sweeper removed a finished job between its query and its re-add.
NoRepost == \A d \in Deliveries : accepts[d] <= 1 + again[d]

\* The breaker counts deliveries, not attempts: a delivery that failed on its last
\* attempt stands for one, and for one more with each reason it was run again.
CountsDeliveries == failures <= Cardinality(UNION {{d} \X (0..again[d]) : d \in failed})

\* Every row ends delivered or failed, with no job of it left to run: a lost
\* enqueue, a dead worker or a ladder that failed before it could write the
\* row does not strand it.
DeliverySettles ==
  \A d \in Deliveries :
    row[d].made ~> (/\ row[d].delivered \/ row[d].failed
                    /\ job[d].st \in Terminal \union {"none"})
=============================================================================
