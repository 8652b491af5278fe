------------------------------ MODULE TextSend ------------------------------
(***************************************************************************)
(* An agent's free-form text, from the POST to the customer: the in-process*)
(* send lock, the BullMQ queue message-sends keyed by clientTempId, the    *)
(* worker with its per-workspace slots, the OutboundSendAttempt ledger, the*)
(* provider call, the Message row and the message.sent commit.  Source:    *)
(* apps/api/src/messages (send-idempotency, send-queue, send-worker,       *)
(* messages.service executeTextSendJob).                                   *)
(*                                                                         *)
(* A job stands for its clientTempId: the send lock, the queue and the     *)
(* ledger are all keyed by it.  A run is one handler execution in a worker.*)
(***************************************************************************)
EXTENDS Integers, FiniteSets

CONSTANTS
  Jobs,         \* clientTempIds
  Runs,         \* concurrent handler executions (worker concurrency)
  NoRun,
  NoJob,
  Workspaces,
  WorkspaceOf,  \* [Jobs -> Workspaces]
  TeamCap,      \* SEND_PER_TEAM_CONCURRENCY
  Attempts,     \* defaultJobOptions.attempts
  MaxStalled,   \* maxStalledCount
  MaxPosts,     \* bound on POSTs of one clientTempId
  MaxRestarts,  \* bound on process deaths
  MaxLockLosses,\* bound on live runs that lose their job lock
  MaxBlips      \* bound on failed database and queue calls

ASSUME TextSendAssumption ==
  /\ NoRun \notin Runs /\ NoJob \notin Jobs
  /\ IsFiniteSet(Runs)
  /\ WorkspaceOf \in [Jobs -> Workspaces]
  /\ TeamCap \in Nat \ {0} /\ Attempts \in Nat \ {0} /\ MaxStalled \in Nat
  /\ MaxPosts \in Nat /\ MaxRestarts \in Nat /\ MaxLockLosses \in Nat /\ MaxBlips \in Nat

VARIABLES
  \* the API process: cached POST results, requests made
  cache, posts,
  \* the queue
  jobState, attemptsMade, stalls, lock,
  \* the worker
  runJob, pc, slots,
  \* the database: the attempt ledger, Message rows, deleted conversations
  attempt, message, gone,
  \* history: provider acceptances, acceptances a run learnt of, message.sent
  \* commits, silent replays, message.send_failed events
  accepted, acked, commits, replayed, failedShown,
  \* the environment's budget
  restarts, lockLosses, blips

apiVars == <<cache, posts>>
queueVars == <<jobState, attemptsMade, stalls, lock>>
runVars == <<runJob, pc, slots>>
dbVars == <<attempt, message, gone>>
history == <<accepted, acked, commits, replayed, failedShown>>
env == <<restarts, lockLosses, blips>>
vars == <<apiVars, queueVars, runVars, dbVars, history, env>>

Points == {"idle", "check", "create", "inspect", "lookup", "replay", "reinsert",
           "recommit", "send", "releaseTemp", "releasePerm", "stamp", "insert",
           "commit", "done", "throwTemp", "refuse", "throwPerm", "fatal", "announce"}

ApiTypes == cache \subseteq Jobs /\ posts \in [Jobs -> 0..MaxPosts]

QueueTypes ==
  /\ jobState \in [Jobs -> {"none", "waiting", "active", "completed", "failed"}]
  /\ attemptsMade \in [Jobs -> 0..Attempts]
  /\ stalls \in [Jobs -> 0..MaxStalled]
  /\ lock \in [Jobs -> Runs \cup {NoRun}]

RunTypes ==
  /\ runJob \in [Runs -> Jobs \cup {NoJob}]
  /\ pc \in [Runs -> Points]

DbTypes ==
  /\ attempt \in [Jobs -> {"none", "open", "completed"}]
  /\ message \subseteq Jobs /\ gone \subseteq Jobs

OtherTypes ==
  /\ accepted \in [Jobs -> Nat] /\ commits \in [Jobs -> Nat]
  /\ acked \subseteq Jobs /\ replayed \subseteq Jobs /\ failedShown \subseteq Jobs
  /\ restarts \in 0..MaxRestarts /\ lockLosses \in 0..MaxLockLosses
  /\ blips \in 0..MaxBlips

TypeOK ==
  /\ ApiTypes /\ QueueTypes /\ RunTypes /\ DbTypes /\ OtherTypes
  /\ slots \in [Workspaces -> 0..TeamCap]

Init ==
  /\ cache = {} /\ posts = [j \in Jobs |-> 0]
  /\ jobState = [j \in Jobs |-> "none"]
  /\ attemptsMade = [j \in Jobs |-> 0]
  /\ stalls = [j \in Jobs |-> 0]
  /\ lock = [j \in Jobs |-> NoRun]
  /\ runJob = [r \in Runs |-> NoJob]
  /\ pc = [r \in Runs |-> "idle"]
  /\ slots = [w \in Workspaces |-> 0]
  /\ attempt = [j \in Jobs |-> "none"]
  /\ message = {} /\ gone = {}
  /\ accepted = [j \in Jobs |-> 0] /\ commits = [j \in Jobs |-> 0]
  /\ acked = {} /\ replayed = {} /\ failedShown = {}
  /\ restarts = 0 /\ lockLosses = 0 /\ blips = 0

\* The runs that work for a workspace.
Serving(w) == {r \in Runs : runJob[r] # NoJob /\ WorkspaceOf[runJob[r]] = w}

\* One failed call out of the budget.
Blip == blips < MaxBlips /\ blips' = blips + 1

-----------------------------------------------------------------------------
(* The POST.                                                               *)

\* BullMQ's add is a no-op for an existing jobId; a retry first removes a
\* terminally failed job so that the add takes effect.
Enqueue(j, isRetry) ==
  IF jobState[j] = "none" \/ (isRetry /\ jobState[j] = "failed")
    THEN /\ jobState' = [jobState EXCEPT ![j] = "waiting"]
         /\ attemptsMade' = [attemptsMade EXCEPT ![j] = 0]
         /\ stalls' = [stalls EXCEPT ![j] = 0]
         /\ UNCHANGED lock
    ELSE UNCHANGED queueVars

\* sendText under runWithSendIdempotency: a cached key answers without work; a
\* queue failure is a 503, is not cached, and may have landed all the same.
Post(j, isRetry) ==
  /\ posts[j] < MaxPosts
  /\ posts' = [posts EXCEPT ![j] = @ + 1]
  /\ IF j \in cache
       THEN UNCHANGED <<cache, queueVars, blips>>
       ELSE \/ Enqueue(j, isRetry) /\ cache' = cache \cup {j} /\ UNCHANGED blips
            \/ Blip /\ Enqueue(j, isRetry) /\ UNCHANGED cache
            \/ Blip /\ UNCHANGED <<cache, queueVars>>
  /\ UNCHANGED <<runVars, dbVars, history, restarts, lockLosses>>

\* IDEMPOTENCY_TTL_MS passes.
ExpireCache(j) ==
  /\ j \in cache
  /\ cache' = cache \ {j}
  /\ UNCHANGED <<posts, queueVars, runVars, dbVars, history, env>>

\* removeOnComplete drops the record of a completed job, and its jobId dedupe.
ExpireJob(j) ==
  /\ jobState[j] = "completed"
  /\ jobState' = [jobState EXCEPT ![j] = "none"]
  /\ UNCHANGED <<apiVars, attemptsMade, stalls, lock, runVars, dbVars, history, env>>

\* The conversation is deleted, and its messages with it.
DeleteConversation(j) ==
  /\ j \notin gone
  /\ posts[j] > 0
  /\ gone' = gone \cup {j}
  /\ message' = message \ {j}
  /\ UNCHANGED <<apiVars, queueVars, runVars, attempt, history, env>>

-----------------------------------------------------------------------------
(* Taking a job and giving it back.                                        *)

\* tryAcquireSendSlot; a job of a workspace at its cap goes back to the queue,
\* which leaves it waiting.
Pick(r, j) ==
  /\ pc[r] = "idle"
  /\ jobState[j] = "waiting"
  /\ slots[WorkspaceOf[j]] < TeamCap
  /\ slots' = [slots EXCEPT ![WorkspaceOf[j]] = @ + 1]
  /\ jobState' = [jobState EXCEPT ![j] = "active"]
  /\ lock' = [lock EXCEPT ![j] = r]
  /\ runJob' = [runJob EXCEPT ![r] = j]
  /\ pc' = [pc EXCEPT ![r] = "check"]
  /\ UNCHANGED <<apiVars, attemptsMade, stalls, dbVars, history, env>>

\* The finally of the processor, and the run is over.
Leave(r) ==
  /\ slots' = [slots EXCEPT ![WorkspaceOf[runJob[r]]] = @ - 1]
  /\ runJob' = [runJob EXCEPT ![r] = NoJob]

GoTo(r, point) == pc' = [pc EXCEPT ![r] = point] /\ UNCHANGED <<runJob, slots>>

\* BullMQ takes the outcome of a run only while the run holds the job's lock.
Settle(r, state) ==
  IF lock[runJob[r]] = r
    THEN /\ jobState' = [jobState EXCEPT ![runJob[r]] = state]
         /\ lock' = [lock EXCEPT ![runJob[r]] = NoRun]
    ELSE UNCHANGED <<jobState, lock>>

Succeed(r) ==
  /\ pc[r] = "done"
  /\ Settle(r, "completed")
  /\ Leave(r)
  /\ pc' = [pc EXCEPT ![r] = "idle"]
  /\ UNCHANGED <<apiVars, attemptsMade, stalls, dbVars, history, env>>

\* handle(), not recoverable: message.send_failed is published and the cached
\* POST dropped before the error is rethrown as unrecoverable.
PublishPermanent(r) ==
  /\ pc[r] \in {"throwPerm", "refuse"}
  /\ failedShown' = failedShown \cup {runJob[r]}
  /\ cache' = cache \ {runJob[r]}
  /\ GoTo(r, "fatal")
  /\ UNCHANGED <<posts, queueVars, dbVars, accepted, acked, commits, replayed, env>>

\* Mutant: an unrecoverable failure keeps its slot.
FailPermanentLeaks(r) ==
  /\ pc[r] = "fatal"
  /\ Settle(r, "failed")
  /\ runJob' = [runJob EXCEPT ![r] = NoJob]
  /\ pc' = [pc EXCEPT ![r] = "idle"]
  /\ UNCHANGED <<slots, apiVars, attemptsMade, stalls, dbVars, history, env>>

FailPermanent(r) ==
  /\ pc[r] = "fatal"
  /\ Settle(r, "failed")
  /\ Leave(r)
  /\ pc' = [pc EXCEPT ![r] = "idle"]
  /\ UNCHANGED <<apiVars, attemptsMade, stalls, dbVars, history, env>>

\* Mutant: the attempt ceiling is never seen.
FailTransientForever(r) ==
  /\ pc[r] = "throwTemp"
  /\ attemptsMade' = [attemptsMade EXCEPT ![runJob[r]] = @ + 1]
  /\ Settle(r, "waiting")
  /\ Leave(r)
  /\ pc' = [pc EXCEPT ![r] = "idle"]
  /\ UNCHANGED <<apiVars, stalls, dbVars, history, env>>

\* Mutant: every failure is published, a retry pending or not.
FailTransientLoud(r) ==
  /\ pc[r] = "throwTemp"
  /\ failedShown' = failedShown \cup {runJob[r]}
  /\ attemptsMade' = [attemptsMade EXCEPT ![runJob[r]] = @ + 1]
  /\ Settle(r, IF attemptsMade[runJob[r]] + 1 >= Attempts THEN "failed" ELSE "waiting")
  /\ Leave(r)
  /\ pc' = [pc EXCEPT ![r] = "idle"]
  /\ UNCHANGED <<apiVars, stalls, dbVars, accepted, acked, commits, replayed, env>>

\* Mutant: exhausted in silence.
FailTransientSilent(r) ==
  /\ pc[r] = "throwTemp"
  /\ attemptsMade' = [attemptsMade EXCEPT ![runJob[r]] = @ + 1]
  /\ Settle(r, IF attemptsMade[runJob[r]] + 1 >= Attempts THEN "failed" ELSE "waiting")
  /\ Leave(r)
  /\ pc' = [pc EXCEPT ![r] = "idle"]
  /\ UNCHANGED <<apiVars, stalls, dbVars, history, env>>

\* handle(), recoverable: rethrown in silence, so BullMQ schedules a retry, or
\* moves the job to failed once its attempts are used up.
FailTransient(r) ==
  /\ pc[r] = "throwTemp"
  /\ LET j == runJob[r]
         final == attemptsMade[j] + 1 >= Attempts IN
     IF lock[j] = r
       THEN /\ attemptsMade' = [attemptsMade EXCEPT ![j] = @ + 1]
            /\ Settle(r, IF final THEN "failed" ELSE "waiting")
            /\ IF final THEN GoTo(r, "announce")
                        ELSE Leave(r) /\ pc' = [pc EXCEPT ![r] = "idle"]
       ELSE /\ Leave(r)
            /\ pc' = [pc EXCEPT ![r] = "idle"]
            /\ UNCHANGED <<attemptsMade, jobState, lock>>
  /\ UNCHANGED <<apiVars, stalls, dbVars, history, env>>

\* worker.on("failed") with no attempt left: the failure is published now.
AnnounceExhausted(r) ==
  /\ pc[r] = "announce"
  /\ failedShown' = failedShown \cup {runJob[r]}
  /\ cache' = cache \ {runJob[r]}
  /\ Leave(r)
  /\ pc' = [pc EXCEPT ![r] = "idle"]
  /\ UNCHANGED <<posts, queueVars, dbVars, accepted, acked, commits, replayed, env>>

-----------------------------------------------------------------------------
(* executeTextSendJob.                                                     *)

\* The conversation must still exist.
Check(r) ==
  /\ pc[r] = "check"
  /\ \/ runJob[r] \in gone /\ GoTo(r, "throwPerm") /\ UNCHANGED blips
     \/ runJob[r] \notin gone /\ GoTo(r, "create") /\ UNCHANGED blips
     \/ Blip /\ GoTo(r, "throwTemp")
  /\ UNCHANGED <<apiVars, queueVars, dbVars, history, restarts, lockLosses>>

\* Insert the OutboundSendAttempt row; a duplicate key means an earlier attempt.
\* A call that fails may have inserted the row.
CreateAttempt(r) ==
  /\ pc[r] = "create"
  /\ LET j == runJob[r] IN
     IF attempt[j] = "none"
       THEN \/ attempt' = [attempt EXCEPT ![j] = "open"] /\ GoTo(r, "send") /\ UNCHANGED blips
            \/ Blip /\ GoTo(r, "throwTemp") /\ attempt' = [attempt EXCEPT ![j] = "open"]
            \/ Blip /\ GoTo(r, "throwTemp") /\ UNCHANGED attempt
       ELSE GoTo(r, "inspect") /\ UNCHANGED <<attempt, blips>>
  /\ UNCHANGED <<apiVars, queueVars, message, gone, history, restarts, lockLosses>>

\* Mutant: an earlier attempt counts as sent without its completed stamp.
InspectPriorTrusting(r) ==
  /\ pc[r] = "inspect"
  /\ GoTo(r, "lookup")
  /\ UNCHANGED <<apiVars, queueVars, dbVars, history, env>>

\* Read the earlier attempt: completed is branch (a); anything else, a row gone
\* since included, is refused as send_in_progress_or_lost, branch (b).
InspectPrior(r) ==
  /\ pc[r] = "inspect"
  /\ \/ attempt[runJob[r]] = "completed" /\ GoTo(r, "lookup") /\ UNCHANGED blips
     \/ attempt[runJob[r]] # "completed" /\ GoTo(r, "refuse") /\ UNCHANGED blips
     \/ Blip /\ GoTo(r, "throwTemp")
  /\ UNCHANGED <<apiVars, queueVars, dbVars, history, restarts, lockLosses>>

\* Branch (a): is the Message row there?
LookupMessage(r) ==
  /\ pc[r] = "lookup"
  /\ \/ runJob[r] \in message /\ GoTo(r, "replay") /\ UNCHANGED blips
     \/ runJob[r] \notin message /\ GoTo(r, "reinsert") /\ UNCHANGED blips
     \/ Blip /\ GoTo(r, "throwTemp")
  /\ UNCHANGED <<apiVars, queueVars, dbVars, history, restarts, lockLosses>>

\* Mutant: the replay runs the full commit.
ReplayInFull(r) ==
  /\ pc[r] = "replay"
  /\ commits' = [commits EXCEPT ![runJob[r]] = @ + 1]
  /\ GoTo(r, "done")
  /\ UNCHANGED <<apiVars, queueVars, dbVars, accepted, acked, replayed, failedShown, env>>

\* It is: a silent message.sent for the client alone.
Replay(r) ==
  /\ pc[r] = "replay"
  /\ replayed' = replayed \cup {runJob[r]}
  /\ GoTo(r, "done")
  /\ UNCHANGED <<apiVars, queueVars, dbVars, accepted, acked, commits, failedShown, env>>

\* createOutboundMessageIdempotent: an existing row is returned; a row cannot be
\* inserted under a deleted conversation.
InsertMessage(r, next) ==
  \/ /\ runJob[r] \notin gone
     /\ message' = message \cup {runJob[r]}
     /\ GoTo(r, next)
     /\ UNCHANGED blips
  \/ runJob[r] \in gone /\ GoTo(r, "throwTemp") /\ UNCHANGED <<message, blips>>
  \/ Blip /\ GoTo(r, "throwTemp") /\ UNCHANGED message

\* commitOutboundEvent: bump, ticket routing and the outbox row in one
\* transaction; nothing when the conversation has vanished.
CommitEvent(r) ==
  commits' = IF runJob[r] \in gone THEN commits
             ELSE [commits EXCEPT ![runJob[r]] = @ + 1]

Reinsert(r) ==
  /\ pc[r] = "reinsert"
  /\ InsertMessage(r, "recommit")
  /\ UNCHANGED <<apiVars, queueVars, attempt, gone, history, restarts, lockLosses>>

\* Branch (a) runs the full commit for a row it inserted; an error is thrown.
Recommit(r) ==
  /\ pc[r] = "recommit"
  /\ \/ CommitEvent(r) /\ GoTo(r, "done") /\ UNCHANGED blips
     \/ Blip /\ GoTo(r, "throwTemp") /\ UNCHANGED commits
  /\ UNCHANGED <<apiVars, queueVars, dbVars, accepted, acked, replayed, failedShown,
                 restarts, lockLosses>>

\* Mutant: an ambiguous failure releases the ledger row too.
SendToProviderRelease(r) ==
  /\ pc[r] = "send"
  /\ LET j == runJob[r] IN
     \/ /\ accepted' = [accepted EXCEPT ![j] = @ + 1]
        /\ acked' = acked \cup {j}
        /\ GoTo(r, "stamp")
     \/ /\ accepted' = [accepted EXCEPT ![j] = @ + 1]
        /\ GoTo(r, "releaseTemp")
        /\ UNCHANGED acked
     \/ /\ GoTo(r, "releaseTemp") \/ GoTo(r, "releasePerm")
        /\ UNCHANGED <<accepted, acked>>
  /\ UNCHANGED <<apiVars, queueVars, dbVars, commits, replayed, failedShown, env>>

\* The provider call.  The message may be accepted although the answer is a 5xx
\* or never comes: the row is then kept (failedAt is stamped, which nothing
\* reads).  An answer below 500 and a rate limit prove that it was not accepted.
SendToProvider(r) ==
  /\ pc[r] = "send"
  /\ LET j == runJob[r] IN
     \/ /\ accepted' = [accepted EXCEPT ![j] = @ + 1]
        /\ acked' = acked \cup {j}
        /\ GoTo(r, "stamp")
     \/ /\ accepted' = [accepted EXCEPT ![j] = @ + 1]
        /\ GoTo(r, "throwTemp")
        /\ UNCHANGED acked
     \/ /\ GoTo(r, "throwTemp") \/ GoTo(r, "releaseTemp") \/ GoTo(r, "releasePerm")
        /\ UNCHANGED <<accepted, acked>>
  /\ UNCHANGED <<apiVars, queueVars, dbVars, commits, replayed, failedShown, env>>

\* Provably not sent: the row is deleted so that a retry sends again.  A failed
\* delete is ignored.
ReleaseAttempt(r) ==
  /\ pc[r] \in {"releaseTemp", "releasePerm"}
  /\ GoTo(r, IF pc[r] = "releaseTemp" THEN "throwTemp" ELSE "throwPerm")
  /\ \/ attempt' = [attempt EXCEPT ![runJob[r]] = "none"] /\ UNCHANGED blips
     \/ Blip /\ UNCHANGED attempt
  /\ UNCHANGED <<apiVars, queueVars, message, gone, history, restarts, lockLosses>>

\* Accepted: completedAt and externalId are stamped in a write of their own,
\* before the Message insert.  A failure is only logged.
StampAttempt(r) ==
  /\ pc[r] = "stamp"
  /\ GoTo(r, "insert")
  /\ \/ attempt' = [attempt EXCEPT ![runJob[r]] = "completed"] /\ UNCHANGED blips
     \/ Blip /\ UNCHANGED attempt
  /\ UNCHANGED <<apiVars, queueVars, message, gone, history, restarts, lockLosses>>

\* Mutant: a failed insert is swallowed like a failed commit.
InsertSwallowed(r) ==
  /\ pc[r] = "insert"
  /\ GoTo(r, "commit")
  /\ \/ message' = message \cup {runJob[r]} /\ runJob[r] \notin gone /\ UNCHANGED blips
     \/ Blip /\ UNCHANGED message
  /\ UNCHANGED <<apiVars, queueVars, attempt, gone, history, restarts, lockLosses>>

Insert(r) ==
  /\ pc[r] = "insert"
  /\ InsertMessage(r, "commit")
  /\ UNCHANGED <<apiVars, queueVars, attempt, gone, history, restarts, lockLosses>>

\* The first send's commit: a failure is logged and the job succeeds.
Commit(r) ==
  /\ pc[r] = "commit"
  /\ GoTo(r, "done")
  /\ \/ CommitEvent(r) /\ UNCHANGED blips
     \/ Blip /\ UNCHANGED commits
  /\ UNCHANGED <<apiVars, queueVars, dbVars, accepted, acked, replayed, failedShown,
                 restarts, lockLosses>>

-----------------------------------------------------------------------------
(* Locks, stalls and restarts.                                             *)

\* A run that cannot renew its lock in time loses it and goes on unknowing.
LoseLock(j) ==
  /\ jobState[j] = "active" /\ lock[j] # NoRun
  /\ lockLosses < MaxLockLosses
  /\ lockLosses' = lockLosses + 1
  /\ lock' = [lock EXCEPT ![j] = NoRun]
  /\ UNCHANGED <<apiVars, jobState, attemptsMade, stalls, runVars, dbVars, history,
                 restarts, blips>>

\* The stalled check puts an active job without a lock back, up to
\* maxStalledCount times; after that it is failed, and on("failed"), seeing
\* attempts left, publishes nothing.
Stalled(j) ==
  /\ jobState[j] = "active" /\ lock[j] = NoRun
  /\ IF stalls[j] < MaxStalled
       THEN /\ stalls' = [stalls EXCEPT ![j] = @ + 1]
            /\ jobState' = [jobState EXCEPT ![j] = "waiting"]
       ELSE jobState' = [jobState EXCEPT ![j] = "failed"] /\ UNCHANGED stalls
  /\ UNCHANGED <<apiVars, attemptsMade, lock, runVars, dbVars, history, env>>

\* The process dies with everything in its memory, and starts again.
Restart ==
  /\ restarts < MaxRestarts
  /\ restarts' = restarts + 1
  /\ cache' = {}
  /\ runJob' = [r \in Runs |-> NoJob]
  /\ pc' = [r \in Runs |-> "idle"]
  /\ slots' = [w \in Workspaces |-> 0]
  /\ lock' = [j \in Jobs |-> NoRun]
  /\ UNCHANGED <<posts, jobState, attemptsMade, stalls, dbVars, history, lockLosses, blips>>

-----------------------------------------------------------------------------

Execute(r) ==
  \/ Check(r) \/ CreateAttempt(r) \/ InspectPrior(r)
  \/ LookupMessage(r) \/ Replay(r) \/ Reinsert(r) \/ Recommit(r)
  \/ SendToProvider(r) \/ ReleaseAttempt(r)
  \/ StampAttempt(r) \/ Insert(r) \/ Commit(r)

Conclude(r) ==
  Succeed(r) \/ PublishPermanent(r) \/ FailPermanent(r) \/ FailTransient(r) \/ AnnounceExhausted(r)

RunStep(r) == Execute(r) \/ Conclude(r)

\* Nothing left to do: every run is idle and every job is settled.
Rest ==
  /\ \A r \in Runs : pc[r] = "idle"
  /\ \A j \in Jobs : jobState[j] \notin {"waiting", "active"}
  /\ UNCHANGED vars

Next ==
  \/ \E j \in Jobs : \E isRetry \in BOOLEAN : Post(j, isRetry)
  \/ \E j \in Jobs : ExpireCache(j) \/ ExpireJob(j) \/ DeleteConversation(j)
  \/ \E r \in Runs, j \in Jobs : Pick(r, j)
  \/ \E r \in Runs : RunStep(r)
  \/ \E j \in Jobs : LoseLock(j) \/ Stalled(j)
  \/ Restart
  \/ Rest

Spec == Init /\ [][Next]_vars

\* BullMQ delivers waiting jobs to free runs and checks for stalled ones; the
\* provider and the database answer (their calls have timeouts).
Fairness ==
  /\ \A j \in Jobs : WF_vars(\E r \in Runs : Pick(r, j)) /\ WF_vars(Stalled(j))
  /\ \A r \in Runs : WF_vars(RunStep(r))

FairSpec == Spec /\ Fairness

-----------------------------------------------------------------------------
(* Properties.                                                             *)

\* The customer gets a text at most once, whatever is retried, redelivered,
\* crashes, stalls or runs twice at the same time.
AtMostOneAcceptance == \A j \in Jobs : accepted[j] <= 1

\* Nothing is recorded as sent that the provider did not accept: neither the
\* completed ledger row that branch (a) trusts, nor a Message row, nor the
\* message.sent event, nor a replay of it.
SentMeansAccepted ==
  \A j \in Jobs :
    (attempt[j] = "completed" \/ j \in message \/ commits[j] > 0 \/ j \in replayed)
      => accepted[j] > 0

\* A completed job has left the customer's message in the inbox: there is no
\* ghost that only the customer can see, unless the thread was deleted.
CompletedHasMessage ==
  \A j \in Jobs : jobState[j] = "completed" => j \in message \cup gone

\* The slots of a workspace are exactly the runs working for it: no path, of
\* failure or of success, leaks a slot or gives one back twice.
SlotsExact == \A w \in Workspaces : slots[w] = Cardinality(Serving(w))

\* As long as no live run lost its job lock, message.sent is committed at most
\* once per text, whatever is retried, so workflows and partner webhooks do not
\* fire twice (messages.service.ts, branch (a): "fire exactly once").
CommittedOnce == lockLosses = 0 => \A j \in Jobs : commits[j] <= 1

\* As long as no live run lost its job lock, "Failed - Retry" is never shown for a
\* text the queue is going to send again by itself.  A text posted again may be
\* waiting when the failure of the earlier request is announced: the job fails
\* first, and on("failed") runs after it.
NoPrematureFailure ==
  [][lockLosses' = 0 =>
       \A j \in failedShown' \ failedShown : jobState'[j] = "waiting" => posts[j] > 1]_vars

\* Every queued text is settled: sent or failed, and its job is not left waiting
\* or active for ever by a crash, a lost lock or a saturated workspace.
JobsSettle ==
  \A j \in Jobs : jobState[j] = "waiting" ~> jobState[j] \in {"completed", "failed", "none"}

\* A text whose job failed is announced to the agent, unless a restart or a lost
\* lock let the stalled check fail the job, which publishes nothing.
FailureAnnounced ==
  \A j \in Jobs :
    jobState[j] = "failed" ~>
      (j \in failedShown \/ jobState[j] # "failed" \/ restarts > 0 \/ lockLosses > 0)

-----------------------------------------------------------------------------
(* What comments of the code say and the code does not do.                 *)

\* messages.service.ts, branch (a): "Row already existed => the original commit
\* DID run: this is a pure client-side re-emit".
ReplayAfterCommit == \A j \in replayed : commits[j] > 0
=============================================================================
