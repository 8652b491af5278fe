------------------------------ MODULE Broadcast ------------------------------
(***************************************************************************)
(* One broadcast campaign, from its scheduled row to a terminal status: the*)
(* fire job, startBroadcast with its inFlightRuns entry, the run with its  *)
(* lanes, the attempt row that guards every provider call, the FATAL_PAUSE *)
(* breaker, cancel, retry of failed recipients, pause and resume, the      *)
(* drift sweeper and boot reconciliation.  Source:                         *)
(* apps/api/src/lib/broadcast-runner.ts, broadcasts/broadcasts.service.ts, *)
(* lib/broadcasts/schedule-worker.ts, lib/sweepers/broadcast-schedule-drift*)
(*                                                                         *)
(* A run is one execution of runBroadcast.  The lanes of a run are alike,  *)
(* so a run has a count of lanes at the head of their loop, and every      *)
(* recipient a lane works on has a stage in that run.                      *)
(***************************************************************************)
EXTENDS Integers, FiniteSets

CONSTANTS
  Recipients,
  Runs,         \* bound on executions of runBroadcast alive at the same time
  NoRun,
  Lanes,        \* resolveSendPacing().lanes
  Threshold,    \* PERMANENT_ERROR_PAUSE_THRESHOLD
  MaxDefers,    \* PAIR_LIMIT_MAX_DEFERS
  Errors,       \* the errors the provider answers with, a subset of SendErrors
  UsesMedia,    \* the template has header media, sent by its uploaded id
  MaxRestarts,  \* bound on crashes and shutdowns
  MaxCancels,   \* bound on operator cancels
  MaxRetries,   \* bound on operator retries of the failed recipients
  MaxTemplate,  \* bound on template pauses by Meta
  MaxBlips,     \* bound on database calls that fail for good
  MaxOverlaps,  \* bound on starts while an earlier run is alive
  MaxEvents     \* bound on all of these together, overlaps aside

\* What a provider call may end with: a rejection of this recipient, an error
\* that hides whether Meta took the message, the two rate limits, a dead
\* credential or an unavailable template, and Meta's abuse warning.
SendErrors == {"plain", "lost", "rate", "pair", "credentials", "template", "abuse"}

ASSUME BroadcastAssumption ==
  /\ IsFiniteSet(Recipients) /\ NoRun \notin Runs
  /\ Lanes \in Nat \ {0} /\ Threshold \in Nat \ {0} /\ MaxDefers \in Nat
  /\ Errors \subseteq SendErrors /\ UsesMedia \in BOOLEAN
  /\ MaxRestarts \in Nat /\ MaxCancels \in Nat /\ MaxRetries \in Nat
  /\ MaxTemplate \in Nat /\ MaxBlips \in Nat /\ MaxOverlaps \in Nat
  /\ MaxEvents \in Nat

VARIABLES
  \* the database: the Broadcast row, its recipients, their attempt rows
  status, reason, due, sentCount, failedCount, rcpt, attempt,
  \* the process: shuttingDown, FATAL_PAUSE, inFlightRuns, the error streak
  shutting, fatal, inFlight, streak,
  \* the runs: where runBroadcast is, the stage of every recipient and the
  \* error it met, lanes at their loop head, canceled, pendingBumps, defers,
  \* mediaState
  phase, stage, err, idle, canceled, pending, defers, media,
  \* requests under way: cancel() after its first update, recipients that
  \* fail() of a run or cancel() (NoRun) flipped and has not counted yet, the
  \* status a template pause read, the resume that selected the paused row
  cancelling, owed, parked, resuming,
  \* history: provider acceptances, recipients the operator retried or whose
  \* answer was lost
  accepted, again,
  \* the environment's budget
  restarts, cancels, retries, outages, blips, overlaps

row == <<status, reason, due>>
counts == <<sentCount, failedCount>>
people == <<rcpt, attempt>>
memory == <<shutting, fatal, inFlight, streak>>
lanes == <<stage, err, idle, defers, media>>
runVars == <<phase, lanes, canceled, pending>>
requests == <<cancelling, owed, parked, resuming>>
history == <<accepted, again>>
budget == <<restarts, cancels, retries, outages, blips>>
env == <<budget, overlaps>>
vars == <<row, counts, people, memory, runVars, requests, history, env>>

Terminal == {"completed", "failed", "canceled"}
Statuses == {"scheduled", "queued", "running", "paused"} \cup Terminal
Reasons == {"none", "not_connected", "credentials", "template", "rate_limited",
            "abuse_warning", "shutdown"}
\* off: no such run.  starting: startBroadcast awaits its lookup.  preflight:
\* runBroadcast read the row.  rows, count: fail() has to fail the recipients,
\* and to count them.
\* loading: claimed.  lanes: the lane loop.  catch: a lane threw.  zombie: the
\* run is over but lanes of it are not.
Phases == {"off", "starting", "preflight", "rows", "count", "loading", "lanes", "catch", "zombie"}
\* out: not in this run.  page: in the run's queue.  The rest: in a lane.
Stages == {"out", "page", "held", "calling", "byId", "backoff", "link", "landed",
           "stamped", "recount", "failing", "parking"}

TypeOK ==
  /\ status \in Statuses /\ reason \in Reasons /\ due \in BOOLEAN
  /\ sentCount \in 0..Cardinality(Recipients) /\ failedCount \in Nat
  /\ rcpt \in [Recipients -> {"queued", "sent", "failed", "stopped"}]
  /\ attempt \in [Recipients -> {"none", "open", "done"}]
  /\ shutting \in BOOLEAN /\ fatal \in BOOLEAN
  /\ inFlight \in Runs \cup {NoRun} /\ streak \in 0..Threshold
  /\ phase \in [Runs -> Phases]
  /\ stage \in [Runs -> [Recipients -> Stages]]
  /\ err \in [Runs -> [Recipients -> SendErrors \cup {"none"}]]
  /\ idle \in [Runs -> 0..Lanes] /\ canceled \in [Runs -> BOOLEAN]
  /\ pending \in [Runs -> [sent : Nat, failed : Nat]]
  /\ defers \in [Runs -> [Recipients -> 0..MaxDefers]]
  /\ media \in [Runs -> BOOLEAN]
  /\ cancelling \in BOOLEAN /\ owed \in [Runs \cup {NoRun} -> Nat] /\ parked \in Statuses \cup {"none"}
  /\ resuming \in [by : {"nobody", "auto", "team"}, abuse : BOOLEAN]
  /\ accepted \in [Recipients -> Nat] /\ again \subseteq Recipients
  /\ restarts \in 0..MaxRestarts /\ cancels \in 0..MaxCancels
  /\ retries \in 0..MaxRetries /\ outages \in 0..MaxTemplate /\ blips \in 0..MaxBlips
  /\ overlaps \in 0..MaxOverlaps

InStatus(s) == {r \in Recipients : rcpt[r] = s}
\* Recipients a lane of run k holds.
Busy(k) == {r \in Recipients : stage[k][r] \notin {"out", "page"}}
Drained(k) == idle[k] = 0 /\ Busy(k) = {}
Minus(a, b) == IF a > b THEN a - b ELSE 0      \* GREATEST(0, a - b)
Eventful == restarts + cancels + retries + outages + blips < MaxEvents
Blip == Eventful /\ blips < MaxBlips /\ blips' = blips + 1

Nothing == [r \in Recipients |-> "out"]
NoErrors == [r \in Recipients |-> "none"]
NoDefers == [r \in Recipients |-> 0]
Nobody == [by |-> "nobody", abuse |-> FALSE]
NoBumps == [sent |-> 0, failed |-> 0]

\* A campaign created for later; one created to go now is one that is due.
Init ==
  /\ status = "scheduled" /\ reason = "none" /\ due = FALSE
  /\ sentCount = 0 /\ failedCount = 0
  /\ rcpt = [r \in Recipients |-> "queued"] /\ attempt = [r \in Recipients |-> "none"]
  /\ shutting = FALSE /\ fatal = FALSE /\ inFlight = NoRun /\ streak = 0
  /\ phase = [k \in Runs |-> "off"]
  /\ stage = [k \in Runs |-> Nothing] /\ err = [k \in Runs |-> NoErrors]
  /\ idle = [k \in Runs |-> 0] /\ canceled = [k \in Runs |-> FALSE]
  /\ pending = [k \in Runs |-> NoBumps] /\ defers = [k \in Runs |-> NoDefers]
  /\ media = [k \in Runs |-> FALSE]
  /\ cancelling = FALSE /\ owed = [x \in Runs \cup {NoRun} |-> 0] /\ parked = "none" /\ resuming = Nobody
  /\ accepted = [r \in Recipients |-> 0] /\ again = {}
  /\ restarts = 0 /\ cancels = 0 /\ retries = 0 /\ outages = 0 /\ blips = 0 /\ overlaps = 0

-----------------------------------------------------------------------------
(* Starting a run.                                                         *)

\* A call of startBroadcast up to its first await: refused while shutting down
\* or when the run is registered already.
Kick ==
  IF shutting \/ inFlight # NoRun THEN UNCHANGED <<phase, overlaps>>
  ELSE /\ \E k \in Runs : phase[k] = "off"
       /\ IF \A k \in Runs : phase[k] = "off" THEN UNCHANGED overlaps
          ELSE overlaps < MaxOverlaps /\ overlaps' = overlaps + 1
       /\ phase' = [phase EXCEPT ![CHOOSE k \in Runs : phase[k] = "off"] = "starting"]

\* Mutant: the entry of inFlightRuns outlives the run.
EndLeaks(k) ==
  /\ phase' = [phase EXCEPT ![k] = "off"]
  /\ stage' = [stage EXCEPT ![k] = Nothing]
  /\ canceled' = [canceled EXCEPT ![k] = FALSE]
  /\ defers' = [defers EXCEPT ![k] = NoDefers]
  /\ media' = [media EXCEPT ![k] = FALSE]
  /\ UNCHANGED <<err, idle, pending, inFlight>>

\* The end of runBroadcast: the entry of inFlightRuns goes, whoever's it is.
End(k) ==
  /\ phase' = [phase EXCEPT ![k] = "off"]
  /\ inFlight' = NoRun
  /\ stage' = [stage EXCEPT ![k] = Nothing]
  /\ canceled' = [canceled EXCEPT ![k] = FALSE]
  /\ defers' = [defers EXCEPT ![k] = NoDefers]
  /\ media' = [media EXCEPT ![k] = FALSE]
  /\ UNCHANGED <<err, idle, pending>>

\* The lookup returned: a queued row is registered and runBroadcast reads it,
\* which drops a breaker flag left behind.
Start(k) ==
  /\ phase[k] = "starting"
  /\ IF status = "queued"
     THEN /\ phase' = [phase EXCEPT ![k] = "preflight"]
          /\ inFlight' = k /\ fatal' = FALSE
     ELSE phase' = [phase EXCEPT ![k] = "off"] /\ UNCHANGED <<inFlight, fatal>>
  /\ UNCHANGED <<row, counts, people, shutting, streak, lanes, canceled, pending,
                 requests, history, env>>

\* queued -> running; a run that lost the row ends.
Claim(k) ==
  /\ phase[k] = "preflight"
  /\ IF status = "queued"
     THEN /\ status' = "running" /\ phase' = [phase EXCEPT ![k] = "loading"]
          /\ media' = [media EXCEPT ![k] = UsesMedia]
          /\ UNCHANGED <<inFlight, stage, err, idle, defers, canceled, pending>>
     ELSE End(k) /\ UNCHANGED status
  /\ UNCHANGED <<reason, due, counts, people, shutting, fatal, streak, requests, history, env>>

\* The sending account is not connected: queued -> paused.
NotConnected(k) ==
  /\ phase[k] = "preflight"
  /\ IF status = "queued" THEN status' = "paused" /\ reason' = "not_connected"
     ELSE UNCHANGED <<status, reason>>
  /\ End(k)
  /\ UNCHANGED <<due, counts, people, shutting, fatal, streak, requests, history, env>>

\* fail(): a cap, mode or template check refuses the run, unless the row became
\* terminal since it was read.
FailRun(k) ==
  /\ phase[k] = "preflight"
  /\ IF status \in Terminal THEN End(k) /\ UNCHANGED status
     ELSE /\ status' = "failed" /\ phase' = [phase EXCEPT ![k] = "rows"]
          /\ UNCHANGED <<inFlight, lanes, canceled, pending>>
  /\ UNCHANGED <<reason, due, counts, people, shutting, fatal, streak, requests, history, env>>

\* fail(), second part: the queued recipients fail with the run.
FailRows(k) ==
  /\ phase[k] = "rows"
  /\ rcpt' = [r \in Recipients |-> IF rcpt[r] = "queued" THEN "failed" ELSE rcpt[r]]
  /\ owed' = [owed EXCEPT ![k] = Cardinality(InStatus("queued"))]
  /\ phase' = [phase EXCEPT ![k] = "count"]
  /\ UNCHANGED <<row, counts, attempt, memory, lanes, canceled, pending, cancelling, parked, resuming,
                 history, env>>

\* fail(), last part: failedCount grows by the rows just flipped.
FailCount(k) ==
  /\ phase[k] = "count"
  /\ failedCount' = failedCount + owed[k] /\ owed' = [owed EXCEPT ![k] = 0]
  /\ End(k)
  /\ UNCHANGED <<row, sentCount, people, shutting, fatal, streak, cancelling, parked, resuming,
                 history, env>>

\* The first page is read and the lanes start.
Load(k) ==
  /\ phase[k] = "loading"
  /\ phase' = [phase EXCEPT ![k] = "lanes"]
  /\ stage' = [stage EXCEPT ![k] =
                 [r \in Recipients |-> IF rcpt[r] = "queued" THEN "page" ELSE "out"]]
  /\ LET n == Cardinality(InStatus("queued"))
     IN  idle' = [idle EXCEPT ![k] = IF n < Lanes THEN n ELSE Lanes]
  /\ UNCHANGED <<row, counts, people, memory, err, defers, media, canceled, pending,
                 requests, history, env>>

\* The first page cannot be read: outside the try, so the row stays running.
LoadFails(k) ==
  /\ phase[k] = "loading"
  /\ Blip
  /\ End(k)
  /\ UNCHANGED <<row, counts, people, shutting, fatal, streak, requests, history,
                 restarts, cancels, retries, outages, overlaps>>

-----------------------------------------------------------------------------
(* The lane loop.                                                          *)

To(k, r, s) == stage' = [stage EXCEPT ![k][r] = s]
\* The lane is done with r and returns to its loop head.
Leave(k, r, s) ==
  /\ stage' = [stage EXCEPT ![k][r] = s] /\ idle' = [idle EXCEPT ![k] = @ + 1]
  /\ err' = [err EXCEPT ![k][r] = "none"]
Bumped(k, c) == pending' = [pending EXCEPT ![k][c] = @ + 1]

\* checkCanceled: polled at most every two seconds, and sticky.
PollCanceled(k) ==
  /\ idle[k] > 0 /\ status = "canceled" /\ ~canceled[k]
  /\ canceled' = [canceled EXCEPT ![k] = TRUE]
  /\ UNCHANGED <<row, counts, people, memory, phase, lanes, pending, requests, history, env>>

\* A lane leaves its loop: canceled, breaker, shutdown, or nothing left to pull.
LaneExits(k) ==
  /\ idle[k] > 0
  /\ canceled[k] \/ fatal \/ shutting \/ \A r \in Recipients : stage[k][r] # "page"
  /\ idle' = [idle EXCEPT ![k] = @ - 1]
  /\ UNCHANGED <<row, counts, people, memory, phase, stage, err, defers, media, canceled,
                 pending, requests, history, env>>

\* A lane takes the next recipient of the run's queue; a check before the claim
\* may skip it: deleted, opted out, blocked, outside the window, an empty variable.
Pull(k, r) ==
  /\ idle[k] > 0 /\ stage[k][r] = "page"
  /\ ~canceled[k] /\ ~fatal /\ ~shutting
  /\ To(k, r, "held") \/ To(k, r, "failing")
  /\ idle' = [idle EXCEPT ![k] = @ - 1]
  /\ UNCHANGED <<row, counts, people, memory, phase, err, defers, media, canceled, pending,
                 requests, history, env>>

\* Mutant: an open attempt is claimed again, and the message sent again.
ClaimAttemptRetakes(k, r) ==
  /\ stage[k][r] = "held" /\ attempt[r] # "done"
  /\ attempt' = [attempt EXCEPT ![r] = "open"] /\ To(k, r, "calling")
  /\ UNCHANGED <<row, counts, rcpt, memory, phase, idle, err, defers, media, canceled,
                 pending, requests, history, env>>

\* Mutant: an open attempt is taken for a finished send.
ClaimAttemptTrusts(k, r) ==
  /\ stage[k][r] = "held"
  /\ \/ /\ attempt[r] = "none"
        /\ attempt' = [attempt EXCEPT ![r] = "open"] /\ To(k, r, "calling")
     \/ attempt[r] # "none" /\ To(k, r, "stamped") /\ UNCHANGED attempt
  /\ UNCHANGED <<row, counts, rcpt, memory, phase, idle, err, defers, media, canceled,
                 pending, requests, history, env>>

\* claimBroadcastSendAttempt: a free row is claimed, a stamped one reconciles,
\* an open one (or a failed claim) fails the recipient without a call.
ClaimAttempt(k, r) ==
  /\ stage[k][r] = "held"
  /\ \/ /\ attempt[r] = "none" /\ attempt' = [attempt EXCEPT ![r] = "open"]
        /\ To(k, r, IF media[k] THEN "byId" ELSE "calling") /\ UNCHANGED blips
     \/ attempt[r] = "done" /\ To(k, r, "stamped") /\ UNCHANGED <<attempt, blips>>
     \/ attempt[r] = "open" /\ To(k, r, "failing") /\ UNCHANGED <<attempt, blips>>
     \/ Blip /\ To(k, r, "failing") /\ UNCHANGED attempt
  /\ UNCHANGED <<row, counts, rcpt, memory, phase, idle, err, defers, media, canceled,
                 pending, requests, history, restarts, cancels, retries, outages, overlaps>>

InCall == {"calling", "byId", "backoff", "link"}
Takes(r) == accepted' = [accepted EXCEPT ![r] = @ + 1]

\* The provider accepted and the answer arrived: the error streak ends.
CallLands(k, r) ==
  /\ stage[k][r] \in InCall
  /\ Takes(r) /\ streak' = 0 /\ To(k, r, "landed")
  /\ UNCHANGED <<row, counts, people, shutting, fatal, inFlight, phase, idle, err, defers,
                 media, canceled, pending, requests, again, env>>

\* What an error answer says, or hides, of the message.
Answered(r, e) ==
  /\ IF e = "lost" THEN Takes(r) \/ UNCHANGED accepted ELSE UNCHANGED accepted
  /\ again' = IF e = "lost" THEN again \cup {r} ELSE again

\* The call ended with an error that is met in the lane: a rate limit is retried
\* once, an error of a send by media id is retried over the link and ends the use
\* of the id.
CallRetries(k, r, e) ==
  /\ stage[k][r] \in {"calling", "byId"}
  /\ \/ e \in {"rate", "pair"} /\ To(k, r, "backoff") /\ UNCHANGED media
     \/ /\ e \notin {"rate", "pair"} /\ stage[k][r] = "byId"
        /\ To(k, r, "link") /\ media' = [media EXCEPT ![k] = FALSE]
  /\ Answered(r, e)
  /\ UNCHANGED <<row, counts, people, memory, phase, idle, err, defers, canceled, pending,
                 requests, env>>

\* pauseForSustainedRateLimit and the breakers claim FATAL_PAUSE first; the lane
\* that finds it taken leaves the pause to its owner.
Trip(k, r, e, s) ==
  IF fatal THEN Leave(k, r, s) /\ UNCHANGED fatal
  ELSE /\ fatal' = TRUE /\ To(k, r, "parking")
       /\ err' = [err EXCEPT ![k][r] = e] /\ UNCHANGED idle

\* The call ended with any other error, or its retry did: the attempt row is given
\* back (a failure of that is swallowed).  Then a sustained rate limit parks the
\* campaign with r still queued, a pair limit puts r back until its last deferral,
\* and the rest fails r.  After a retry over the link a limit is a plain failure.
CallFails(k, r, e) ==
  /\ stage[k][r] \in InCall \ {"byId"}
  /\ stage[k][r] = "calling" => e \notin {"rate", "pair"}
  /\ Answered(r, e)
  /\ \/ attempt' = [attempt EXCEPT ![r] = "none"] /\ UNCHANGED blips
     \/ Blip /\ UNCHANGED attempt
  /\ LET limited == stage[k][r] # "link"
         Fails(x) == /\ To(k, r, "failing") /\ err' = [err EXCEPT ![k][r] = x]
                     /\ UNCHANGED <<idle, fatal, defers>>
     IN  \/ e = "rate" /\ limited /\ Trip(k, r, e, "out") /\ UNCHANGED defers
         \/ /\ e = "pair" /\ limited /\ defers[k][r] < MaxDefers
            /\ Leave(k, r, "page") /\ defers' = [defers EXCEPT ![k][r] = @ + 1]
            /\ UNCHANGED fatal
         \/ e = "pair" /\ limited /\ defers[k][r] = MaxDefers /\ Fails("none")
         \/ /\ e \notin {"rate", "pair"} \/ ~limited
            /\ Fails(IF e \in {"rate", "pair"} THEN "plain" ELSE e)
  /\ UNCHANGED <<row, counts, rcpt, shutting, inFlight, streak, phase, media, canceled,
                 pending, requests, restarts, cancels, retries, outages, overlaps>>

\* failRecipientAndCount: queued -> failed, counted only when it flipped; then
\* maybeTripPermanentBreaker judges the error of the call, if there was one.
Fail(k, r) ==
  /\ stage[k][r] = "failing"
  /\ IF rcpt[r] = "queued"
     THEN rcpt' = [rcpt EXCEPT ![r] = "failed"] /\ Bumped(k, "failed")
     ELSE UNCHANGED <<rcpt, pending>>
  /\ LET e == err[k][r]
         dead == e \in {"credentials", "template"}
     IN  \/ e = "none" /\ Leave(k, r, "out") /\ UNCHANGED <<fatal, streak>>
         \/ e \in {"plain", "lost"} /\ streak' = 0 /\ Leave(k, r, "out") /\ UNCHANGED fatal
         \/ e = "abuse" /\ Trip(k, r, e, "out") /\ UNCHANGED streak
         \/ /\ dead /\ streak + 1 < Threshold
            /\ streak' = streak + 1 /\ Leave(k, r, "out") /\ UNCHANGED fatal
         \/ /\ dead /\ streak + 1 >= Threshold
            /\ streak' = Threshold /\ Trip(k, r, e, "out")
  /\ UNCHANGED <<row, counts, attempt, shutting, inFlight, phase, defers, media, canceled,
                 requests, history, env>>

ReasonOf(e) ==
  CASE e = "rate" -> "rate_limited" [] e = "abuse" -> "abuse_warning"
    [] e = "template" -> "template" [] OTHER -> "credentials"

\* The lane that took FATAL_PAUSE parks a campaign that is still running.
Park(k, r) ==
  /\ stage[k][r] = "parking"
  /\ IF status = "running"
     THEN status' = "paused" /\ reason' = ReasonOf(err[k][r])
     ELSE UNCHANGED <<status, reason>>
  /\ Leave(k, r, "out")
  /\ UNCHANGED <<due, counts, people, memory, phase, defers, media, canceled, pending,
                 requests, history, env>>

\* completeBroadcastSendAttempt: stamps the row, if there still is one.
Stamp(k, r) ==
  /\ stage[k][r] = "landed"
  /\ attempt' = [attempt EXCEPT ![r] = IF @ = "none" THEN @ ELSE "done"]
  /\ To(k, r, "stamped")
  /\ UNCHANGED <<row, counts, rcpt, memory, phase, idle, err, defers, media, canceled,
                 pending, requests, accepted, again, env>>

\* Mutant: the send is counted though its update moved no row.
LockCounts(k, r) ==
  /\ stage[k][r] = "stamped"
  /\ rcpt' = [rcpt EXCEPT ![r] = IF @ = "queued" THEN "sent" ELSE @]
  /\ Bumped(k, "sent") /\ Leave(k, r, "out")
  /\ UNCHANGED <<row, counts, attempt, memory, phase, defers, media, canceled, requests,
                 history, env>>

\* queued -> sent, or stopped -> sent when cancel() came in between; a row that
\* is neither is left to whoever moved it.
Lock(k, r) ==
  /\ stage[k][r] = "stamped"
  /\ \/ /\ rcpt[r] = "queued" /\ rcpt' = [rcpt EXCEPT ![r] = "sent"]
        /\ Bumped(k, "sent") /\ Leave(k, r, "out")
     \/ /\ rcpt[r] = "stopped" /\ rcpt' = [rcpt EXCEPT ![r] = "sent"]
        /\ To(k, r, "recount") /\ UNCHANGED <<idle, err, pending>>
     \/ /\ rcpt[r] \in {"sent", "failed"}
        /\ Leave(k, r, "out") /\ UNCHANGED <<rcpt, pending>>
  /\ UNCHANGED <<row, counts, attempt, memory, phase, defers, media, canceled, requests,
                 history, env>>

\* reconcileCancelRaceCounters: one unit moves from failed to sent; its error is
\* logged and the unit lost.
Recount(k, r) ==
  /\ stage[k][r] = "recount"
  /\ \/ /\ sentCount' = sentCount + 1 /\ failedCount' = Minus(failedCount, 1)
        /\ UNCHANGED blips
     \/ Blip /\ UNCHANGED counts
  /\ Leave(k, r, "out")
  /\ UNCHANGED <<row, people, memory, phase, defers, media, canceled, pending, requests,
                 history, restarts, cancels, retries, outages, overlaps>>

\* A counter bump of the run reaches the database, or fails and is lost.
Bump(k) ==
  /\ \E c \in {"sent", "failed"} :
       /\ pending[k][c] > 0 /\ pending' = [pending EXCEPT ![k][c] = @ - 1]
       /\ \/ /\ sentCount' = sentCount + (IF c = "sent" THEN 1 ELSE 0)
             /\ failedCount' = failedCount + (IF c = "failed" THEN 1 ELSE 0)
             /\ UNCHANGED blips
          \/ Blip /\ UNCHANGED counts
  /\ UNCHANGED <<row, people, memory, phase, lanes, canceled, requests, history,
                 restarts, cancels, retries, outages, overlaps>>

\* A database call of a lane fails for good and the error leaves the lane; the
\* other lanes of the run go on.
LaneThrows(k, r) ==
  /\ stage[k][r] \in {"landed", "stamped", "failing", "parking"}
  /\ Blip
  /\ stage' = [stage EXCEPT ![k][r] = "out"] /\ err' = [err EXCEPT ![k][r] = "none"]
  /\ phase' = [phase EXCEPT ![k] = IF phase[k] = "lanes" THEN "catch" ELSE @]
  /\ UNCHANGED <<row, counts, people, memory, idle, defers, media, canceled, pending,
                 requests, history, restarts, cancels, retries, outages, overlaps>>

\* So does the cancel poll or the refill at a loop head, or an update of the tail.
LoopThrows(k) ==
  /\ idle[k] > 0 \/ (phase[k] = "lanes" /\ Drained(k) /\ pending[k] = NoBumps)
  /\ Blip
  /\ idle' = [idle EXCEPT ![k] = Minus(@, 1)]
  /\ phase' = [phase EXCEPT ![k] = IF phase[k] = "lanes" THEN "catch" ELSE @]
  /\ UNCHANGED <<row, counts, people, memory, stage, err, defers, media, canceled, pending,
                 requests, history, restarts, cancels, retries, outages, overlaps>>

\* The catch of runBroadcast parks the campaign, its finally drops the breaker
\* state, and the run's promise ends while its other lanes may still work.
Catch(k) ==
  /\ phase[k] = "catch"
  /\ IF status = "running" THEN status' = "paused" /\ reason' = "credentials"
     ELSE UNCHANGED <<status, reason>>
  /\ streak' = 0 /\ fatal' = FALSE /\ inFlight' = NoRun
  /\ phase' = [phase EXCEPT ![k] = "zombie"]
  /\ UNCHANGED <<due, counts, people, shutting, lanes, canceled, pending, requests, history, env>>

\* The last lane of such a run ends.
ZombieEnds(k) ==
  /\ phase[k] = "zombie" /\ Drained(k) /\ pending[k] = NoBumps
  /\ phase' = [phase EXCEPT ![k] = "off"] /\ stage' = [stage EXCEPT ![k] = Nothing]
  /\ canceled' = [canceled EXCEPT ![k] = FALSE] /\ defers' = [defers EXCEPT ![k] = NoDefers]
  /\ media' = [media EXCEPT ![k] = FALSE]
  /\ UNCHANGED <<row, counts, people, memory, idle, err, pending, requests, history, env>>

\* Every lane is out and every bump is written: a canceled or a broken-off run
\* leaves the row alone, a shutdown parks it, and the rest is finished, failed
\* when every recipient failed.  Each update holds for a running row only.
Outcome(k) ==
  IF shutting THEN "paused"
  ELSE IF Recipients # {} /\ failedCount >= Cardinality(Recipients) THEN "failed"
  ELSE "completed"
\* Mutant: the outcome overwrites whatever the row became.
TailBlind(k) ==
  /\ phase[k] = "lanes" /\ Drained(k) /\ pending[k] = NoBumps
  /\ status' = Outcome(k) /\ fatal' = FALSE /\ streak' = 0
  /\ End(k)
  /\ UNCHANGED <<reason, due, counts, people, shutting, requests, history, env>>

Tail(k) ==
  /\ phase[k] = "lanes" /\ Drained(k) /\ pending[k] = NoBumps
  /\ IF ~canceled[k] /\ ~fatal /\ status = "running"
     THEN /\ status' = Outcome(k)
          /\ reason' = IF shutting THEN "shutdown" ELSE reason
     ELSE UNCHANGED <<status, reason>>
  /\ fatal' = FALSE /\ streak' = 0
  /\ End(k)
  /\ UNCHANGED <<due, counts, people, shutting, requests, history, env>>

-----------------------------------------------------------------------------
(* The operator, Meta's template webhook, the sweeper and the process.     *)

TimePasses ==
  /\ ~due /\ due' = TRUE
  /\ UNCHANGED <<status, reason, counts, people, memory, runVars, requests, history, env>>

\* fireScheduled: scheduled -> queued, then the run; a job redelivered after a
\* crash in between only starts the run (as the sweeper does).
FireScheduled ==
  /\ status = "scheduled" /\ due
  /\ status' = "queued" /\ Kick
  /\ UNCHANGED <<reason, due, counts, people, memory, lanes, canceled, pending, requests,
                 history, budget>>

\* cancel(), first update.
Cancel ==
  /\ status \notin Terminal /\ ~cancelling /\ owed[NoRun] = 0
  /\ Eventful /\ cancels < MaxCancels /\ cancels' = cancels + 1
  /\ status' = "canceled" /\ cancelling' = TRUE
  /\ UNCHANGED <<reason, due, counts, people, memory, runVars, owed, parked, resuming, accepted, again,
                 restarts, retries, outages, blips, overlaps>>

\* cancel(), second update: queued recipients with no attempt row are stopped.
CancelRows ==
  /\ cancelling
  /\ LET gone == {r \in InStatus("queued") : attempt[r] = "none"}
     IN  /\ rcpt' = [r \in Recipients |-> IF r \in gone THEN "stopped" ELSE rcpt[r]]
         /\ owed' = [owed EXCEPT ![NoRun] = Cardinality(gone)]
  /\ cancelling' = FALSE
  /\ UNCHANGED <<row, counts, attempt, memory, runVars, parked, resuming, history, env>>

\* cancel(), last update: they are counted.
CancelCount ==
  /\ owed[NoRun] > 0
  /\ failedCount' = failedCount + owed[NoRun] /\ owed' = [owed EXCEPT ![NoRun] = 0]
  /\ UNCHANGED <<row, sentCount, people, memory, runVars, cancelling, parked, resuming, history, env>>

\* retryFailed: one transaction re-queues the failed recipients (never a stopped
\* one), deletes their attempt rows and re-opens the campaign.
RetryFailed ==
  /\ status \in Terminal /\ InStatus("failed") # {}
  /\ Eventful /\ retries < MaxRetries /\ retries' = retries + 1
  /\ rcpt' = [r \in Recipients |-> IF rcpt[r] = "failed" THEN "queued" ELSE rcpt[r]]
  /\ attempt' = [r \in Recipients |-> IF rcpt[r] = "failed" THEN "none" ELSE attempt[r]]
  /\ failedCount' = Minus(failedCount, Cardinality(InStatus("failed")))
  /\ again' = again \cup InStatus("failed")
  /\ status' = "queued" /\ Kick
  /\ UNCHANGED <<reason, due, sentCount, memory, lanes, canceled, pending, requests, accepted,
                 restarts, cancels, outages, blips>>

\* paused -> scheduled when the fire time is still ahead, else -> queued and run.
ResumeRow ==
  \/ ~due /\ status' = "scheduled" /\ UNCHANGED <<phase, overlaps>>
  \/ due /\ status' = "queued" /\ Kick

\* resumeBroadcastManually: the operator lifts any pause.
ResumeManually ==
  /\ status = "paused"
  /\ ResumeRow
  /\ UNCHANGED <<reason, due, counts, people, memory, lanes, canceled, pending, requests,
                 accepted, again, budget>>

\* resumePausedBroadcasts: a campaign with nobody left is completed instead.
AutoResume ==
  IF due /\ InStatus("queued") = {} THEN status' = "completed" /\ UNCHANGED <<phase, overlaps>>
  ELSE ResumeRow

\* A resume reads the paused rows it may lift, and updates them afterwards.
Select(who) ==
  /\ status = "paused" /\ resuming = Nobody
  /\ resuming' = [by |-> who, abuse |-> reason = "abuse_warning"]
  /\ UNCHANGED <<row, counts, people, shutting, inFlight, streak, runVars, cancelling, owed,
                 parked, history, env>>

\* Mutant: a credential pause is left to somebody else.
SelectCooledFewer ==
  /\ reason \notin {"abuse_warning", "template", "credentials"}
  /\ Select("auto") /\ UNCHANGED fatal

\* The drift sweeper, past the cooldown: neither an abuse nor a template pause.
SelectCooled ==
  /\ reason \notin {"abuse_warning", "template"}
  /\ Select("auto") /\ UNCHANGED fatal

\* resumeBroadcastsForTemplate: the template is approved again.
TemplateUp == reason = "template" /\ fatal' = FALSE /\ Select("auto")

\* Mutant: a settings save lifts every pause.
SelectForTeamAll == InStatus("queued") # {} /\ Select("team") /\ UNCHANGED fatal

\* resumePausedBroadcastsForTeam, after a settings save.
SelectForTeam ==
  /\ reason # "abuse_warning" /\ InStatus("queued") # {}
  /\ Select("team") /\ UNCHANGED fatal

\* The row of a selection is resumed if it is (still, or again) paused.
ResumeSelected ==
  /\ resuming # Nobody /\ resuming' = Nobody
  /\ \/ status # "paused" /\ UNCHANGED <<status, phase, overlaps>>
     \/ status = "paused" /\ resuming.by = "auto" /\ AutoResume
     \/ status = "paused" /\ resuming.by = "team" /\ status' = "queued" /\ Kick
  /\ UNCHANGED <<reason, due, counts, people, memory, lanes, canceled, pending, cancelling,
                 owed, parked, history, budget>>

\* pauseBroadcastsForTemplate: reads the status, stops the lanes of a running
\* campaign, then pauses the row if the status is still the one it read.
TemplateDown ==
  /\ parked = "none" /\ status \in {"running", "queued", "scheduled"}
  /\ Eventful /\ outages < MaxTemplate /\ outages' = outages + 1
  /\ parked' = status /\ fatal' = (fatal \/ status = "running")
  /\ UNCHANGED <<row, counts, people, shutting, inFlight, streak, runVars, cancelling, owed, resuming,
                 history, restarts, cancels, retries, blips, overlaps>>
TemplatePark ==
  /\ parked # "none" /\ parked' = "none"
  /\ IF status = parked THEN status' = "paused" /\ reason' = "template"
     ELSE UNCHANGED <<status, reason>>
  /\ UNCHANGED <<due, counts, people, memory, runVars, cancelling, owed, resuming, history, env>>

\* The drift sweeper finds a queued row: startBroadcast once more.
SweepQueued ==
  /\ status = "queued" /\ Kick
  /\ UNCHANGED <<row, counts, people, memory, lanes, canceled, pending, requests, history, budget>>

\* Mutant: only recipients a crash left with an open attempt are stopped.
StopLeftoversOpen ==
  /\ status = "canceled"
  /\ LET gone == {r \in InStatus("queued") : attempt[r] = "open"}
     IN  /\ gone # {}
         /\ rcpt' = [r \in Recipients |-> IF r \in gone THEN "stopped" ELSE rcpt[r]]
         /\ failedCount' = failedCount + Cardinality(gone)
  /\ UNCHANGED <<row, sentCount, attempt, memory, runVars, requests, history, env>>

\* reconcileCanceledMarkerRecipients, first: queued recipients of a canceled
\* campaign without a stamped attempt are stopped and counted in one statement.
StopLeftovers ==
  /\ status = "canceled"
  /\ LET gone == {r \in InStatus("queued") : attempt[r] # "done"}
     IN  /\ gone # {}
         /\ rcpt' = [r \in Recipients |-> IF r \in gone THEN "stopped" ELSE rcpt[r]]
         /\ failedCount' = failedCount + Cardinality(gone)
  /\ UNCHANGED <<row, sentCount, attempt, memory, runVars, requests, history, env>>

\* Mutant: recipients already sent are recovered too.
RecoverSentTwice(r) ==
  /\ status = "canceled" /\ attempt[r] = "done"
  /\ rcpt' = [rcpt EXCEPT ![r] = "sent"]
  /\ sentCount' = sentCount + 1 /\ failedCount' = Minus(failedCount, 1)
  /\ UNCHANGED <<row, attempt, memory, runVars, requests, history, env>>

\* Then a recipient whose attempt is stamped is sent, whatever it is recorded as.
RecoverSent(r) ==
  /\ status = "canceled" /\ attempt[r] = "done" /\ rcpt[r] \in {"stopped", "queued"}
  /\ rcpt' = [rcpt EXCEPT ![r] = "sent"]
  /\ sentCount' = IF rcpt[r] = "stopped" \/ sentCount < Cardinality(Recipients)
                  THEN sentCount + 1 ELSE sentCount
  /\ failedCount' = IF rcpt[r] = "stopped" THEN Minus(failedCount, 1) ELSE failedCount
  /\ UNCHANGED <<row, attempt, memory, runVars, requests, history, env>>

\* signalShutdown: no new run, and the lanes stop after their recipient.
Shutdown ==
  /\ ~shutting /\ Eventful /\ restarts < MaxRestarts /\ restarts' = restarts + 1
  /\ shutting' = TRUE
  /\ UNCHANGED <<row, counts, people, fatal, inFlight, streak, runVars, requests, history,
                 cancels, retries, outages, blips, overlaps>>

\* The process dies, by a crash or at the end of its shutdown: calls under way
\* may have reached the provider, and memory is gone.
Die ==
  /\ \E taken \in SUBSET {r \in Recipients : \E k \in Runs : stage[k][r] \in InCall} :
       accepted' = [r \in Recipients |-> IF r \in taken THEN accepted[r] + 1 ELSE accepted[r]]
  /\ shutting' = FALSE /\ fatal' = FALSE /\ inFlight' = NoRun /\ streak' = 0
  /\ stage' = [k \in Runs |-> Nothing] /\ err' = [k \in Runs |-> NoErrors]
  /\ idle' = [k \in Runs |-> 0] /\ canceled' = [k \in Runs |-> FALSE]
  /\ pending' = [k \in Runs |-> NoBumps] /\ defers' = [k \in Runs |-> NoDefers]
  /\ media' = [k \in Runs |-> FALSE]
  /\ cancelling' = FALSE /\ owed' = [x \in Runs \cup {NoRun} |-> 0] /\ parked' = "none"
  /\ resuming' = Nobody

\* reconcileOrphanedBroadcasts, before the process serves anything: a running
\* row is paused, every pause but the abuse one is resumed, and a queued row
\* gets a run.
BootRow ==
  LET was == IF status = "running" THEN "paused" ELSE status
      why == IF status = "running" THEN "shutdown" ELSE reason
  IN  /\ reason' = why
      /\ status' = IF was = "paused" /\ why # "abuse_warning"
                   THEN IF ~due THEN "scheduled"
                        ELSE IF InStatus("queued") = {} THEN "completed" ELSE "queued"
                   ELSE was
Restart ==
  /\ \/ shutting /\ UNCHANGED restarts
     \/ ~shutting /\ Eventful /\ restarts < MaxRestarts /\ restarts' = restarts + 1
  /\ Die /\ BootRow
  /\ LET first == CHOOSE k \in Runs : TRUE
     IN  phase' = [k \in Runs |-> IF status' = "queued" /\ k = first
                                  THEN "starting" ELSE "off"]
  /\ UNCHANGED <<due, counts, people, again, cancels, retries, outages, blips, overlaps>>

-----------------------------------------------------------------------------
RunStep(k) ==
  \/ Start(k) \/ Claim(k) \/ NotConnected(k) \/ FailRun(k) \/ FailRows(k) \/ FailCount(k)
  \/ Load(k) \/ LoadFails(k) \/ Catch(k) \/ ZombieEnds(k) \/ Tail(k)
LaneStep(k, r) ==
  \/ ClaimAttempt(k, r) \/ CallLands(k, r) \/ Fail(k, r)
  \/ Park(k, r) \/ Stamp(k, r) \/ Lock(k, r) \/ Recount(k, r) \/ LaneThrows(k, r)
  \/ \E e \in Errors : CallRetries(k, r, e) \/ CallFails(k, r, e)
LoopStep(k) == PollCanceled(k) \/ LaneExits(k) \/ LoopThrows(k) \/ \E r \in Recipients : Pull(k, r)
Request == CancelRows \/ CancelCount \/ TemplatePark \/ ResumeSelected
Sweep ==
  SelectCooled \/ SweepQueued \/ StopLeftovers \/ \E r \in Recipients : RecoverSent(r)
Operator == Cancel \/ RetryFailed \/ ResumeManually \/ SelectForTeam
\* No run is alive: the campaign ended, waits for somebody, or is stranded.
Rest == (\A k \in Runs : phase[k] = "off") /\ ~shutting /\ UNCHANGED vars

Next ==
  \/ TimePasses \/ FireScheduled \/ TemplateDown \/ TemplateUp
  \/ Operator \/ Request \/ Sweep
  \/ \E k \in Runs : RunStep(k) \/ LoopStep(k) \/ Bump(k)
  \/ \E k \in Runs, r \in Recipients : LaneStep(k, r)
  \/ Shutdown \/ Restart \/ Rest

Spec == Init /\ [][Next]_vars

\* The event loop runs every continuation; provider and database calls end (they
\* have timeouts); the sweeper ticks every minute; a process told to stop is
\* restarted.  Nothing is assumed of operators, of Meta's webhooks or of crashes.
Fairness ==
  /\ \A k \in Runs :
       /\ WF_vars(RunStep(k)) /\ WF_vars(LoopStep(k)) /\ WF_vars(Bump(k))
       /\ \A r \in Recipients : WF_vars(LaneStep(k, r))
  /\ WF_vars(CancelRows) /\ WF_vars(CancelCount) /\ WF_vars(TemplatePark)
  /\ WF_vars(ResumeSelected) /\ WF_vars(SelectCooled) /\ WF_vars(SweepQueued) /\ WF_vars(StopLeftovers)
  /\ \A r \in Recipients : WF_vars(RecoverSent(r))
  /\ WF_vars(shutting /\ Restart)

FairSpec == Spec /\ Fairness

-----------------------------------------------------------------------------
(* Properties.                                                             *)

\* Nobody gets the campaign twice, whatever crashes, overlaps, is paused, resumed
\* or canceled, unless the operator retried that recipient or an error hid the
\* provider's answer (which the code takes for "nothing sent").
NoDuplicate == \A r \in Recipients : accepted[r] > 1 => r \in again

\* A recipient is recorded sent, and an attempt stamped, only when the provider
\* took the message: neither a reconciled attempt nor the repair of a canceled
\* campaign invents a send.
SentMeansAccepted ==
  \A r \in Recipients : rcpt[r] = "sent" \/ attempt[r] = "done" => accepted[r] > 0

\* sentCount never runs ahead of the recipients that are sent, whoever counts
\* them: a lane, the reconcile of a cancel race or the repair of the sweeper.
SentCountHonest == sentCount <= Cardinality(InStatus("sent"))

\* A canceled campaign stays canceled until the operator retries it: no run,
\* breaker, webhook, sweeper or boot overwrites it.
CancelSticks ==
  [][status = "canceled" /\ status' # "canceled" => status' = "queued" /\ retries' > retries]_vars

\* A pause for Meta's abuse warning is ended by the operator (resume, cancel), by a
\* run that is refused at its preflight, or by a resume that selected the row during
\* an earlier pause; no settings save, sweep, template approval or boot selects it.
AbusePauseHolds ==
  [][status = "paused" /\ reason = "abuse_warning" /\ status' \notin {"paused", "failed"}
       => Cancel \/ ResumeManually \/ (resuming # Nobody /\ ~resuming.abuse)]_vars

\* A queued campaign does not stay queued: a start that was refused, because the
\* last run was not over or the process was stopping, is made up for.
QueuedIsFired == status = "queued" ~> status # "queued"

\* A pause that nobody has to look at ends.
PauseLifts ==
  status = "paused" /\ reason \notin {"abuse_warning", "template"}
    ~> status # "paused" \/ reason \in {"abuse_warning", "template"}

\* Every recipient of a canceled campaign is settled in the end, those whose send
\* was under way and those a crash left behind included.
CanceledSettles == status = "canceled" ~> InStatus("queued") = {} \/ status # "canceled"

-----------------------------------------------------------------------------
(* What comments of the code say and the code does not do.                 *)

\* resumePausedBroadcasts: a campaign whose fire time has not arrived goes back to
\* scheduled, for running it "would blast the whole audience days early".
NeverEarly == status = "running" => due
=============================================================================
