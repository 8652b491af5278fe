------------------------------- MODULE Outbox -------------------------------
(***************************************************************************)
(* The transactional outbox of apps/api: the OutboundEvent table, the      *)
(* drainer that leases its rows and dispatches them to the subscribers     *)
(* (events/outbox-drainer.service.ts), its wedge watchdog, the synchronous *)
(* publish() path that writes rows already published (lib/events/bus.ts),  *)
(* and the retention sweep.                                                *)
(*                                                                         *)
(* Timestamps are sets: r \in publishedAt means the column is not NULL.    *)
(* Time is counted in units of one subscriber chain at its timeouts (about *)
(* 150s in the code); Lease and Watchdog are multiples of it.              *)
(***************************************************************************)
EXTENDS OutboxClaim

CONSTANTS
  Rows,         \* the rows that may be written; a row's number is its createdAt
  SyncRows,     \* those written by publish() rather than by publishInTx()
  Corrupt,      \* rows whose envelope cannot be dispatched
  TeamOf,       \* the workspace of each row
  Ticks,        \* slots for tick() activations alive at the same time
  NoTick,
  MaxClaims,    \* MAX_CLAIM_ATTEMPTS
  MaxDrains,    \* MAX_DRAINS_PER_TICK
  Lanes,        \* DISPATCH_CONCURRENCY
  StampTries,   \* attempts of markDispatchedWithRetry
  Lease,        \* OUTBOX_CLAIM_LEASE_MS, in time units
  Watchdog,     \* WATCHDOG_MS, in time units
  MaxRestarts,  \* bound on crashes and shutdowns
  MaxBlips,     \* bound on failed database writes
  MaxHangs      \* bound on database calls that never return

ASSUME OutboxAssumption ==
  /\ Rows \subseteq Nat /\ IsFiniteSet(Rows)
  /\ SyncRows \subseteq Rows /\ Corrupt \subseteq Rows \ SyncRows
  /\ IsFiniteSet(Ticks) /\ NoTick \notin Ticks
  /\ MaxClaims \in Nat \ {0} /\ MaxDrains \in Nat \ {0}
  /\ Lanes \in Nat \ {0} /\ StampTries \in Nat \ {0}
  /\ Watchdog \in Nat \ {0, 1}   \* longer than one chain
  /\ Lease \in Nat /\ Lease > Watchdog
  /\ MaxRestarts \in Nat /\ MaxBlips \in Nat /\ MaxHangs \in Nat

VARIABLES
  \* the table
  stored, publishedAt, failedAt, dispatchedAt, claimed, leaseAge, attempts,
  \* the drainer service: its process, poll timer, latch and token
  proc, timer, inflight, owner, idle,
  \* each tick() activation
  pc, drains, queue, lane, done, tries,
  \* the synchronous path: publish(), its background tier, the stamp buffer
  sync, background, stampQueue,
  \* history: rows whose chain was entered, ran to its end, reported an error
  started, ran, erred,
  \* the environment: restarts, failed writes, ticks stuck in the database
  restarts, blips, hung

tableVars == <<stored, publishedAt, failedAt, dispatchedAt, claimed, leaseAge, attempts>>
latchVars == <<timer, inflight, owner, idle>>
tickVars == <<pc, drains, queue, lane, done, tries>>
syncVars == <<sync, background, stampQueue>>
history == <<started, ran, erred>>
env == <<restarts, blips, hung>>
vars == <<tableVars, proc, latchVars, tickVars, syncVars, history, env>>

Pending == stored \ (publishedAt \cup failedAt)

\* Unclaimed, or claimed by a dispatch whose lease ran out.
Claimable == {r \in Pending : r \in claimed => leaseAge[r] = Lease}

\* Mutant: rows whose lease is still recorded escape the sweep.
ExhaustedUnclaimed == {r \in Pending : attempts[r] >= MaxClaims /\ r \notin claimed}

\* Past the claim ceiling.
Exhausted == {r \in Pending : attempts[r] >= MaxClaims}

Busy(t) == {r \in Rows : lane[t][r] # "idle"}

\* The rows an activation still works on.
Held(t) == queue[t] \cup Busy(t) \cup done[t]

Oldest(S) == {r \in S : \A s \in S : r <= s}

TableTypes ==
  /\ stored \subseteq Rows /\ publishedAt \subseteq Rows
  /\ failedAt \subseteq Rows /\ dispatchedAt \subseteq Rows
  /\ claimed \subseteq Rows
  /\ leaseAge \in [Rows -> 0..Lease]
  /\ attempts \in [Rows -> Nat]

ServiceTypes ==
  /\ proc \in {"up", "stopping", "down"}
  /\ owner \in Ticks \cup {NoTick}
  /\ idle \in 0..Watchdog

TickTypes ==
  /\ pc \in [Ticks -> {"free", "sweep", "claim", "dispatch", "stamp1", "stamp2"}]
  /\ drains \in [Ticks -> 0..MaxDrains]
  /\ queue \in [Ticks -> SUBSET Rows]
  /\ lane \in [Ticks -> [Rows -> {"idle", "chain", "late", "mark1", "mark2"}]]
  /\ done \in [Ticks -> SUBSET Rows]
  /\ tries \in [Ticks -> 0..StampTries]

SyncTypes ==
  /\ sync \in [SyncRows -> {"new", "called", "erred", "stored", "over"}]
  /\ background \in [SyncRows -> {"none", "running", "resolved"}]
  /\ stampQueue \subseteq Rows

OtherTypes ==
  /\ started \subseteq Rows /\ ran \subseteq Rows /\ erred \subseteq Rows
  /\ restarts \in 0..MaxRestarts /\ blips \in 0..MaxBlips
  /\ hung \subseteq Ticks

TypeOK ==
  /\ TableTypes /\ ServiceTypes /\ TickTypes /\ SyncTypes /\ OtherTypes
  /\ timer \in BOOLEAN /\ inflight \in BOOLEAN

Init ==
  /\ stored = {} /\ publishedAt = {} /\ failedAt = {} /\ dispatchedAt = {}
  /\ claimed = {}
  /\ leaseAge = [r \in Rows |-> 0]
  /\ attempts = [r \in Rows |-> 0]
  /\ proc = "down" /\ timer = FALSE /\ inflight = FALSE /\ owner = NoTick
  /\ idle = 0
  /\ pc = [t \in Ticks |-> "free"]
  /\ drains = [t \in Ticks |-> 0]
  /\ queue = [t \in Ticks |-> {}]
  /\ lane = [t \in Ticks |-> [r \in Rows |-> "idle"]]
  /\ done = [t \in Ticks |-> {}]
  /\ tries = [t \in Ticks |-> 0]
  /\ sync = [r \in SyncRows |-> "new"]
  /\ background = [r \in SyncRows |-> "none"]
  /\ stampQueue = {}
  /\ started = {} /\ ran = {} /\ erred = {}
  /\ restarts = 0 /\ blips = 0 /\ hung = {}

-----------------------------------------------------------------------------
(* Database writes.  A write of tick t is not made while t hangs; it may   *)
(* fail, which costs one of the MaxBlips failures.                         *)

Writes(t) == t \notin hung /\ UNCHANGED <<blips, hung>>

Fails(t) ==
  /\ t \notin hung
  /\ blips < MaxBlips
  /\ blips' = blips + 1
  /\ UNCHANGED hung

\* A call of tick t to the database never returns.  Subscriber chains have
\* their own timeouts, so only the drainer's calls can hang.
Hang(t) ==
  /\ t \notin hung
  /\ Cardinality(hung) < MaxHangs
  /\ \/ pc[t] \in {"sweep", "claim", "stamp1", "stamp2"}
     \/ \E r \in Rows : lane[t][r] \in {"mark1", "mark2"}
  /\ hung' = hung \cup {t}
  /\ UNCHANGED <<tableVars, proc, latchVars, tickVars, syncVars, history, restarts, blips>>

-----------------------------------------------------------------------------
(* Writers.                                                                *)

\* The poll timer is re-armed at once when no tick is running.
Kick == timer' = (timer \/ (proc = "up" /\ ~inflight))

\* A business transaction that called publishInTx commits, then kickOutbox().
CommitInTx(r) ==
  /\ r \in Rows \ SyncRows
  /\ r \notin stored /\ attempts[r] = 0
  /\ proc # "down"
  /\ stored' = stored \cup {r}
  /\ Kick
  /\ UNCHANGED <<publishedAt, failedAt, dispatchedAt, claimed, leaseAge, attempts,
                 proc, inflight, owner, idle, tickVars, syncVars, history, env>>

\* publish(): the realtime subscriber is called (and may throw), the background
\* tier is spawned detached, and the row is persisted only afterwards.
SyncPublish(r) ==
  /\ sync[r] = "new"
  /\ proc # "down"
  /\ \E outcome \in {"called", "erred"} : sync' = [sync EXCEPT ![r] = outcome]
  /\ background' = [background EXCEPT ![r] = "running"]
  /\ started' = started \cup {r}
  /\ UNCHANGED <<tableVars, proc, latchVars, tickVars, stampQueue, ran, erred, env>>

\* persistDispatchedRow: born published, and failed when realtime threw.
PersistRow(r) ==
  /\ sync[r] \in {"called", "erred"}
  /\ stored' = stored \cup {r}
  /\ publishedAt' = publishedAt \cup {r}
  /\ failedAt' = IF sync[r] = "erred" THEN failedAt \cup {r} ELSE failedAt
  /\ attempts' = [attempts EXCEPT ![r] = 1]
  /\ sync' = [sync EXCEPT ![r] = IF sync[r] = "erred" THEN "over" ELSE "stored"]
  /\ UNCHANGED <<dispatchedAt, claimed, leaseAge, proc, latchVars, tickVars,
                 background, stampQueue, history, env>>

\* A failed insert is swallowed: the event then has no row at all.
PersistFails(r) ==
  /\ sync[r] \in {"called", "erred"}
  /\ blips < MaxBlips
  /\ blips' = blips + 1
  /\ sync' = [sync EXCEPT ![r] = "over"]
  /\ UNCHANGED <<tableVars, proc, latchVars, tickVars, background, stampQueue, history,
                 restarts, hung>>

SyncPersist(r) == PersistRow(r) \/ PersistFails(r)

\* runBackgroundTier resolves whatever its subscribers did.
BackgroundResolves(r) ==
  /\ background[r] = "running"
  /\ background' = [background EXCEPT ![r] = "resolved"]
  /\ ran' = ran \cup {r}
  /\ erred' \in {erred, erred \cup {r}}
  /\ UNCHANGED <<tableVars, proc, latchVars, tickVars, sync, stampQueue, started, env>>

\* queueDispatchedStamp, registered after the persist and only without an error.
QueueStamp(r) ==
  /\ sync[r] = "stored"
  /\ background[r] = "resolved"
  /\ sync' = [sync EXCEPT ![r] = "over"]
  /\ stampQueue' = stampQueue \cup {r}
  /\ UNCHANGED <<tableVars, proc, latchVars, tickVars, background, history, env>>

\* The buffered stamps are written once, best effort.
WriteStamps ==
  \/ dispatchedAt' = dispatchedAt \cup (stampQueue \cap stored) /\ UNCHANGED blips
  \/ blips < MaxBlips /\ blips' = blips + 1 /\ UNCHANGED dispatchedAt

\* flushDispatchedStamps: the buffer is emptied first.
FlushStamps ==
  /\ stampQueue # {}
  /\ stampQueue' = {}
  /\ WriteStamps
  /\ UNCHANGED <<stored, publishedAt, failedAt, claimed, leaseAge, attempts, proc,
                 latchVars, tickVars, sync, background, history, restarts, hung>>

-----------------------------------------------------------------------------
(* One tick().                                                             *)

\* The poll timer fires and the latch is free.
TickStart(t) ==
  /\ pc[t] = "free"
  /\ proc = "up" /\ timer /\ ~inflight
  /\ timer' = FALSE
  /\ inflight' = TRUE
  /\ owner' = t
  /\ idle' = 0
  /\ pc' = [pc EXCEPT ![t] = "sweep"]
  /\ UNCHANGED <<tableVars, proc, drains, queue, lane, done, tries, syncVars, history, env>>

\* sweepExhaustedClaims, whose failure is ignored.
SweepExhausted(t) ==
  /\ pc[t] = "sweep"
  /\ \/ Writes(t) /\ failedAt' = failedAt \cup Exhausted
     \/ Fails(t) /\ UNCHANGED failedAt
  /\ pc' = [pc EXCEPT ![t] = "claim"]
  /\ UNCHANGED <<stored, publishedAt, dispatchedAt, claimed, leaseAge, attempts, proc,
                 latchVars, drains, queue, lane, done, tries, syncVars, history, restarts>>

\* Mutant: the latch is released without comparing the token.
FinishUnguarded(t) ==
  /\ pc' = [pc EXCEPT ![t] = "free"]
  /\ drains' = [drains EXCEPT ![t] = 0]
  /\ inflight' = FALSE /\ owner' = NoTick /\ idle' = 0
  /\ timer' = (timer \/ proc = "up")
  /\ UNCHANGED <<tableVars, queue, lane, done, tries>>

\* Mutant: the finally re-arms the poll timer outside the token comparison.
FinishRearms(t) ==
  /\ pc' = [pc EXCEPT ![t] = "free"]
  /\ drains' = [drains EXCEPT ![t] = 0]
  /\ timer' = (timer \/ proc = "up")
  /\ IF owner = t THEN inflight' = FALSE /\ owner' = NoTick /\ idle' = 0
                  ELSE UNCHANGED <<inflight, owner, idle>>
  /\ UNCHANGED <<tableVars, queue, lane, done, tries>>

\* The finally of tick(): only the activation that still owns the latch
\* releases it and re-arms the poll timer.
Finish(t) ==
  /\ pc' = [pc EXCEPT ![t] = "free"]
  /\ drains' = [drains EXCEPT ![t] = 0]
  /\ IF owner = t
       THEN /\ inflight' = FALSE
            /\ owner' = NoTick
            /\ idle' = 0
            /\ timer' = (timer \/ proc = "up")
       ELSE UNCHANGED latchVars
  /\ UNCHANGED <<tableVars, queue, lane, done, tries>>

\* claimBatch: lease the batch the selection names and count the attempt.
LeaseBatch(t, batch) ==
  /\ claimed' = claimed \cup batch
  /\ leaseAge' = [r \in Rows |-> IF r \in batch THEN 0 ELSE leaseAge[r]]
  /\ attempts' = [r \in Rows |-> IF r \in batch THEN attempts[r] + 1 ELSE attempts[r]]
  /\ queue' = [queue EXCEPT ![t] = batch]
  /\ pc' = [pc EXCEPT ![t] = "dispatch"]
  /\ UNCHANGED <<stored, publishedAt, failedAt, dispatchedAt, latchVars, drains, lane, done, tries>>

\* Mutant: one drain too many.
LoopOverLate(t) == proc = "stopping" \/ drains[t] > MaxDrains

\* The loop head: the process is stopping or the drains of this tick are used up.
LoopOver(t) == proc = "stopping" \/ drains[t] >= MaxDrains

\* The tick ends there, and when nothing is claimable or the claim throws.
ClaimNothing(t) ==
  /\ pc[t] = "claim"
  /\ \/ LoopOver(t) /\ UNCHANGED <<blips, hung>>
     \/ ~LoopOver(t) /\ ClaimBatch(Claimable, TeamOf) = {} /\ Writes(t)
     \/ ~LoopOver(t) /\ Fails(t)
  /\ Finish(t)
  /\ UNCHANGED <<proc, syncVars, history, restarts>>

ClaimSome(t) ==
  /\ pc[t] = "claim"
  /\ ~LoopOver(t)
  /\ ClaimBatch(Claimable, TeamOf) # {}
  /\ Writes(t)
  /\ LeaseBatch(t, ClaimBatch(Claimable, TeamOf))
  /\ UNCHANGED <<proc, syncVars, history, restarts>>

Claim(t) == ClaimNothing(t) \/ ClaimSome(t)

\* A free lane takes the oldest row left and enters its subscriber chain.
StartDispatch(t) ==
  /\ pc[t] = "dispatch"
  /\ Cardinality(Busy(t)) < Lanes
  /\ \E r \in Oldest(queue[t]) :
       /\ queue' = [queue EXCEPT ![t] = @ \ {r}]
       /\ lane' = [lane EXCEPT ![t][r] = "chain"]
       /\ started' = started \cup {r}
  /\ UNCHANGED <<tableVars, proc, latchVars, pc, drains, done, tries, syncVars, ran, erred, env>>

\* dispatchPersistedEvent returns: every subscriber ran.  The row joins the
\* batch's dispatched list; a settling lane refreshes lastProgressAt, whoever
\* owns the latch by now.
ChainSucceeds(t, r) ==
  /\ lane[t][r] \in {"chain", "late"} /\ r \notin Corrupt
  /\ done' = [done EXCEPT ![t] = @ \cup {r}]
  /\ ran' = ran \cup {r}
  /\ lane' = [lane EXCEPT ![t][r] = "idle"]
  /\ idle' = 0
  /\ UNCHANGED <<tableVars, proc, timer, inflight, owner, pc, drains, queue, tries,
                 syncVars, started, erred, env>>

\* With errors, the row joins the list before its error is written.
ChainErrs(t, r) ==
  /\ lane[t][r] \in {"chain", "late"} /\ r \notin Corrupt
  /\ done' = [done EXCEPT ![t] = @ \cup {r}]
  /\ ran' = ran \cup {r}
  /\ erred' = erred \cup {r}
  /\ lane' = [lane EXCEPT ![t][r] = "mark1"]
  /\ UNCHANGED <<tableVars, proc, latchVars, pc, drains, queue, tries,
                 syncVars, started, env>>

ChainReturns(t, r) == ChainSucceeds(t, r) \/ ChainErrs(t, r)

\* Mutant: the row joins the dispatched list although nothing was dispatched.
EnvelopeThrowsPushed(t, r) ==
  /\ lane[t][r] \in {"chain", "late"}
  /\ r \in Corrupt
  /\ lane' = [lane EXCEPT ![t][r] = "mark1"]
  /\ done' = [done EXCEPT ![t] = @ \cup {r}]
  /\ UNCHANGED <<tableVars, proc, latchVars, pc, drains, queue, tries,
                 syncVars, history, env>>

\* The envelope itself cannot be dispatched: not in the dispatched list.
EnvelopeThrows(t, r) ==
  /\ lane[t][r] \in {"chain", "late"}
  /\ r \in Corrupt
  /\ lane' = [lane EXCEPT ![t][r] = "mark1"]
  /\ UNCHANGED <<tableVars, proc, latchVars, pc, drains, queue, done, tries,
                 syncVars, history, env>>

\* Mutant: the error mark publishes the row and leaves failedAt NULL.
MarkErrorNoTriage(t, r) ==
  /\ lane[t][r] = "mark1" /\ Writes(t)
  /\ publishedAt' = publishedAt \cup ({r} \cap stored)
  /\ lane' = [lane EXCEPT ![t][r] = "idle"]
  /\ idle' = 0
  /\ UNCHANGED <<failedAt, stored, dispatchedAt, claimed, leaseAge, attempts, proc, timer,
                 inflight, owner, pc, drains, queue, done, tries, syncVars, history, restarts>>

\* markPublishedWithError: two updates, and a failure of either is only logged.
MarkPublished(t, r) ==
  /\ lane[t][r] = "mark1" /\ Writes(t)
  /\ publishedAt' = publishedAt \cup ({r} \cap stored)
  /\ lane' = [lane EXCEPT ![t][r] = "mark2"]
  /\ UNCHANGED <<stored, failedAt, dispatchedAt, claimed, leaseAge, attempts, proc, latchVars,
                 pc, drains, queue, done, tries, syncVars, history, restarts>>

MarkFailed(t, r) ==
  /\ lane[t][r] = "mark2" /\ Writes(t)
  /\ failedAt' = failedAt \cup ({r} \cap stored)
  /\ lane' = [lane EXCEPT ![t][r] = "idle"]
  /\ idle' = 0
  /\ UNCHANGED <<stored, publishedAt, dispatchedAt, claimed, leaseAge, attempts, proc, timer,
                 inflight, owner, pc, drains, queue, done, tries, syncVars, history, restarts>>

MarkErrorFails(t, r) ==
  /\ lane[t][r] \in {"mark1", "mark2"} /\ Fails(t)
  /\ lane' = [lane EXCEPT ![t][r] = "idle"]
  /\ idle' = 0
  /\ UNCHANGED <<tableVars, proc, timer, inflight, owner, pc, drains, queue, done, tries,
                 syncVars, history, restarts>>

MarkError(t, r) == MarkPublished(t, r) \/ MarkFailed(t, r) \/ MarkErrorFails(t, r)

NextDrain(t) ==
  /\ pc' = [pc EXCEPT ![t] = "claim"]
  /\ drains' = [drains EXCEPT ![t] = @ + 1]
  /\ done' = [done EXCEPT ![t] = {}]
  /\ tries' = [tries EXCEPT ![t] = 0]

\* Every lane of the batch is finished: stamp what was dispatched, if anything.
BatchEnds(t) ==
  /\ pc[t] = "dispatch"
  /\ queue[t] = {} /\ Busy(t) = {}
  /\ \/ done[t] = {} /\ NextDrain(t)
     \/ /\ done[t] # {}
        /\ pc' = [pc EXCEPT ![t] = "stamp1"]
        /\ UNCHANGED <<drains, done, tries>>
  /\ UNCHANGED <<tableVars, proc, latchVars, queue, lane, syncVars, history, env>>

\* markDispatched's first update ...
StampPublished(t) ==
  /\ pc[t] = "stamp1" /\ Writes(t)
  /\ publishedAt' = publishedAt \cup (done[t] \cap stored)
  /\ pc' = [pc EXCEPT ![t] = "stamp2"]
  /\ UNCHANGED <<stored, failedAt, dispatchedAt, claimed, leaseAge, attempts, proc, latchVars,
                 drains, queue, lane, done, tries, syncVars, history, restarts>>

\* ... and its second.
StampDispatched(t) ==
  /\ pc[t] = "stamp2" /\ Writes(t)
  /\ dispatchedAt' = dispatchedAt \cup (done[t] \cap stored)
  /\ NextDrain(t)
  /\ UNCHANGED <<stored, publishedAt, failedAt, claimed, leaseAge, attempts, proc, latchVars,
                 queue, lane, syncVars, history, restarts>>

\* markDispatchedWithRetry: a failed one is repeated from the first update, at
\* most StampTries times in all; then the rows are left to their lease.
StampFails(t) ==
  /\ pc[t] \in {"stamp1", "stamp2"} /\ Fails(t)
  /\ \/ /\ tries[t] + 1 < StampTries
        /\ pc' = [pc EXCEPT ![t] = "stamp1"]
        /\ tries' = [tries EXCEPT ![t] = @ + 1]
        /\ UNCHANGED <<drains, done>>
     \/ tries[t] + 1 >= StampTries /\ NextDrain(t)
  /\ UNCHANGED <<tableVars, proc, latchVars, queue, lane, syncVars, history, restarts>>

MarkDispatched(t) == StampPublished(t) \/ StampDispatched(t) \/ StampFails(t)

-----------------------------------------------------------------------------
(* The watchdog, the process, retention and time.                          *)

\* Mutant: the latch is released and no poll is scheduled.
CheckWedgeDark ==
  /\ proc = "up" /\ inflight /\ idle = Watchdog
  /\ owner' = NoTick
  /\ inflight' = FALSE
  /\ idle' = 0
  /\ UNCHANGED <<timer, tableVars, proc, tickVars, syncVars, history, env>>

\* checkWedge: no row settled for Watchdog units, so the latch is taken away
\* from the running tick, which may go on unknowing.
CheckWedge ==
  /\ proc = "up" /\ inflight /\ idle = Watchdog
  /\ owner' = NoTick
  /\ inflight' = FALSE
  /\ idle' = 0
  /\ timer' = TRUE
  /\ UNCHANGED <<tableVars, proc, tickVars, syncVars, history, env>>

\* Everything the process holds in memory is gone.
LoseMemory ==
  /\ proc' = "down"
  /\ timer' = FALSE /\ inflight' = FALSE /\ owner' = NoTick /\ idle' = 0
  /\ pc' = [t \in Ticks |-> "free"]
  /\ drains' = [t \in Ticks |-> 0]
  /\ queue' = [t \in Ticks |-> {}]
  /\ lane' = [t \in Ticks |-> [r \in Rows |-> "idle"]]
  /\ done' = [t \in Ticks |-> {}]
  /\ tries' = [t \in Ticks |-> 0]
  /\ sync' = [r \in SyncRows |-> IF sync[r] = "new" THEN "new" ELSE "over"]
  /\ background' = [r \in SyncRows |-> IF background[r] = "running" THEN "none" ELSE background[r]]
  /\ stampQueue' = {}
  /\ hung' = {}

Crash ==
  /\ proc # "down"
  /\ restarts < MaxRestarts
  /\ restarts' = restarts + 1
  /\ LoseMemory
  /\ UNCHANGED <<tableVars, history, blips>>

\* SIGTERM: onModuleDestroy clears the timers, so no tick and no watchdog run.
Stop ==
  /\ proc = "up"
  /\ restarts < MaxRestarts
  /\ restarts' = restarts + 1
  /\ proc' = "stopping"
  /\ timer' = FALSE
  /\ UNCHANGED <<tableVars, inflight, owner, idle, tickVars, syncVars, history, blips, hung>>

\* The wait for the current batch is over (it settled, or 60s went by), the
\* buffered stamps are flushed, and the process ends.
Exit ==
  /\ proc = "stopping"
  /\ LoseMemory
  /\ WriteStamps
  /\ UNCHANGED <<stored, publishedAt, failedAt, claimed, leaseAge, attempts, history, restarts>>

\* onApplicationBootstrap arms the first poll.
Boot ==
  /\ proc = "down"
  /\ proc' = "up"
  /\ timer' = TRUE
  /\ UNCHANGED <<tableVars, inflight, owner, idle, tickVars, syncVars, history, env>>

\* Mutant: retention keys on publishedAt alone.
PurgePublished(r) ==
  /\ r \in (stored \cap publishedAt) \ failedAt
  /\ \A t \in Ticks : r \notin Held(t)
  /\ stored' = stored \ {r}
  /\ UNCHANGED <<publishedAt, failedAt, dispatchedAt, claimed, leaseAge, attempts, proc,
                 latchVars, tickVars, syncVars, history, env>>

\* The retention sweep deletes a row only when its bracket is closed.  A row is
\* published for days by then, so no activation has it in hand.
Purge(r) ==
  /\ r \in (stored \cap publishedAt \cap dispatchedAt) \ failedAt
  /\ \A t \in Ticks : r \notin Held(t)
  /\ stored' = stored \ {r}
  /\ UNCHANGED <<publishedAt, failedAt, dispatchedAt, claimed, leaseAge, attempts, proc,
                 latchVars, tickVars, syncVars, history, env>>

\* One time unit.  A chain that has been running for a unit must return first:
\* every subscriber in it has its own timeout.  The age of a settled row's claim
\* is of no consequence and is dropped.
Pass ==
  /\ \A t \in Ticks, r \in Rows : lane[t][r] # "late"
  /\ lane' = [t \in Ticks |-> [r \in Rows |->
                IF lane[t][r] = "chain" THEN "late" ELSE lane[t][r]]]
  /\ leaseAge' = [r \in Rows |-> IF r \notin claimed \cap Pending THEN 0
                                 ELSE IF leaseAge[r] < Lease THEN leaseAge[r] + 1
                                 ELSE Lease]
  /\ idle' = IF inflight /\ idle < Watchdog THEN idle + 1 ELSE idle
  /\ UNCHANGED <<stored, publishedAt, failedAt, dispatchedAt, claimed, attempts, proc, timer,
                 inflight, owner, pc, drains, queue, done, tries, syncVars, history, env>>

-----------------------------------------------------------------------------

TickStep(t) ==
  \/ SweepExhausted(t)
  \/ Claim(t)
  \/ StartDispatch(t)
  \/ \E r \in Rows : ChainReturns(t, r) \/ EnvelopeThrows(t, r) \/ MarkError(t, r)
  \/ BatchEnds(t)
  \/ MarkDispatched(t)

SyncStep(r) == SyncPersist(r) \/ BackgroundResolves(r) \/ QueueStamp(r)

Next ==
  \/ \E r \in Rows : CommitInTx(r) \/ Purge(r)
  \/ \E r \in SyncRows : SyncPublish(r) \/ SyncStep(r)
  \/ FlushStamps
  \/ \E t \in Ticks : TickStart(t) \/ TickStep(t) \/ Hang(t)
  \/ CheckWedge
  \/ Crash \/ Stop \/ Exit \/ Boot
  \/ Pass

Spec == Init /\ [][Next]_vars

\* The event loop runs what is ready and the clock advances.  Nothing is
\* assumed of the writers, of retention, of crashes and of shutdowns.
Fairness ==
  /\ \A t \in Ticks : WF_vars(TickStep(t))
  /\ WF_vars(\E t \in Ticks : TickStart(t))
  /\ \A r \in SyncRows : WF_vars(SyncStep(r))
  /\ WF_vars(FlushStamps)
  /\ WF_vars(CheckWedge)
  /\ WF_vars(Exit)
  /\ WF_vars(Boot)
  /\ WF_vars(Pass)

FairSpec == Spec /\ Fairness

-----------------------------------------------------------------------------
(* Properties.                                                             *)

Purged == {r \in Rows : r \notin stored /\ attempts[r] > 0}

\* A row carries the dispatched stamp only if its subscriber chain ran to its
\* end at least once: neither redelivery, nor a failed write, nor a late flush
\* closes the forensic bracket over an event nobody was told about.
StampedRowsRan == dispatchedAt \subseteq ran

\* The latch belongs to one live activation, and while the process serves
\* exactly one of "a poll is armed" and "a tick is running" holds: a tick the
\* watchdog gave up on does not start a second timer chain, and the drainer
\* never goes dark.
LatchDiscipline ==
  /\ inflight <=> owner # NoTick
  /\ owner # NoTick => pc[owner] # "free"
  /\ proc = "up" => timer # inflight

\* The latch is taken from a tick only when that tick ends or when no row
\* settled for the whole watchdog bound: in particular a tick the watchdog gave
\* up on does not, at its own end, release the latch of its successor.
LatchMove ==
  owner # NoTick => owner' = owner \/ pc'[owner] = "free" \/ idle = Watchdog

LatchKept == [][LatchMove]_vars

\* The poison guard: a row is claimed at most MaxClaims times, plus the drains
\* of the ticks whose sweep failed or came before the row reached the ceiling.
RedeliveryBounded ==
  \A r \in Rows \ SyncRows :
    attempts[r] <= MaxClaims - 1 + MaxDrains * (Cardinality(Ticks) + blips)

\* As long as no write failed, none hung and the process did not restart, a
\* row whose dispatch reported an error is not closed green: its failure is
\* written, or being written, before retention could take the row.
ErrorBeforeGreen ==
  \A r \in ((erred \cap dispatchedAt) \ failedAt) \ SyncRows :
    \/ blips > 0 \/ restarts > 0 \/ hung # {}
    \/ \E t \in Ticks : lane[t][r] \in {"mark1", "mark2"}

\* A row written by publish() is dispatched by its publisher alone: the drainer
\* never takes it, whatever became of its stamp.
SyncRowsNotDrained ==
  \A r \in SyncRows, t \in Ticks : r \notin Held(t)

\* Every committed event leaves the pending set: it is published or marked
\* failed in spite of crashes, failed writes, poison and ticks that hang.
PendingSettles ==
  \A r \in Rows : r \in stored ~> r \in publishedAt \cup failedAt

\* The outbox implements its contract: what an operator reads off the columns
\* of a row, and what retention decides on, moves only as the contract allows.
StatusOf(r) ==
  CASE r \notin stored -> IF attempts[r] = 0 THEN "none" ELSE "gone"
    [] r \in stored \cap failedAt -> "failed"
    [] r \in Pending -> "owed"
    [] r \in (stored \cap publishedAt \cap dispatchedAt) \ failedAt -> "good"
    [] OTHER -> "open"

Promise == INSTANCE OutboxContract WITH status <- [r \in Rows |-> StatusOf(r)]

KeepsContract == Promise!Contract
=============================================================================
