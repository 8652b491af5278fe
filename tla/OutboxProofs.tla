---------------------------- MODULE OutboxProofs ----------------------------
(***************************************************************************)
(* Theorems about the transactional outbox, for any number of rows, ticks, *)
(* lanes, restarts and failures: its types, the discipline of the latch,   *)
(* what a dispatched stamp means, that it implements OutboxContract, that  *)
(* no error is closed green, the bound on the claims of a poison row, and  *)
(* what a claim takes from any backlog.                                    *)
(***************************************************************************)
EXTENDS MCOutbox, FiniteSetTheorems, TLAPS

\* The drains of a tick are counted against a limit that the loop head checked
\* before the batch was claimed.
DrainsLeft ==
  \A t \in Ticks : pc[t] \in {"dispatch", "stamp1", "stamp2"} => drains[t] < MaxDrains

\* TypeOK without the Boolean variables, which another prover takes care of.
Types ==
  TableTypes /\ ServiceTypes /\ TickTypes /\ SyncTypes /\ OtherTypes /\ DrainsLeft

Booleans == timer \in BOOLEAN /\ inflight \in BOOLEAN

-----------------------------------------------------------------------------
(* Types.                                                                  *)

\* What a claim leases, and what the sweep fails, is in the table.
LEMMA ClaimedWasStored ==
  /\ Claimable \subseteq stored
  /\ Exhausted \subseteq stored
  /\ ClaimBatch(Claimable, TeamOf) \subseteq Claimable
BY DEF Claimable, Exhausted, Pending, ClaimBatch, Candidates

\* A database write, successful or not, stays within the failure budget.
LEMMA WriteTypes ==
  ASSUME Types, NEW t \in Ticks, Writes(t) \/ Fails(t)
  PROVE  blips' \in 0..MaxBlips /\ hung' \subseteq Ticks
<1>1. CASE Writes(t)
  BY <1>1 DEF Types, OtherTypes, Writes
<1>2. CASE Fails(t)
  BY <1>2, OutboxAssumption DEF Types, OtherTypes, Fails
<1>3. QED
  BY <1>1, <1>2

\* So does the flush of the buffered stamps.
LEMMA FlushTypes ==
  ASSUME Types, WriteStamps
  PROVE  dispatchedAt' \subseteq Rows /\ blips' \in 0..MaxBlips
<1>1. CASE dispatchedAt' = dispatchedAt \cup (stampQueue \cap stored) /\ UNCHANGED blips
  BY <1>1 DEF Types, OtherTypes, TableTypes
<1>2. CASE blips < MaxBlips /\ blips' = blips + 1 /\ UNCHANGED dispatchedAt
  BY <1>2, OutboxAssumption DEF Types, OtherTypes, TableTypes
<1>3. QED
  BY <1>1, <1>2 DEF WriteStamps

\* A batch of rows can be leased.
LEMMA LeaseTypes ==
  ASSUME Types, NEW t \in Ticks, NEW S \in SUBSET Rows, LeaseBatch(t, S)
  PROVE  /\ queue' \in [Ticks -> SUBSET Rows]
         /\ claimed' \subseteq Rows
         /\ leaseAge' \in [Rows -> 0..Lease]
         /\ attempts' \in [Rows -> Nat]
BY OutboxAssumption DEF LeaseBatch, Types, TableTypes, TickTypes

\* The next drain starts within the limit.
LEMMA NextDrainTypes ==
  ASSUME Types, NEW t \in Ticks, drains[t] < MaxDrains, NextDrain(t)
  PROVE  /\ pc' \in [Ticks -> {"free", "sweep", "claim", "dispatch", "stamp1", "stamp2"}]
         /\ drains' \in [Ticks -> 0..MaxDrains]
         /\ DrainsLeft'
         /\ done' \in [Ticks -> SUBSET Rows]
         /\ tries' \in [Ticks -> 0..StampTries]
BY OutboxAssumption DEF NextDrain, Types, TickTypes, DrainsLeft

LEMMA TypesInit == Init => Types
<1> SUFFICES ASSUME Init PROVE Types
  OBVIOUS
<1> USE OutboxAssumption DEF Init
<1>1. TableTypes
  BY DEF TableTypes
<1>2. ServiceTypes
  BY DEF ServiceTypes
<1>3. TickTypes /\ DrainsLeft
  BY DEF TickTypes, DrainsLeft
<1>4. SyncTypes /\ OtherTypes
  BY DEF SyncTypes, OtherTypes
<1>5. QED
  BY <1>1, <1>2, <1>3, <1>4 DEF Types

LEMMA TypesStep == ASSUME Types, [Next]_vars PROVE Types'
<1> USE OutboxAssumption
    DEF Types, TableTypes, ServiceTypes, TickTypes, SyncTypes, OtherTypes, DrainsLeft,
        tableVars, latchVars, tickVars, syncVars, history, env,
        Writes, Fails, Kick, Finish, LeaseBatch, NextDrain, LoseMemory, Busy, Oldest, LoopOver
<1>1. ASSUME NEW r \in Rows, CommitInTx(r) PROVE Types'
  BY <1>1 DEF CommitInTx
<1>2. ASSUME NEW r \in Rows, Purge(r) PROVE Types'
  BY <1>2 DEF Purge
<1>3. ASSUME NEW r \in SyncRows, SyncPublish(r) PROVE Types'
  BY <1>3 DEF SyncPublish
<1>4. ASSUME NEW r \in SyncRows, PersistRow(r) PROVE Types'
  BY <1>4 DEF PersistRow
<1>5. ASSUME NEW r \in SyncRows, PersistFails(r) PROVE Types'
  BY <1>5 DEF PersistFails
<1>6. ASSUME NEW r \in SyncRows, BackgroundResolves(r) PROVE Types'
  BY <1>6 DEF BackgroundResolves
<1>7. ASSUME NEW r \in SyncRows, QueueStamp(r) PROVE Types'
  BY <1>7 DEF QueueStamp
<1>8. ASSUME FlushStamps PROVE Types'
  BY <1>8, FlushTypes DEF FlushStamps
<1>9. ASSUME NEW t \in Ticks, TickStart(t) PROVE Types'
  BY <1>9 DEF TickStart
<1>10. ASSUME NEW t \in Ticks, SweepExhausted(t) PROVE Types'
  <2>1. failedAt' \subseteq Rows
    BY <1>10, ClaimedWasStored DEF SweepExhausted
  <2>2. blips' \in 0..MaxBlips /\ hung' \subseteq Ticks
    BY <1>10, WriteTypes DEF SweepExhausted
  <2>3. QED
    BY <1>10, <2>1, <2>2 DEF SweepExhausted
<1>11. ASSUME NEW t \in Ticks, ClaimNothing(t) PROVE Types'
  BY <1>11 DEF ClaimNothing
<1>12. ASSUME NEW t \in Ticks, ClaimSome(t) PROVE Types'
  <2>1. /\ queue' \in [Ticks -> SUBSET Rows] /\ claimed' \subseteq Rows
        /\ leaseAge' \in [Rows -> 0..Lease] /\ attempts' \in [Rows -> Nat]
    BY <1>12, LeaseTypes, ClaimedWasStored DEF ClaimSome
  <2>2. DrainsLeft'
    BY <1>12 DEF ClaimSome
  <2>3. QED
    BY <1>12, <2>1, <2>2 DEF ClaimSome
<1>13. ASSUME NEW t \in Ticks, StartDispatch(t) PROVE Types'
  BY <1>13 DEF StartDispatch
<1>14. ASSUME NEW t \in Ticks, NEW r \in Rows, ChainSucceeds(t, r) PROVE Types'
  BY <1>14 DEF ChainSucceeds
<1>15. ASSUME NEW t \in Ticks, NEW r \in Rows, ChainErrs(t, r) PROVE Types'
  BY <1>15 DEF ChainErrs
<1>16. ASSUME NEW t \in Ticks, NEW r \in Rows, EnvelopeThrows(t, r) PROVE Types'
  BY <1>16 DEF EnvelopeThrows
<1>17. ASSUME NEW t \in Ticks, NEW r \in Rows, MarkPublished(t, r) PROVE Types'
  BY <1>17 DEF MarkPublished
<1>18. ASSUME NEW t \in Ticks, NEW r \in Rows, MarkFailed(t, r) PROVE Types'
  BY <1>18 DEF MarkFailed
<1>19. ASSUME NEW t \in Ticks, NEW r \in Rows, MarkErrorFails(t, r) PROVE Types'
  BY <1>19 DEF MarkErrorFails
<1>20. ASSUME NEW t \in Ticks, BatchEnds(t) PROVE Types'
  <2>1. CASE NextDrain(t)
    BY <1>20, <2>1, NextDrainTypes DEF BatchEnds
  <2>2. CASE pc' = [pc EXCEPT ![t] = "stamp1"] /\ UNCHANGED <<drains, done, tries>>
    BY <1>20, <2>2 DEF BatchEnds
  <2>3. QED
    BY <1>20, <2>1, <2>2 DEF BatchEnds
<1>21. ASSUME NEW t \in Ticks, StampPublished(t) PROVE Types'
  <2>1. publishedAt' \subseteq Rows
    BY <1>21 DEF StampPublished
  <2>2. QED
    BY <1>21, <2>1 DEF StampPublished
<1>22. ASSUME NEW t \in Ticks, StampDispatched(t) PROVE Types'
  <2>1. dispatchedAt' \subseteq Rows
    BY <1>22 DEF StampDispatched
  <2>2. QED
    BY <1>22, <2>1, NextDrainTypes DEF StampDispatched
<1>23. ASSUME NEW t \in Ticks, StampFails(t) PROVE Types'
  <2>1. blips' \in 0..MaxBlips
    BY <1>23 DEF StampFails
  <2>2. CASE NextDrain(t)
    BY <1>23, <2>1, <2>2, NextDrainTypes DEF StampFails
  <2>3. CASE /\ tries[t] + 1 < StampTries
             /\ pc' = [pc EXCEPT ![t] = "stamp1"]
             /\ tries' = [tries EXCEPT ![t] = @ + 1]
             /\ UNCHANGED <<drains, done>>
    BY <1>23, <2>1, <2>3 DEF StampFails
  <2>4. QED
    BY <1>23, <2>2, <2>3 DEF StampFails
<1>24. ASSUME NEW t \in Ticks, Hang(t) PROVE Types'
  BY <1>24 DEF Hang
<1>25. ASSUME CheckWedge PROVE Types'
  BY <1>25 DEF CheckWedge
<1>26. ASSUME Crash PROVE Types'
  BY <1>26 DEF Crash
<1>27. ASSUME Stop PROVE Types'
  BY <1>27 DEF Stop
<1>28. ASSUME Exit PROVE Types'
  BY <1>28, FlushTypes DEF Exit
<1>29. ASSUME Boot PROVE Types'
  BY <1>29 DEF Boot
<1>30. ASSUME Pass PROVE Types'
  BY <1>30 DEF Pass
<1>31. CASE UNCHANGED vars
  BY <1>31 DEF vars
<1>32. QED
  BY <1>1, <1>2, <1>3, <1>4, <1>5, <1>6, <1>7, <1>8, <1>9, <1>10, <1>11, <1>12,
     <1>13, <1>14, <1>15, <1>16, <1>17, <1>18, <1>19, <1>20, <1>21, <1>22, <1>23, <1>24,
     <1>25, <1>26, <1>27, <1>28, <1>29, <1>30, <1>31
  DEF Next, TickStep, SyncStep, SyncPersist, Claim, ChainReturns, MarkError, MarkDispatched

LEMMA BooleansStep == ASSUME Booleans, [Next]_vars PROVE Booleans'
<1> USE DEF Booleans, tableVars, latchVars, tickVars, syncVars, history, env,
        Writes, Fails, Kick, Finish, LeaseBatch, NextDrain, LoseMemory, WriteStamps
<1>1. ASSUME NEW r \in Rows, CommitInTx(r) PROVE Booleans'
  BY <1>1, Zenon DEF CommitInTx
<1>2. ASSUME NEW r \in Rows, Purge(r) PROVE Booleans'
  BY <1>2, Zenon DEF Purge
<1>3. ASSUME NEW r \in SyncRows, SyncPublish(r) PROVE Booleans'
  BY <1>3, Zenon DEF SyncPublish
<1>4. ASSUME NEW r \in SyncRows, PersistRow(r) PROVE Booleans'
  BY <1>4, Zenon DEF PersistRow
<1>5. ASSUME NEW r \in SyncRows, PersistFails(r) PROVE Booleans'
  BY <1>5, Zenon DEF PersistFails
<1>6. ASSUME NEW r \in SyncRows, BackgroundResolves(r) PROVE Booleans'
  BY <1>6, Zenon DEF BackgroundResolves
<1>7. ASSUME NEW r \in SyncRows, QueueStamp(r) PROVE Booleans'
  BY <1>7, Zenon DEF QueueStamp
<1>8. ASSUME FlushStamps PROVE Booleans'
  BY <1>8, Zenon DEF FlushStamps
<1>9. ASSUME NEW t \in Ticks, TickStart(t) PROVE Booleans'
  BY <1>9, Zenon DEF TickStart
<1>10. ASSUME NEW t \in Ticks, SweepExhausted(t) PROVE Booleans'
  BY <1>10, Zenon DEF SweepExhausted
<1>11. ASSUME NEW t \in Ticks, ClaimNothing(t) PROVE Booleans'
  BY <1>11, Zenon DEF ClaimNothing
<1>12. ASSUME NEW t \in Ticks, ClaimSome(t) PROVE Booleans'
  BY <1>12, Zenon DEF ClaimSome
<1>13. ASSUME NEW t \in Ticks, StartDispatch(t) PROVE Booleans'
  BY <1>13, Zenon DEF StartDispatch
<1>14. ASSUME NEW t \in Ticks, NEW r \in Rows, ChainSucceeds(t, r) PROVE Booleans'
  BY <1>14, Zenon DEF ChainSucceeds
<1>15. ASSUME NEW t \in Ticks, NEW r \in Rows, ChainErrs(t, r) PROVE Booleans'
  BY <1>15, Zenon DEF ChainErrs
<1>16. ASSUME NEW t \in Ticks, NEW r \in Rows, EnvelopeThrows(t, r) PROVE Booleans'
  BY <1>16, Zenon DEF EnvelopeThrows
<1>17. ASSUME NEW t \in Ticks, NEW r \in Rows, MarkPublished(t, r) PROVE Booleans'
  BY <1>17, Zenon DEF MarkPublished
<1>18. ASSUME NEW t \in Ticks, NEW r \in Rows, MarkFailed(t, r) PROVE Booleans'
  BY <1>18, Zenon DEF MarkFailed
<1>19. ASSUME NEW t \in Ticks, NEW r \in Rows, MarkErrorFails(t, r) PROVE Booleans'
  BY <1>19, Zenon DEF MarkErrorFails
<1>20. ASSUME NEW t \in Ticks, BatchEnds(t) PROVE Booleans'
  BY <1>20, Zenon DEF BatchEnds
<1>21. ASSUME NEW t \in Ticks, StampPublished(t) PROVE Booleans'
  BY <1>21, Zenon DEF StampPublished
<1>22. ASSUME NEW t \in Ticks, StampDispatched(t) PROVE Booleans'
  BY <1>22, Zenon DEF StampDispatched
<1>23. ASSUME NEW t \in Ticks, StampFails(t) PROVE Booleans'
  BY <1>23, Zenon DEF StampFails
<1>24. ASSUME NEW t \in Ticks, Hang(t) PROVE Booleans'
  BY <1>24, Zenon DEF Hang
<1>25. ASSUME CheckWedge PROVE Booleans'
  BY <1>25, Zenon DEF CheckWedge
<1>26. ASSUME Crash PROVE Booleans'
  BY <1>26, Zenon DEF Crash
<1>27. ASSUME Stop PROVE Booleans'
  BY <1>27, Zenon DEF Stop
<1>28. ASSUME Exit PROVE Booleans'
  BY <1>28, Zenon DEF Exit
<1>29. ASSUME Boot PROVE Booleans'
  BY <1>29, Zenon DEF Boot
<1>30. ASSUME Pass PROVE Booleans'
  BY <1>30, Zenon DEF Pass
<1>31. CASE UNCHANGED vars
  BY <1>31 DEF vars
<1>32. QED
  BY <1>1, <1>2, <1>3, <1>4, <1>5, <1>6, <1>7, <1>8, <1>9, <1>10, <1>11, <1>12,
     <1>13, <1>14, <1>15, <1>16, <1>17, <1>18, <1>19, <1>20, <1>21, <1>22, <1>23, <1>24,
     <1>25, <1>26, <1>27, <1>28, <1>29, <1>30, <1>31
  DEF Next, TickStep, SyncStep, SyncPersist, Claim, ChainReturns, MarkError, MarkDispatched

\* Types.  No step of the drainer, of publish(), of the watchdog, of a crash or
\* of a shutdown takes a variable out of its type; in particular a tick never
\* drains more than MaxDrains batches.
THEOREM TypeCorrect == Spec => []TypeOK
<1>1. Init => Types /\ Booleans
  BY TypesInit DEF Init, Booleans
<1>2. Types /\ Booleans /\ [Next]_vars => (Types /\ Booleans)'
  BY TypesStep, BooleansStep
<1>3. Types /\ Booleans => TypeOK
  BY DEF Types, Booleans, TypeOK
<1>4. QED
  BY <1>1, <1>2, <1>3, PTL DEF Spec

-----------------------------------------------------------------------------
(* The latch.                                                              *)

\* Nothing runs in a dead process.
DarkWhenDown == proc = "down" => ~inflight

LatchInv == LatchDiscipline /\ DarkWhenDown

LEMMA LatchStep == ASSUME Types, Booleans, LatchInv, [Next]_vars PROVE LatchInv'
<1> USE OutboxAssumption
    DEF Booleans, Types, ServiceTypes, TickTypes, LatchInv, LatchDiscipline, DarkWhenDown,
        tableVars, latchVars, tickVars, syncVars, history, env,
        Writes, Fails, Kick, LeaseBatch, NextDrain, LoseMemory, WriteStamps
<1>1. ASSUME NEW r \in Rows, CommitInTx(r) PROVE LatchInv'
  BY <1>1 DEF CommitInTx
<1>2. ASSUME NEW r \in Rows, Purge(r) PROVE LatchInv'
  BY <1>2 DEF Purge
<1>3. ASSUME NEW r \in SyncRows, SyncPublish(r) PROVE LatchInv'
  BY <1>3 DEF SyncPublish
<1>4. ASSUME NEW r \in SyncRows, PersistRow(r) PROVE LatchInv'
  BY <1>4 DEF PersistRow
<1>5. ASSUME NEW r \in SyncRows, PersistFails(r) PROVE LatchInv'
  BY <1>5 DEF PersistFails
<1>6. ASSUME NEW r \in SyncRows, BackgroundResolves(r) PROVE LatchInv'
  BY <1>6 DEF BackgroundResolves
<1>7. ASSUME NEW r \in SyncRows, QueueStamp(r) PROVE LatchInv'
  BY <1>7 DEF QueueStamp
<1>8. ASSUME FlushStamps PROVE LatchInv'
  BY <1>8 DEF FlushStamps
<1>9. ASSUME NEW t \in Ticks, TickStart(t) PROVE LatchInv'
  BY <1>9 DEF TickStart
<1>10. ASSUME NEW t \in Ticks, SweepExhausted(t) PROVE LatchInv'
  BY <1>10 DEF SweepExhausted
<1>11. ASSUME NEW t \in Ticks, ClaimNothing(t) PROVE LatchInv'
  <2>1. CASE owner = t
    BY <1>11, <2>1 DEF ClaimNothing, Finish
  <2>2. CASE owner # t
    BY <1>11, <2>2 DEF ClaimNothing, Finish
  <2>3. QED
    BY <2>1, <2>2
<1>12. ASSUME NEW t \in Ticks, ClaimSome(t) PROVE LatchInv'
  BY <1>12 DEF ClaimSome
<1>13. ASSUME NEW t \in Ticks, StartDispatch(t) PROVE LatchInv'
  BY <1>13 DEF StartDispatch
<1>14. ASSUME NEW t \in Ticks, NEW r \in Rows, ChainSucceeds(t, r) PROVE LatchInv'
  BY <1>14 DEF ChainSucceeds
<1>15. ASSUME NEW t \in Ticks, NEW r \in Rows, ChainErrs(t, r) PROVE LatchInv'
  BY <1>15 DEF ChainErrs
<1>16. ASSUME NEW t \in Ticks, NEW r \in Rows, EnvelopeThrows(t, r) PROVE LatchInv'
  BY <1>16 DEF EnvelopeThrows
<1>17. ASSUME NEW t \in Ticks, NEW r \in Rows, MarkPublished(t, r) PROVE LatchInv'
  BY <1>17 DEF MarkPublished
<1>18. ASSUME NEW t \in Ticks, NEW r \in Rows, MarkFailed(t, r) PROVE LatchInv'
  BY <1>18 DEF MarkFailed
<1>19. ASSUME NEW t \in Ticks, NEW r \in Rows, MarkErrorFails(t, r) PROVE LatchInv'
  BY <1>19 DEF MarkErrorFails
<1>20. ASSUME NEW t \in Ticks, BatchEnds(t) PROVE LatchInv'
  BY <1>20 DEF BatchEnds
<1>21. ASSUME NEW t \in Ticks, StampPublished(t) PROVE LatchInv'
  BY <1>21 DEF StampPublished
<1>22. ASSUME NEW t \in Ticks, StampDispatched(t) PROVE LatchInv'
  BY <1>22 DEF StampDispatched
<1>23. ASSUME NEW t \in Ticks, StampFails(t) PROVE LatchInv'
  BY <1>23 DEF StampFails
<1>24. ASSUME NEW t \in Ticks, Hang(t) PROVE LatchInv'
  BY <1>24 DEF Hang
<1>25. ASSUME CheckWedge PROVE LatchInv'
  BY <1>25 DEF CheckWedge
<1>26. ASSUME Crash PROVE LatchInv'
  BY <1>26 DEF Crash
<1>27. ASSUME Stop PROVE LatchInv'
  BY <1>27 DEF Stop
<1>28. ASSUME Exit PROVE LatchInv'
  BY <1>28 DEF Exit
<1>29. ASSUME Boot PROVE LatchInv'
  BY <1>29 DEF Boot
<1>30. ASSUME Pass PROVE LatchInv'
  BY <1>30 DEF Pass
<1>31. CASE UNCHANGED vars
  BY <1>31 DEF vars
<1>32. QED
  BY <1>1, <1>2, <1>3, <1>4, <1>5, <1>6, <1>7, <1>8, <1>9, <1>10, <1>11, <1>12,
     <1>13, <1>14, <1>15, <1>16, <1>17, <1>18, <1>19, <1>20, <1>21, <1>22, <1>23, <1>24,
     <1>25, <1>26, <1>27, <1>28, <1>29, <1>30, <1>31
  DEF Next, TickStep, SyncStep, SyncPersist, Claim, ChainReturns, MarkError, MarkDispatched

\* The latch belongs to one live activation, and a serving drainer always has
\* either a poll armed or a tick running, never both: whatever the watchdog
\* takes away and whenever the tick it gave up on finishes.
THEOREM LatchCorrect == Spec => []LatchDiscipline
<1>1. Init => Types /\ Booleans /\ LatchInv
  BY TypesInit, OutboxAssumption
  DEF Init, Booleans, LatchInv, LatchDiscipline, DarkWhenDown
<1>2. Types /\ Booleans /\ LatchInv /\ [Next]_vars => (Types /\ Booleans /\ LatchInv)'
  BY TypesStep, BooleansStep, LatchStep
<1>3. LatchInv => LatchDiscipline
  BY DEF LatchInv
<1>4. QED
  BY <1>1, <1>2, <1>3, PTL DEF Spec

LEMMA LatchMoves == ASSUME Types, LatchInv, [Next]_vars PROVE LatchMove
<1> USE OutboxAssumption
    DEF Types, ServiceTypes, TickTypes, LatchInv, LatchDiscipline, LatchMove,
        tableVars, latchVars, tickVars, syncVars, history, env,
        LeaseBatch, LoseMemory
<1>1. ASSUME NEW r \in Rows, CommitInTx(r) PROVE LatchMove
  BY <1>1 DEF CommitInTx
<1>2. ASSUME NEW r \in Rows, Purge(r) PROVE LatchMove
  BY <1>2 DEF Purge
<1>3. ASSUME NEW r \in SyncRows, SyncPublish(r) PROVE LatchMove
  BY <1>3 DEF SyncPublish
<1>4. ASSUME NEW r \in SyncRows, PersistRow(r) PROVE LatchMove
  BY <1>4 DEF PersistRow
<1>5. ASSUME NEW r \in SyncRows, PersistFails(r) PROVE LatchMove
  BY <1>5 DEF PersistFails
<1>6. ASSUME NEW r \in SyncRows, BackgroundResolves(r) PROVE LatchMove
  BY <1>6 DEF BackgroundResolves
<1>7. ASSUME NEW r \in SyncRows, QueueStamp(r) PROVE LatchMove
  BY <1>7 DEF QueueStamp
<1>8. ASSUME FlushStamps PROVE LatchMove
  BY <1>8 DEF FlushStamps
<1>9. ASSUME NEW t \in Ticks, TickStart(t) PROVE LatchMove
  BY <1>9 DEF TickStart
<1>10. ASSUME NEW t \in Ticks, SweepExhausted(t) PROVE LatchMove
  BY <1>10 DEF SweepExhausted
<1>11. ASSUME NEW t \in Ticks, ClaimNothing(t) PROVE LatchMove
  <2>1. CASE owner = t
    BY <1>11, <2>1 DEF ClaimNothing, Finish
  <2>2. CASE owner # t
    BY <1>11, <2>2 DEF ClaimNothing, Finish
  <2>3. QED
    BY <2>1, <2>2
<1>12. ASSUME NEW t \in Ticks, ClaimSome(t) PROVE LatchMove
  BY <1>12 DEF ClaimSome
<1>13. ASSUME NEW t \in Ticks, StartDispatch(t) PROVE LatchMove
  BY <1>13 DEF StartDispatch
<1>14. ASSUME NEW t \in Ticks, NEW r \in Rows, ChainSucceeds(t, r) PROVE LatchMove
  BY <1>14 DEF ChainSucceeds
<1>15. ASSUME NEW t \in Ticks, NEW r \in Rows, ChainErrs(t, r) PROVE LatchMove
  BY <1>15 DEF ChainErrs
<1>16. ASSUME NEW t \in Ticks, NEW r \in Rows, EnvelopeThrows(t, r) PROVE LatchMove
  BY <1>16 DEF EnvelopeThrows
<1>17. ASSUME NEW t \in Ticks, NEW r \in Rows, MarkPublished(t, r) PROVE LatchMove
  BY <1>17 DEF MarkPublished
<1>18. ASSUME NEW t \in Ticks, NEW r \in Rows, MarkFailed(t, r) PROVE LatchMove
  BY <1>18 DEF MarkFailed
<1>19. ASSUME NEW t \in Ticks, NEW r \in Rows, MarkErrorFails(t, r) PROVE LatchMove
  BY <1>19 DEF MarkErrorFails
<1>20. ASSUME NEW t \in Ticks, BatchEnds(t) PROVE LatchMove
  BY <1>20 DEF BatchEnds
<1>21. ASSUME NEW t \in Ticks, StampPublished(t) PROVE LatchMove
  BY <1>21 DEF StampPublished
<1>22. ASSUME NEW t \in Ticks, StampDispatched(t) PROVE LatchMove
  BY <1>22 DEF StampDispatched
<1>23. ASSUME NEW t \in Ticks, StampFails(t) PROVE LatchMove
  BY <1>23 DEF StampFails
<1>24. ASSUME NEW t \in Ticks, Hang(t) PROVE LatchMove
  BY <1>24 DEF Hang
<1>25. ASSUME CheckWedge PROVE LatchMove
  BY <1>25 DEF CheckWedge
<1>26. ASSUME Crash PROVE LatchMove
  BY <1>26 DEF Crash
<1>27. ASSUME Stop PROVE LatchMove
  BY <1>27 DEF Stop
<1>28. ASSUME Exit PROVE LatchMove
  BY <1>28 DEF Exit
<1>29. ASSUME Boot PROVE LatchMove
  BY <1>29 DEF Boot
<1>30. ASSUME Pass PROVE LatchMove
  BY <1>30 DEF Pass
<1>31. CASE UNCHANGED vars
  BY <1>31 DEF vars
<1>32. QED
  BY <1>1, <1>2, <1>3, <1>4, <1>5, <1>6, <1>7, <1>8, <1>9, <1>10, <1>11, <1>12,
     <1>13, <1>14, <1>15, <1>16, <1>17, <1>18, <1>19, <1>20, <1>21, <1>22, <1>23, <1>24,
     <1>25, <1>26, <1>27, <1>28, <1>29, <1>30, <1>31
  DEF Next, TickStep, SyncStep, SyncPersist, Claim, ChainReturns, MarkError, MarkDispatched

\* The latch leaves a tick only when that tick ends or after the watchdog bound.
THEOREM LatchStays == Spec => LatchKept
<1>1. Init => Types /\ Booleans /\ LatchInv
  BY TypesInit, OutboxAssumption
  DEF Init, Booleans, LatchInv, LatchDiscipline, DarkWhenDown
<1>2. Types /\ Booleans /\ LatchInv /\ [Next]_vars => (Types /\ Booleans /\ LatchInv)'
  BY TypesStep, BooleansStep, LatchStep
<1>3. Types /\ LatchInv /\ [Next]_vars => [LatchMove]_vars
  BY LatchMoves
<1>4. QED
  BY <1>1, <1>2, <1>3, PTL DEF Spec, LatchKept

-----------------------------------------------------------------------------
(* What the stamps mean.                                                   *)

\* A row is listed for the stamp only once its chain has run.
ListedRan ==
  /\ dispatchedAt \subseteq ran
  /\ stampQueue \subseteq ran
  /\ \A t \in Ticks : done[t] \subseteq ran
  /\ \A r \in SyncRows : background[r] = "resolved" => r \in ran

LEMMA ListedRanStep == ASSUME Types, ListedRan, [Next]_vars PROVE ListedRan'
<1> USE OutboxAssumption
    DEF Types, TableTypes, TickTypes, SyncTypes, ListedRan,
        tableVars, latchVars, tickVars, syncVars, history, env,
        Writes, Fails, Kick, Finish, LeaseBatch, NextDrain, LoseMemory, WriteStamps
<1>1. ASSUME NEW r \in Rows, CommitInTx(r) PROVE ListedRan'
  BY <1>1 DEF CommitInTx
<1>2. ASSUME NEW r \in Rows, Purge(r) PROVE ListedRan'
  BY <1>2 DEF Purge
<1>3. ASSUME NEW r \in SyncRows, SyncPublish(r) PROVE ListedRan'
  BY <1>3 DEF SyncPublish
<1>4. ASSUME NEW r \in SyncRows, PersistRow(r) PROVE ListedRan'
  BY <1>4 DEF PersistRow
<1>5. ASSUME NEW r \in SyncRows, PersistFails(r) PROVE ListedRan'
  BY <1>5 DEF PersistFails
<1>6. ASSUME NEW r \in SyncRows, BackgroundResolves(r) PROVE ListedRan'
  BY <1>6 DEF BackgroundResolves
<1>7. ASSUME NEW r \in SyncRows, QueueStamp(r) PROVE ListedRan'
  BY <1>7 DEF QueueStamp
<1>8. ASSUME FlushStamps PROVE ListedRan'
  BY <1>8 DEF FlushStamps
<1>9. ASSUME NEW t \in Ticks, TickStart(t) PROVE ListedRan'
  BY <1>9 DEF TickStart
<1>10. ASSUME NEW t \in Ticks, SweepExhausted(t) PROVE ListedRan'
  BY <1>10 DEF SweepExhausted
<1>11. ASSUME NEW t \in Ticks, ClaimNothing(t) PROVE ListedRan'
  BY <1>11 DEF ClaimNothing
<1>12. ASSUME NEW t \in Ticks, ClaimSome(t) PROVE ListedRan'
  BY <1>12 DEF ClaimSome
<1>13. ASSUME NEW t \in Ticks, StartDispatch(t) PROVE ListedRan'
  BY <1>13 DEF StartDispatch
<1>14. ASSUME NEW t \in Ticks, NEW r \in Rows, ChainSucceeds(t, r) PROVE ListedRan'
  BY <1>14 DEF ChainSucceeds
<1>15. ASSUME NEW t \in Ticks, NEW r \in Rows, ChainErrs(t, r) PROVE ListedRan'
  BY <1>15 DEF ChainErrs
<1>16. ASSUME NEW t \in Ticks, NEW r \in Rows, EnvelopeThrows(t, r) PROVE ListedRan'
  BY <1>16 DEF EnvelopeThrows
<1>17. ASSUME NEW t \in Ticks, NEW r \in Rows, MarkPublished(t, r) PROVE ListedRan'
  BY <1>17 DEF MarkPublished
<1>18. ASSUME NEW t \in Ticks, NEW r \in Rows, MarkFailed(t, r) PROVE ListedRan'
  BY <1>18 DEF MarkFailed
<1>19. ASSUME NEW t \in Ticks, NEW r \in Rows, MarkErrorFails(t, r) PROVE ListedRan'
  BY <1>19 DEF MarkErrorFails
<1>20. ASSUME NEW t \in Ticks, BatchEnds(t) PROVE ListedRan'
  BY <1>20 DEF BatchEnds
<1>21. ASSUME NEW t \in Ticks, StampPublished(t) PROVE ListedRan'
  BY <1>21 DEF StampPublished
<1>22. ASSUME NEW t \in Ticks, StampDispatched(t) PROVE ListedRan'
  BY <1>22 DEF StampDispatched
<1>23. ASSUME NEW t \in Ticks, StampFails(t) PROVE ListedRan'
  BY <1>23 DEF StampFails
<1>24. ASSUME NEW t \in Ticks, Hang(t) PROVE ListedRan'
  BY <1>24 DEF Hang
<1>25. ASSUME CheckWedge PROVE ListedRan'
  BY <1>25 DEF CheckWedge
<1>26. ASSUME Crash PROVE ListedRan'
  BY <1>26 DEF Crash
<1>27. ASSUME Stop PROVE ListedRan'
  BY <1>27 DEF Stop
<1>28. ASSUME Exit PROVE ListedRan'
  BY <1>28 DEF Exit
<1>29. ASSUME Boot PROVE ListedRan'
  BY <1>29 DEF Boot
<1>30. ASSUME Pass PROVE ListedRan'
  BY <1>30 DEF Pass
<1>31. CASE UNCHANGED vars
  BY <1>31 DEF vars
<1>32. QED
  BY <1>1, <1>2, <1>3, <1>4, <1>5, <1>6, <1>7, <1>8, <1>9, <1>10, <1>11, <1>12,
     <1>13, <1>14, <1>15, <1>16, <1>17, <1>18, <1>19, <1>20, <1>21, <1>22, <1>23, <1>24,
     <1>25, <1>26, <1>27, <1>28, <1>29, <1>30, <1>31
  DEF Next, TickStep, SyncStep, SyncPersist, Claim, ChainReturns, MarkError, MarkDispatched

\* A dispatched stamp means that the subscriber chain ran to its end.
THEOREM StampsTruthful == Spec => []StampedRowsRan
<1>1. Init => Types /\ ListedRan
  BY TypesInit DEF Init, ListedRan
<1>2. Types /\ ListedRan /\ [Next]_vars => (Types /\ ListedRan)'
  BY TypesStep, ListedRanStep
<1>3. ListedRan => StampedRowsRan
  BY DEF ListedRan, StampedRowsRan
<1>4. QED
  BY <1>1, <1>2, <1>3, PTL DEF Spec

-----------------------------------------------------------------------------
(* The life of a row.                                                      *)

\* The rows publish() wrote, or is about to write, are out of the drainer's sight.
SyncApart ==
  /\ \A t \in Ticks : Held(t) \cap SyncRows = {}
  /\ Pending \cap SyncRows = {}
  /\ \A r \in SyncRows : sync[r] \in {"new", "called", "erred"} => r \notin stored /\ attempts[r] = 0

LEMMA SyncApartStep == ASSUME Types, SyncApart, [Next]_vars PROVE SyncApart'
<1> USE OutboxAssumption
    DEF Types, TableTypes, TickTypes, SyncTypes, SyncApart, Held, Busy, Pending,
        tableVars, latchVars, tickVars, syncVars, history, env,
        Writes, Fails, Kick, Finish, LeaseBatch, NextDrain, LoseMemory, WriteStamps, Oldest
<1>1. ASSUME NEW r \in Rows, CommitInTx(r) PROVE SyncApart'
  BY <1>1 DEF CommitInTx
<1>2. ASSUME NEW r \in Rows, Purge(r) PROVE SyncApart'
  BY <1>2 DEF Purge
<1>3. ASSUME NEW r \in SyncRows, SyncPublish(r) PROVE SyncApart'
  BY <1>3 DEF SyncPublish
<1>4. ASSUME NEW r \in SyncRows, PersistRow(r) PROVE SyncApart'
  BY <1>4 DEF PersistRow
<1>5. ASSUME NEW r \in SyncRows, PersistFails(r) PROVE SyncApart'
  BY <1>5 DEF PersistFails
<1>6. ASSUME NEW r \in SyncRows, BackgroundResolves(r) PROVE SyncApart'
  BY <1>6 DEF BackgroundResolves
<1>7. ASSUME NEW r \in SyncRows, QueueStamp(r) PROVE SyncApart'
  BY <1>7 DEF QueueStamp
<1>8. ASSUME FlushStamps PROVE SyncApart'
  BY <1>8 DEF FlushStamps
<1>9. ASSUME NEW t \in Ticks, TickStart(t) PROVE SyncApart'
  BY <1>9 DEF TickStart
<1>10. ASSUME NEW t \in Ticks, SweepExhausted(t) PROVE SyncApart'
  BY <1>10 DEF SweepExhausted
<1>11. ASSUME NEW t \in Ticks, ClaimNothing(t) PROVE SyncApart'
  BY <1>11 DEF ClaimNothing
<1>12. ASSUME NEW t \in Ticks, ClaimSome(t) PROVE SyncApart'
  BY <1>12, ClaimedWasStored DEF ClaimSome, Claimable
<1>13. ASSUME NEW t \in Ticks, StartDispatch(t) PROVE SyncApart'
  BY <1>13 DEF StartDispatch
<1>14. ASSUME NEW t \in Ticks, NEW r \in Rows, ChainSucceeds(t, r) PROVE SyncApart'
  BY <1>14 DEF ChainSucceeds
<1>15. ASSUME NEW t \in Ticks, NEW r \in Rows, ChainErrs(t, r) PROVE SyncApart'
  BY <1>15 DEF ChainErrs
<1>16. ASSUME NEW t \in Ticks, NEW r \in Rows, EnvelopeThrows(t, r) PROVE SyncApart'
  BY <1>16 DEF EnvelopeThrows
<1>17. ASSUME NEW t \in Ticks, NEW r \in Rows, MarkPublished(t, r) PROVE SyncApart'
  BY <1>17 DEF MarkPublished
<1>18. ASSUME NEW t \in Ticks, NEW r \in Rows, MarkFailed(t, r) PROVE SyncApart'
  BY <1>18 DEF MarkFailed
<1>19. ASSUME NEW t \in Ticks, NEW r \in Rows, MarkErrorFails(t, r) PROVE SyncApart'
  BY <1>19 DEF MarkErrorFails
<1>20. ASSUME NEW t \in Ticks, BatchEnds(t) PROVE SyncApart'
  BY <1>20 DEF BatchEnds
<1>21. ASSUME NEW t \in Ticks, StampPublished(t) PROVE SyncApart'
  BY <1>21 DEF StampPublished
<1>22. ASSUME NEW t \in Ticks, StampDispatched(t) PROVE SyncApart'
  BY <1>22 DEF StampDispatched
<1>23. ASSUME NEW t \in Ticks, StampFails(t) PROVE SyncApart'
  BY <1>23 DEF StampFails
<1>24. ASSUME NEW t \in Ticks, Hang(t) PROVE SyncApart'
  BY <1>24 DEF Hang
<1>25. ASSUME CheckWedge PROVE SyncApart'
  BY <1>25 DEF CheckWedge
<1>26. ASSUME Crash PROVE SyncApart'
  BY <1>26 DEF Crash
<1>27. ASSUME Stop PROVE SyncApart'
  BY <1>27 DEF Stop
<1>28. ASSUME Exit PROVE SyncApart'
  BY <1>28 DEF Exit
<1>29. ASSUME Boot PROVE SyncApart'
  BY <1>29 DEF Boot
<1>30. ASSUME Pass PROVE SyncApart'
  BY <1>30 DEF Pass
<1>31. CASE UNCHANGED vars
  BY <1>31 DEF vars
<1>32. QED
  BY <1>1, <1>2, <1>3, <1>4, <1>5, <1>6, <1>7, <1>8, <1>9, <1>10, <1>11, <1>12,
     <1>13, <1>14, <1>15, <1>16, <1>17, <1>18, <1>19, <1>20, <1>21, <1>22, <1>23, <1>24,
     <1>25, <1>26, <1>27, <1>28, <1>29, <1>30, <1>31
  DEF Next, TickStep, SyncStep, SyncPersist, Claim, ChainReturns, MarkError, MarkDispatched


\* An unclaimed row has no stamps, a row in the drainer's hands was claimed, and
\* the dispatched stamp always comes second.
StampOrder ==
  /\ \A r \in Rows : attempts[r] = 0 => r \notin publishedAt \cup failedAt
  /\ \A t \in Ticks : \A r \in Held(t) : attempts[r] > 0
  /\ dispatchedAt \subseteq publishedAt
  /\ stampQueue \subseteq publishedAt
  /\ \A r \in SyncRows : sync[r] = "stored" => r \in publishedAt
  /\ \A t \in Ticks : pc[t] = "stamp2" => done[t] \cap stored \subseteq publishedAt
  /\ \A t \in Ticks : pc[t] # "dispatch" => Busy(t) = {}

LEMMA StampOrderStep ==
  ASSUME Types, SyncApart, StampOrder, [Next]_vars PROVE StampOrder'
<1> USE OutboxAssumption
    DEF Types, TableTypes, TickTypes, SyncTypes, SyncApart, StampOrder, Held, Busy, Pending,
        tableVars, latchVars, tickVars, syncVars, history, env,
        Writes, Fails, Kick, Finish, LeaseBatch, NextDrain, LoseMemory, WriteStamps, Oldest,
        Exhausted
<1>1. ASSUME NEW r \in Rows, CommitInTx(r) PROVE StampOrder'
  BY <1>1 DEF CommitInTx
<1>2. ASSUME NEW r \in Rows, Purge(r) PROVE StampOrder'
  BY <1>2 DEF Purge
<1>3. ASSUME NEW r \in SyncRows, SyncPublish(r) PROVE StampOrder'
  BY <1>3 DEF SyncPublish
<1>4. ASSUME NEW r \in SyncRows, PersistRow(r) PROVE StampOrder'
  BY <1>4 DEF PersistRow
<1>5. ASSUME NEW r \in SyncRows, PersistFails(r) PROVE StampOrder'
  BY <1>5 DEF PersistFails
<1>6. ASSUME NEW r \in SyncRows, BackgroundResolves(r) PROVE StampOrder'
  BY <1>6 DEF BackgroundResolves
<1>7. ASSUME NEW r \in SyncRows, QueueStamp(r) PROVE StampOrder'
  BY <1>7 DEF QueueStamp
<1>8. ASSUME FlushStamps PROVE StampOrder'
  BY <1>8 DEF FlushStamps
<1>9. ASSUME NEW t \in Ticks, TickStart(t) PROVE StampOrder'
  BY <1>9 DEF TickStart
<1>10. ASSUME NEW t \in Ticks, SweepExhausted(t) PROVE StampOrder'
  BY <1>10 DEF SweepExhausted
<1>11. ASSUME NEW t \in Ticks, ClaimNothing(t) PROVE StampOrder'
  BY <1>11 DEF ClaimNothing
<1>12. ASSUME NEW t \in Ticks, ClaimSome(t) PROVE StampOrder'
  BY <1>12, ClaimedWasStored DEF ClaimSome, Claimable
<1>13. ASSUME NEW t \in Ticks, StartDispatch(t) PROVE StampOrder'
  BY <1>13 DEF StartDispatch
<1>14. ASSUME NEW t \in Ticks, NEW r \in Rows, ChainSucceeds(t, r) PROVE StampOrder'
  <2>1. \A u \in Ticks : Held(u)' \subseteq Held(u) /\ Busy(u)' \subseteq Busy(u)
    BY <1>14 DEF ChainSucceeds
  <2>2. pc[t] = "dispatch"
    BY <1>14 DEF ChainSucceeds
  <2>3. \A u \in Ticks \ {t} : done'[u] = done[u]
    BY <1>14 DEF ChainSucceeds
  <2>4. QED
    BY <1>14, <2>1, <2>2, <2>3 DEF ChainSucceeds
<1>15. ASSUME NEW t \in Ticks, NEW r \in Rows, ChainErrs(t, r) PROVE StampOrder'
  <2>1. \A u \in Ticks : Held(u)' \subseteq Held(u) /\ Busy(u)' \subseteq Busy(u)
    BY <1>15 DEF ChainErrs
  <2>2. pc[t] = "dispatch"
    BY <1>15 DEF ChainErrs
  <2>3. \A u \in Ticks \ {t} : done'[u] = done[u]
    BY <1>15 DEF ChainErrs
  <2>4. QED
    BY <1>15, <2>1, <2>2, <2>3 DEF ChainErrs
<1>16. ASSUME NEW t \in Ticks, NEW r \in Rows, EnvelopeThrows(t, r) PROVE StampOrder'
  BY <1>16 DEF EnvelopeThrows
<1>17. ASSUME NEW t \in Ticks, NEW r \in Rows, MarkPublished(t, r) PROVE StampOrder'
  BY <1>17 DEF MarkPublished
<1>18. ASSUME NEW t \in Ticks, NEW r \in Rows, MarkFailed(t, r) PROVE StampOrder'
  BY <1>18 DEF MarkFailed
<1>19. ASSUME NEW t \in Ticks, NEW r \in Rows, MarkErrorFails(t, r) PROVE StampOrder'
  BY <1>19 DEF MarkErrorFails
<1>20. ASSUME NEW t \in Ticks, BatchEnds(t) PROVE StampOrder'
  <2>a. UNCHANGED <<queue, lane>>
    BY <1>20 DEF BatchEnds
  <2>b. \A u \in Ticks : done'[u] = done[u] \/ done'[u] = {}
    BY <1>20 DEF BatchEnds
  <2>1. \A u \in Ticks : Held(u)' \subseteq Held(u) /\ Busy(u)' = Busy(u)
    BY <2>a, <2>b
  <2>2. Busy(t) = {} /\ pc'[t] # "stamp2"
    BY <1>20 DEF BatchEnds
  <2>3. \A u \in Ticks \ {t} : done'[u] = done[u] /\ pc'[u] = pc[u]
    BY <1>20 DEF BatchEnds
  <2>4. UNCHANGED <<tableVars, stampQueue, sync>>
    BY <1>20 DEF BatchEnds
  <2>5. \A u \in Ticks : \A r \in Held(u)' : attempts'[r] > 0
    BY <2>1, <2>4
  <2>6. \A u \in Ticks : pc'[u] # "dispatch" => Busy(u)' = {}
    BY <2>1, <2>2, <2>3, SMTT(30)
  <2>7. \A u \in Ticks : pc'[u] = "stamp2" => done'[u] \cap stored' \subseteq publishedAt'
    BY <2>2, <2>3, <2>4
  <2>8. QED
    BY <2>4, <2>5, <2>6, <2>7
<1>21. ASSUME NEW t \in Ticks, StampPublished(t) PROVE StampOrder'
  BY <1>21 DEF StampPublished
<1>22. ASSUME NEW t \in Ticks, StampDispatched(t) PROVE StampOrder'
  BY <1>22, ZenonT(40) DEF StampDispatched
<1>23. ASSUME NEW t \in Ticks, StampFails(t) PROVE StampOrder'
  <2>a. UNCHANGED <<queue, lane>>
    BY <1>23 DEF StampFails
  <2>b. \A u \in Ticks : done'[u] = done[u] \/ done'[u] = {}
    BY <1>23 DEF StampFails
  <2>1. \A u \in Ticks : Held(u)' \subseteq Held(u) /\ Busy(u)' = Busy(u)
    BY <2>a, <2>b
  <2>2. Busy(t) = {} /\ pc'[t] # "stamp2"
    BY <1>23 DEF StampFails
  <2>3. \A u \in Ticks \ {t} : done'[u] = done[u] /\ pc'[u] = pc[u]
    BY <1>23 DEF StampFails
  <2>4. UNCHANGED <<tableVars, stampQueue, sync>>
    BY <1>23 DEF StampFails
  <2>5. \A u \in Ticks : \A r \in Held(u)' : attempts'[r] > 0
    BY <2>1, <2>4
  <2>6. \A u \in Ticks : pc'[u] # "dispatch" => Busy(u)' = {}
    BY <2>1, <2>2, <2>3, SMTT(30)
  <2>7. \A u \in Ticks : pc'[u] = "stamp2" => done'[u] \cap stored' \subseteq publishedAt'
    BY <2>2, <2>3, <2>4
  <2>8. QED
    BY <2>4, <2>5, <2>6, <2>7
<1>24. ASSUME NEW t \in Ticks, Hang(t) PROVE StampOrder'
  BY <1>24 DEF Hang
<1>25. ASSUME CheckWedge PROVE StampOrder'
  BY <1>25 DEF CheckWedge
<1>26. ASSUME Crash PROVE StampOrder'
  BY <1>26 DEF Crash
<1>27. ASSUME Stop PROVE StampOrder'
  BY <1>27 DEF Stop
<1>28. ASSUME Exit PROVE StampOrder'
  BY <1>28 DEF Exit
<1>29. ASSUME Boot PROVE StampOrder'
  BY <1>29 DEF Boot
<1>30. ASSUME Pass PROVE StampOrder'
  BY <1>30 DEF Pass
<1>31. CASE UNCHANGED vars
  BY <1>31 DEF vars
<1>32. QED
  BY <1>1, <1>2, <1>3, <1>4, <1>5, <1>6, <1>7, <1>8, <1>9, <1>10, <1>11, <1>12,
     <1>13, <1>14, <1>15, <1>16, <1>17, <1>18, <1>19, <1>20, <1>21, <1>22, <1>23, <1>24,
     <1>25, <1>26, <1>27, <1>28, <1>29, <1>30, <1>31
  DEF Next, TickStep, SyncStep, SyncPersist, Claim, ChainReturns, MarkError, MarkDispatched

LifeInv == Types /\ ListedRan /\ SyncApart /\ StampOrder

\* How the columns of one row may move.
RowMoves(r) ==
  \/ StatusOf(r)' = StatusOf(r)
  \/ /\ <<StatusOf(r), StatusOf(r)'>> \in Promise!Allowed
     /\ StatusOf(r)' = "good" => r \in ran'

LEMMA RowMovesStep ==
  ASSUME LifeInv, LifeInv', [Next]_vars, NEW x \in Rows PROVE RowMoves(x)
<1> USE OutboxAssumption
    DEF LifeInv, Types, TableTypes, TickTypes, ListedRan, SyncApart, StampOrder, Held, Busy,
        Pending,
        tableVars, latchVars, tickVars, syncVars, history, env,
        Writes, Fails, Kick, Finish, LeaseBatch, NextDrain, LoseMemory, WriteStamps, Exhausted,
        RowMoves, StatusOf, Promise!Allowed
<1>1. ASSUME NEW r \in Rows, CommitInTx(r) PROVE RowMoves(x)
  BY <1>1 DEF CommitInTx
<1>2. ASSUME NEW r \in Rows, Purge(r) PROVE RowMoves(x)
  BY <1>2 DEF Purge
<1>3. ASSUME NEW r \in SyncRows, SyncPublish(r) PROVE RowMoves(x)
  BY <1>3 DEF SyncPublish
<1>4. ASSUME NEW r \in SyncRows, PersistRow(r) PROVE RowMoves(x)
  BY <1>4 DEF PersistRow
<1>5. ASSUME NEW r \in SyncRows, PersistFails(r) PROVE RowMoves(x)
  BY <1>5 DEF PersistFails
<1>6. ASSUME NEW r \in SyncRows, BackgroundResolves(r) PROVE RowMoves(x)
  BY <1>6 DEF BackgroundResolves
<1>7. ASSUME NEW r \in SyncRows, QueueStamp(r) PROVE RowMoves(x)
  BY <1>7 DEF QueueStamp
<1>8. ASSUME FlushStamps PROVE RowMoves(x)
  BY <1>8 DEF FlushStamps
<1>9. ASSUME NEW t \in Ticks, TickStart(t) PROVE RowMoves(x)
  BY <1>9 DEF TickStart
<1>10. ASSUME NEW t \in Ticks, SweepExhausted(t) PROVE RowMoves(x)
  BY <1>10 DEF SweepExhausted
<1>11. ASSUME NEW t \in Ticks, ClaimNothing(t) PROVE RowMoves(x)
  BY <1>11 DEF ClaimNothing
<1>12. ASSUME NEW t \in Ticks, ClaimSome(t) PROVE RowMoves(x)
  BY <1>12, ClaimedWasStored DEF ClaimSome, Claimable
<1>13. ASSUME NEW t \in Ticks, StartDispatch(t) PROVE RowMoves(x)
  BY <1>13 DEF StartDispatch
<1>14. ASSUME NEW t \in Ticks, NEW r \in Rows, ChainSucceeds(t, r) PROVE RowMoves(x)
  BY <1>14 DEF ChainSucceeds
<1>15. ASSUME NEW t \in Ticks, NEW r \in Rows, ChainErrs(t, r) PROVE RowMoves(x)
  BY <1>15 DEF ChainErrs
<1>16. ASSUME NEW t \in Ticks, NEW r \in Rows, EnvelopeThrows(t, r) PROVE RowMoves(x)
  BY <1>16 DEF EnvelopeThrows
<1>17. ASSUME NEW t \in Ticks, NEW r \in Rows, MarkPublished(t, r) PROVE RowMoves(x)
  BY <1>17 DEF MarkPublished
<1>18. ASSUME NEW t \in Ticks, NEW r \in Rows, MarkFailed(t, r) PROVE RowMoves(x)
  BY <1>18 DEF MarkFailed
<1>19. ASSUME NEW t \in Ticks, NEW r \in Rows, MarkErrorFails(t, r) PROVE RowMoves(x)
  BY <1>19 DEF MarkErrorFails
<1>20. ASSUME NEW t \in Ticks, BatchEnds(t) PROVE RowMoves(x)
  BY <1>20 DEF BatchEnds
<1>21. ASSUME NEW t \in Ticks, StampPublished(t) PROVE RowMoves(x)
  BY <1>21 DEF StampPublished
<1>22. ASSUME NEW t \in Ticks, StampDispatched(t) PROVE RowMoves(x)
  BY <1>22 DEF StampDispatched
<1>23. ASSUME NEW t \in Ticks, StampFails(t) PROVE RowMoves(x)
  BY <1>23 DEF StampFails
<1>24. ASSUME NEW t \in Ticks, Hang(t) PROVE RowMoves(x)
  BY <1>24 DEF Hang
<1>25. ASSUME CheckWedge PROVE RowMoves(x)
  BY <1>25 DEF CheckWedge
<1>26. ASSUME Crash PROVE RowMoves(x)
  BY <1>26 DEF Crash
<1>27. ASSUME Stop PROVE RowMoves(x)
  BY <1>27 DEF Stop
<1>28. ASSUME Exit PROVE RowMoves(x)
  BY <1>28 DEF Exit
<1>29. ASSUME Boot PROVE RowMoves(x)
  BY <1>29 DEF Boot
<1>30. ASSUME Pass PROVE RowMoves(x)
  BY <1>30 DEF Pass
<1>31. CASE UNCHANGED vars
  BY <1>31 DEF vars
<1> HIDE DEF LifeInv, Pending, Held, Busy, Kick, Finish, LeaseBatch, NextDrain,
             LoseMemory, WriteStamps, RowMoves, StatusOf
<1>32. QED
  BY <1>1, <1>2, <1>3, <1>4, <1>5, <1>6, <1>7, <1>8, <1>9, <1>10, <1>11, <1>12,
     <1>13, <1>14, <1>15, <1>16, <1>17, <1>18, <1>19, <1>20, <1>21, <1>22, <1>23, <1>24,
     <1>25, <1>26, <1>27, <1>28, <1>29, <1>30, <1>31
  DEF Next, TickStep, SyncStep, SyncPersist, Claim, ChainReturns, MarkError, MarkDispatched

LEMMA LifeInit == Init => LifeInv
<1> SUFFICES ASSUME Init PROVE LifeInv
  OBVIOUS
<1>1. Types
  BY TypesInit
<1>2. ListedRan /\ SyncApart /\ StampOrder
  BY OutboxAssumption
  DEF Init, ListedRan, SyncApart, StampOrder, Held, Busy, Pending
<1>3. QED
  BY <1>1, <1>2 DEF LifeInv

LEMMA LifeStep == LifeInv /\ [Next]_vars => LifeInv'
BY TypesStep, ListedRanStep, SyncApartStep, StampOrderStep DEF LifeInv

\* A chain that ran has run.
LEMMA RanGrows == ASSUME [Next]_vars PROVE ran \subseteq ran'
BY DEF Next, vars, TickStep, SyncStep, history, CommitInTx, Purge, SyncPublish, SyncPersist,
       PersistRow, PersistFails, BackgroundResolves, QueueStamp, FlushStamps, TickStart,
       SweepExhausted, Claim, ClaimNothing, ClaimSome, StartDispatch, ChainReturns,
       ChainSucceeds, ChainErrs, EnvelopeThrows, MarkError, MarkPublished, MarkFailed,
       MarkErrorFails, BatchEnds, MarkDispatched, StampPublished, StampDispatched,
       StampFails, Hang, CheckWedge, Crash, Stop, Exit, Boot, Pass

\* The drainer never takes a row that publish() dispatched itself, whatever became
\* of the stamp of that row.
THEOREM PublisherOnly == Spec => []SyncRowsNotDrained
<1>1. LifeInv => SyncRowsNotDrained
  BY DEF LifeInv, SyncApart, SyncRowsNotDrained
<1>2. QED
  BY LifeInit, LifeStep, <1>1, PTL DEF Spec

\* The outbox implements its contract: as its columns tell it, an event is owed
\* until it is closed, closed as good only after its chain ran to its end, and
\* deleted only after it was closed as good.
THEOREM ImplementsContract == Spec => KeepsContract
<1>1. Init => Promise!ContractInit
  <2> SUFFICES ASSUME Init PROVE Promise!ContractInit
    OBVIOUS
  <2>1. ASSUME NEW r \in Rows PROVE StatusOf(r) = "none"
    BY DEF Init, StatusOf, Pending
  <2>2. QED
    BY <2>1 DEF Init, Promise!ContractInit
<1>2. LifeInv /\ LifeInv' /\ [Next]_vars
        => [Promise!ContractStep]_<<[r \in Rows |-> StatusOf(r)], ran>>
  <2> SUFFICES ASSUME LifeInv, LifeInv', [Next]_vars PROVE Promise!ContractStep
    OBVIOUS
  <2>1. ASSUME NEW r \in Rows PROVE RowMoves(r)
    BY RowMovesStep
  <2>2. QED
    BY <2>1, RanGrows DEF RowMoves, Promise!ContractStep
<1>3. QED
  BY LifeInit, LifeStep, <1>1, <1>2, PTL DEF Spec, KeepsContract, Promise!Contract

-----------------------------------------------------------------------------
(* Errors before green.                                                    *)

\* What an activation holds is in the table, and a row waiting in its queue is
\* in none of its lanes.
HeldStored == \A t \in Ticks : Held(t) \subseteq stored /\ queue[t] \cap Busy(t) = {}

LEMMA HeldStoredStep ==
  ASSUME Types, StampOrder, HeldStored, [Next]_vars PROVE HeldStored'
<1> USE OutboxAssumption
    DEF Types, TableTypes, TickTypes, StampOrder, HeldStored, Held, Busy,
        tableVars, latchVars, tickVars, syncVars, history, env,
        Writes, Fails, Kick, Finish, LeaseBatch, NextDrain, LoseMemory, WriteStamps, Oldest
<1>1. ASSUME NEW r \in Rows, CommitInTx(r) PROVE HeldStored'
  BY <1>1 DEF CommitInTx
<1>2. ASSUME NEW r \in Rows, Purge(r) PROVE HeldStored'
  BY <1>2 DEF Purge
<1>3. ASSUME NEW r \in SyncRows, SyncPublish(r) PROVE HeldStored'
  BY <1>3 DEF SyncPublish
<1>4. ASSUME NEW r \in SyncRows, PersistRow(r) PROVE HeldStored'
  BY <1>4 DEF PersistRow
<1>5. ASSUME NEW r \in SyncRows, PersistFails(r) PROVE HeldStored'
  BY <1>5 DEF PersistFails
<1>6. ASSUME NEW r \in SyncRows, BackgroundResolves(r) PROVE HeldStored'
  BY <1>6 DEF BackgroundResolves
<1>7. ASSUME NEW r \in SyncRows, QueueStamp(r) PROVE HeldStored'
  BY <1>7 DEF QueueStamp
<1>8. ASSUME FlushStamps PROVE HeldStored'
  BY <1>8 DEF FlushStamps
<1>9. ASSUME NEW t \in Ticks, TickStart(t) PROVE HeldStored'
  BY <1>9 DEF TickStart
<1>10. ASSUME NEW t \in Ticks, SweepExhausted(t) PROVE HeldStored'
  BY <1>10 DEF SweepExhausted
<1>11. ASSUME NEW t \in Ticks, ClaimNothing(t) PROVE HeldStored'
  BY <1>11 DEF ClaimNothing
<1>12. ASSUME NEW t \in Ticks, ClaimSome(t) PROVE HeldStored'
  BY <1>12, ClaimedWasStored DEF ClaimSome
<1>13. ASSUME NEW t \in Ticks, StartDispatch(t) PROVE HeldStored'
  BY <1>13 DEF StartDispatch
<1>14. ASSUME NEW t \in Ticks, NEW r \in Rows, ChainSucceeds(t, r) PROVE HeldStored'
  BY <1>14 DEF ChainSucceeds
<1>15. ASSUME NEW t \in Ticks, NEW r \in Rows, ChainErrs(t, r) PROVE HeldStored'
  BY <1>15 DEF ChainErrs
<1>16. ASSUME NEW t \in Ticks, NEW r \in Rows, EnvelopeThrows(t, r) PROVE HeldStored'
  BY <1>16 DEF EnvelopeThrows
<1>17. ASSUME NEW t \in Ticks, NEW r \in Rows, MarkPublished(t, r) PROVE HeldStored'
  BY <1>17 DEF MarkPublished
<1>18. ASSUME NEW t \in Ticks, NEW r \in Rows, MarkFailed(t, r) PROVE HeldStored'
  BY <1>18 DEF MarkFailed
<1>19. ASSUME NEW t \in Ticks, NEW r \in Rows, MarkErrorFails(t, r) PROVE HeldStored'
  BY <1>19 DEF MarkErrorFails
<1>20. ASSUME NEW t \in Ticks, BatchEnds(t) PROVE HeldStored'
  BY <1>20 DEF BatchEnds
<1>21. ASSUME NEW t \in Ticks, StampPublished(t) PROVE HeldStored'
  BY <1>21 DEF StampPublished
<1>22. ASSUME NEW t \in Ticks, StampDispatched(t) PROVE HeldStored'
  BY <1>22 DEF StampDispatched
<1>23. ASSUME NEW t \in Ticks, StampFails(t) PROVE HeldStored'
  BY <1>23 DEF StampFails
<1>24. ASSUME NEW t \in Ticks, Hang(t) PROVE HeldStored'
  BY <1>24 DEF Hang
<1>25. ASSUME CheckWedge PROVE HeldStored'
  BY <1>25 DEF CheckWedge
<1>26. ASSUME Crash PROVE HeldStored'
  BY <1>26 DEF Crash
<1>27. ASSUME Stop PROVE HeldStored'
  BY <1>27 DEF Stop
<1>28. ASSUME Exit PROVE HeldStored'
  BY <1>28 DEF Exit
<1>29. ASSUME Boot PROVE HeldStored'
  BY <1>29 DEF Boot
<1>30. ASSUME Pass PROVE HeldStored'
  BY <1>30 DEF Pass
<1>31. CASE UNCHANGED vars
  BY <1>31 DEF vars
<1>32. QED
  BY <1>1, <1>2, <1>3, <1>4, <1>5, <1>6, <1>7, <1>8, <1>9, <1>10, <1>11, <1>12,
     <1>13, <1>14, <1>15, <1>16, <1>17, <1>18, <1>19, <1>20, <1>21, <1>22, <1>23, <1>24,
     <1>25, <1>26, <1>27, <1>28, <1>29, <1>30, <1>31
  DEF Next, TickStep, SyncStep, SyncPersist, Claim, ChainReturns, MarkError, MarkDispatched

\* Nothing has failed since the start: no write, no call and no process.
Untroubled == blips = 0 /\ restarts = 0 /\ hung = {}

\* The error of this row is on the row, or on its way there.
ErrorKept(r) == r \in failedAt \/ \E t \in Ticks : lane[t][r] \in {"mark1", "mark2"}

\* Only a shutdown stops the process, and an untroubled drainer forgets no error.
ErrorsKept ==
  /\ proc = "stopping" => restarts > 0
  /\ Untroubled => \A r \in erred \ SyncRows : ErrorKept(r)

LEMMA ErrorsKeptStep ==
  ASSUME Types, HeldStored, ErrorsKept, [Next]_vars PROVE ErrorsKept'
<1> USE OutboxAssumption
    DEF Types, TableTypes, TickTypes, OtherTypes, HeldStored, Held, Busy,
        Untroubled, ErrorKept, ErrorsKept,
        tableVars, latchVars, tickVars, syncVars, history, env,
        Writes, Fails, Kick, Finish, LeaseBatch, NextDrain, LoseMemory, WriteStamps, Oldest
<1>1. ASSUME NEW r \in Rows, CommitInTx(r) PROVE ErrorsKept'
  BY <1>1 DEF CommitInTx
<1>2. ASSUME NEW r \in Rows, Purge(r) PROVE ErrorsKept'
  BY <1>2 DEF Purge
<1>3. ASSUME NEW r \in SyncRows, SyncPublish(r) PROVE ErrorsKept'
  BY <1>3 DEF SyncPublish
<1>4. ASSUME NEW r \in SyncRows, PersistRow(r) PROVE ErrorsKept'
  BY <1>4 DEF PersistRow
<1>5. ASSUME NEW r \in SyncRows, PersistFails(r) PROVE ErrorsKept'
  BY <1>5 DEF PersistFails
<1>6. ASSUME NEW r \in SyncRows, BackgroundResolves(r) PROVE ErrorsKept'
  BY <1>6 DEF BackgroundResolves
<1>7. ASSUME NEW r \in SyncRows, QueueStamp(r) PROVE ErrorsKept'
  BY <1>7 DEF QueueStamp
<1>8. ASSUME FlushStamps PROVE ErrorsKept'
  BY <1>8 DEF FlushStamps
<1>9. ASSUME NEW t \in Ticks, TickStart(t) PROVE ErrorsKept'
  BY <1>9 DEF TickStart
<1>10. ASSUME NEW t \in Ticks, SweepExhausted(t) PROVE ErrorsKept'
  BY <1>10 DEF SweepExhausted
<1>11. ASSUME NEW t \in Ticks, ClaimNothing(t) PROVE ErrorsKept'
  BY <1>11 DEF ClaimNothing
<1>12. ASSUME NEW t \in Ticks, ClaimSome(t) PROVE ErrorsKept'
  BY <1>12 DEF ClaimSome
<1>13. ASSUME NEW t \in Ticks, StartDispatch(t) PROVE ErrorsKept'
  BY <1>13 DEF StartDispatch
<1>14. ASSUME NEW t \in Ticks, NEW r \in Rows, ChainSucceeds(t, r) PROVE ErrorsKept'
  BY <1>14 DEF ChainSucceeds
<1>15. ASSUME NEW t \in Ticks, NEW r \in Rows, ChainErrs(t, r) PROVE ErrorsKept'
  BY <1>15 DEF ChainErrs
<1>16. ASSUME NEW t \in Ticks, NEW r \in Rows, EnvelopeThrows(t, r) PROVE ErrorsKept'
  BY <1>16 DEF EnvelopeThrows
<1>17. ASSUME NEW t \in Ticks, NEW r \in Rows, MarkPublished(t, r) PROVE ErrorsKept'
  BY <1>17 DEF MarkPublished
<1>18. ASSUME NEW t \in Ticks, NEW r \in Rows, MarkFailed(t, r) PROVE ErrorsKept'
  BY <1>18 DEF MarkFailed
<1>19. ASSUME NEW t \in Ticks, NEW r \in Rows, MarkErrorFails(t, r) PROVE ErrorsKept'
  BY <1>19 DEF MarkErrorFails
<1>20. ASSUME NEW t \in Ticks, BatchEnds(t) PROVE ErrorsKept'
  BY <1>20 DEF BatchEnds
<1>21. ASSUME NEW t \in Ticks, StampPublished(t) PROVE ErrorsKept'
  BY <1>21 DEF StampPublished
<1>22. ASSUME NEW t \in Ticks, StampDispatched(t) PROVE ErrorsKept'
  BY <1>22 DEF StampDispatched
<1>23. ASSUME NEW t \in Ticks, StampFails(t) PROVE ErrorsKept'
  BY <1>23 DEF StampFails
<1>24. ASSUME NEW t \in Ticks, Hang(t) PROVE ErrorsKept'
  BY <1>24 DEF Hang
<1>25. ASSUME CheckWedge PROVE ErrorsKept'
  BY <1>25 DEF CheckWedge
<1>26. ASSUME Crash PROVE ErrorsKept'
  BY <1>26 DEF Crash
<1>27. ASSUME Stop PROVE ErrorsKept'
  BY <1>27 DEF Stop
<1>28. ASSUME Exit PROVE ErrorsKept'
  BY <1>28 DEF Exit
<1>29. ASSUME Boot PROVE ErrorsKept'
  BY <1>29 DEF Boot
<1>30. ASSUME Pass PROVE ErrorsKept'
  BY <1>30 DEF Pass
<1>31. CASE UNCHANGED vars
  BY <1>31 DEF vars
<1>32. QED
  BY <1>1, <1>2, <1>3, <1>4, <1>5, <1>6, <1>7, <1>8, <1>9, <1>10, <1>11, <1>12,
     <1>13, <1>14, <1>15, <1>16, <1>17, <1>18, <1>19, <1>20, <1>21, <1>22, <1>23, <1>24,
     <1>25, <1>26, <1>27, <1>28, <1>29, <1>30, <1>31
  DEF Next, TickStep, SyncStep, SyncPersist, Claim, ChainReturns, MarkError, MarkDispatched

\* While no write failed, none hung and the process did not restart, a row whose
\* dispatch reported an error is never closed green.
THEOREM ErrorsShown == Spec => []ErrorBeforeGreen
<1> DEFINE ErrInv == LifeInv /\ HeldStored /\ ErrorsKept
<1>1. Init => ErrInv
  BY LifeInit, OutboxAssumption DEF Init, HeldStored, Held, Busy, ErrorsKept
<1>2. ErrInv /\ [Next]_vars => ErrInv'
  BY LifeStep, HeldStoredStep, ErrorsKeptStep DEF LifeInv
<1>3. ErrInv => ErrorBeforeGreen
  BY OutboxAssumption DEF LifeInv, Types, OtherTypes, ErrorsKept, Untroubled, ErrorKept,
                          ErrorBeforeGreen
<1>4. QED
  BY <1>1, <1>2, <1>3, PTL DEF Spec

-----------------------------------------------------------------------------
(* The poison guard.                                                       *)

Owed == Rows \ SyncRows

\* Drain i of the activation in slot t may still claim a batch without another
\* sweep before it.
MayClaim(t, i) ==
  \/ pc[t] = "claim" /\ i >= drains[t]
  \/ pc[t] \in {"dispatch", "stamp1", "stamp2"} /\ i > drains[t]

Numbers == 0..MaxDrains - 1

\* The claims that may come before the next sweep.
Chances == {c \in Ticks \X Numbers : MayClaim(c[1], c[2])}

ClaimBound == MaxClaims - 1 + MaxDrains * (Cardinality(Ticks) + blips)

\* A row is claimed within the bound, and once it reached the ceiling there is
\* room left for each claim that comes before the next sweep.
Guarded ==
  \A r \in Owed :
    /\ attempts[r] <= ClaimBound
    /\ r \in Pending /\ attempts[r] >= MaxClaims
         => attempts[r] + Cardinality(Chances) <= ClaimBound

\* There are at most MaxDrains claims per slot ahead.
LEMMA ChancesFinite ==
  ASSUME NEW C \in SUBSET (Ticks \X Numbers)
  PROVE  /\ IsFiniteSet(C) /\ Cardinality(C) \in Nat
         /\ Cardinality(Ticks) \in Nat
         /\ Cardinality(C) <= Cardinality(Ticks) * MaxDrains
<1>1. IsFiniteSet(Ticks) /\ Cardinality(Ticks) \in Nat
  BY OutboxAssumption, FS_CardinalityType
<1>2. 0 \in Int /\ MaxDrains - 1 \in Int /\ 0 <= MaxDrains - 1
  BY OutboxAssumption
<1>3. IsFiniteSet(Numbers) /\ Cardinality(Numbers) = (MaxDrains - 1) - 0 + 1
  BY <1>2, FS_Interval DEF Numbers
<1>4. Cardinality(Numbers) = MaxDrains
  BY <1>3, OutboxAssumption
<1>5. /\ IsFiniteSet(Ticks \X Numbers)
      /\ Cardinality(Ticks \X Numbers) = Cardinality(Ticks) * Cardinality(Numbers)
  BY <1>1, <1>3, FS_Product
<1>6. /\ IsFiniteSet(C) /\ Cardinality(C) \in Nat
      /\ Cardinality(C) <= Cardinality(Ticks \X Numbers)
  BY <1>5, FS_Subset, FS_CardinalityType
<1>7. QED
  BY <1>1, <1>4, <1>5, <1>6

\* The bound grows by MaxDrains with each failed write.
LEMMA BoundGrows ==
  ASSUME NEW n \in Nat, NEW a \in Nat, NEW b \in Nat, NEW d \in Nat, b >= a
  PROVE  /\ d * (n + a) \in Nat
         /\ d * (n + b) >= d * (n + a)
         /\ d * (n + (a + 1)) = d * (n + a) + d
         /\ d * (n + a) >= n * d
<1>1. PICK k \in Nat : b = a + k
  <2>1. b - a \in Nat /\ b = a + (b - a)
    OBVIOUS
  <2>2. QED
    BY <2>1
<1>2. d * (n + b) = d * (n + a) + d * k
  BY <1>1
<1>3. d * (n + a) = n * d + d * a
  OBVIOUS
<1>4. d * k \in Nat /\ d * a \in Nat /\ n * d \in Nat
  OBVIOUS
<1>5. d * (n + (a + 1)) = d * (n + a) + d
  OBVIOUS
<1>6. QED
  BY <1>2, <1>3, <1>4, <1>5

\* A step that claims nothing: no count moves, no row with a count becomes pending
\* again, and no claim is added to those ahead.
Calm ==
  /\ \A r \in Owed : attempts'[r] = attempts[r]
  /\ \A r \in Owed : r \in Pending' => r \in Pending \/ attempts[r] = 0
  /\ \A t \in Ticks : \A i \in Numbers : MayClaim(t, i)' => MayClaim(t, i)
  /\ blips' >= blips

LEMMA CalmStep ==
  ASSUME Types, StampOrder, [Next]_vars,
         \A t \in Ticks : ~SweepExhausted(t) /\ ~ClaimSome(t)
  PROVE  Calm
<1> USE OutboxAssumption
    DEF Types, TableTypes, TickTypes, OtherTypes, StampOrder, Pending, Calm, MayClaim, Owed,
        Numbers,
        tableVars, latchVars, tickVars, syncVars, history, env,
        Writes, Fails, Kick, Finish, NextDrain, LoseMemory, WriteStamps
<1>1. ASSUME NEW r \in Rows, CommitInTx(r) PROVE Calm
  BY <1>1 DEF CommitInTx
<1>2. ASSUME NEW r \in Rows, Purge(r) PROVE Calm
  BY <1>2 DEF Purge
<1>3. ASSUME NEW r \in SyncRows, SyncPublish(r) PROVE Calm
  BY <1>3 DEF SyncPublish
<1>4. ASSUME NEW r \in SyncRows, PersistRow(r) PROVE Calm
  BY <1>4 DEF PersistRow
<1>5. ASSUME NEW r \in SyncRows, PersistFails(r) PROVE Calm
  BY <1>5 DEF PersistFails
<1>6. ASSUME NEW r \in SyncRows, BackgroundResolves(r) PROVE Calm
  BY <1>6 DEF BackgroundResolves
<1>7. ASSUME NEW r \in SyncRows, QueueStamp(r) PROVE Calm
  BY <1>7 DEF QueueStamp
<1>8. ASSUME FlushStamps PROVE Calm
  BY <1>8 DEF FlushStamps
<1>9. ASSUME NEW t \in Ticks, TickStart(t) PROVE Calm
  BY <1>9 DEF TickStart
<1>10. ASSUME NEW t \in Ticks, SweepExhausted(t) PROVE Calm
  BY <1>10
<1>11. ASSUME NEW t \in Ticks, ClaimNothing(t) PROVE Calm
  BY <1>11 DEF ClaimNothing
<1>12. ASSUME NEW t \in Ticks, ClaimSome(t) PROVE Calm
  BY <1>12
<1>13. ASSUME NEW t \in Ticks, StartDispatch(t) PROVE Calm
  BY <1>13 DEF StartDispatch
<1>14. ASSUME NEW t \in Ticks, NEW r \in Rows, ChainSucceeds(t, r) PROVE Calm
  BY <1>14 DEF ChainSucceeds
<1>15. ASSUME NEW t \in Ticks, NEW r \in Rows, ChainErrs(t, r) PROVE Calm
  BY <1>15 DEF ChainErrs
<1>16. ASSUME NEW t \in Ticks, NEW r \in Rows, EnvelopeThrows(t, r) PROVE Calm
  BY <1>16 DEF EnvelopeThrows
<1>17. ASSUME NEW t \in Ticks, NEW r \in Rows, MarkPublished(t, r) PROVE Calm
  BY <1>17 DEF MarkPublished
<1>18. ASSUME NEW t \in Ticks, NEW r \in Rows, MarkFailed(t, r) PROVE Calm
  BY <1>18 DEF MarkFailed
<1>19. ASSUME NEW t \in Ticks, NEW r \in Rows, MarkErrorFails(t, r) PROVE Calm
  BY <1>19 DEF MarkErrorFails
<1>20. ASSUME NEW t \in Ticks, BatchEnds(t) PROVE Calm
  BY <1>20 DEF BatchEnds
<1>21. ASSUME NEW t \in Ticks, StampPublished(t) PROVE Calm
  BY <1>21 DEF StampPublished
<1>22. ASSUME NEW t \in Ticks, StampDispatched(t) PROVE Calm
  BY <1>22 DEF StampDispatched
<1>23. ASSUME NEW t \in Ticks, StampFails(t) PROVE Calm
  BY <1>23 DEF StampFails
<1>24. ASSUME NEW t \in Ticks, Hang(t) PROVE Calm
  BY <1>24 DEF Hang
<1>25. ASSUME CheckWedge PROVE Calm
  BY <1>25 DEF CheckWedge
<1>26. ASSUME Crash PROVE Calm
  BY <1>26 DEF Crash
<1>27. ASSUME Stop PROVE Calm
  BY <1>27 DEF Stop
<1>28. ASSUME Exit PROVE Calm
  BY <1>28 DEF Exit
<1>29. ASSUME Boot PROVE Calm
  BY <1>29 DEF Boot
<1>30. ASSUME Pass PROVE Calm
  BY <1>30 DEF Pass
<1>31. CASE UNCHANGED vars
  BY <1>31 DEF vars
<1>32. QED
  BY <1>1, <1>2, <1>3, <1>4, <1>5, <1>6, <1>7, <1>8, <1>9, <1>10, <1>11, <1>12,
     <1>13, <1>14, <1>15, <1>16, <1>17, <1>18, <1>19, <1>20, <1>21, <1>22, <1>23, <1>24,
     <1>25, <1>26, <1>27, <1>28, <1>29, <1>30, <1>31
  DEF Next, TickStep, SyncStep, SyncPersist, Claim, ChainReturns, MarkError, MarkDispatched

LEMMA CalmGuards ==
  ASSUME Types, Types', Guarded, Calm PROVE Guarded'
<1> DEFINE T == Cardinality(Ticks)
<1>1. /\ IsFiniteSet(Chances) /\ Cardinality(Chances) \in Nat
      /\ Cardinality(Chances') \in Nat /\ T \in Nat
  BY ChancesFinite DEF Chances
<1>2. Chances' \subseteq Chances
  <2>1. ASSUME NEW c \in Chances' PROVE c \in Chances
    <3>1. /\ c \in Ticks \X Numbers /\ MayClaim(c[1], c[2])'
          /\ c[1] \in Ticks /\ c[2] \in Numbers
      BY DEF Chances
    <3>2. MayClaim(c[1], c[2])
      BY <3>1 DEF Calm
    <3>3. QED
      BY <3>1, <3>2 DEF Chances
  <2>2. QED
    BY <2>1
<1>3. Cardinality(Chances') <= Cardinality(Chances)
  BY <1>1, <1>2, FS_Subset
<1>4. ClaimBound' >= ClaimBound /\ ClaimBound \in Nat /\ ClaimBound' \in Nat
  <2>1. blips \in Nat /\ blips' \in Nat /\ blips' >= blips /\ MaxDrains \in Nat
    BY OutboxAssumption DEF Types, OtherTypes, Calm
  <2>2. /\ MaxDrains * (T + blips) \in Nat /\ MaxDrains * (T + blips') \in Nat
        /\ MaxDrains * (T + blips') >= MaxDrains * (T + blips)
    BY <1>1, <2>1, BoundGrows
  <2>3. QED
    BY <2>2, OutboxAssumption DEF ClaimBound
<1>5. ASSUME NEW r \in Owed
      PROVE  /\ attempts'[r] <= ClaimBound'
             /\ r \in Pending' /\ attempts'[r] >= MaxClaims
                  => attempts'[r] + Cardinality(Chances') <= ClaimBound'
  <2>1. attempts'[r] = attempts[r] /\ attempts[r] \in Nat
    BY DEF Calm, Types, TableTypes, Owed
  <2>2. r \in Pending' /\ attempts'[r] >= MaxClaims => r \in Pending /\ attempts[r] >= MaxClaims
    BY <2>1, OutboxAssumption DEF Calm
  <2>3. QED
    BY <1>1, <1>3, <1>4, <2>1, <2>2 DEF Guarded
<1>6. QED
  BY <1>5 DEF Guarded

\* A claim uses one of the chances ahead up, also when it is the one by which a
\* row reaches the ceiling.
LEMMA ClaimGuards ==
  ASSUME Types, Types', Guarded, NEW t \in Ticks, ClaimSome(t)
  PROVE  Guarded'
<1> DEFINE T == Cardinality(Ticks)
           n == drains[t]
           used == <<t, n>>
<1> USE OutboxAssumption
<1>1. n \in Numbers /\ pc[t] = "claim" /\ pc' = [pc EXCEPT ![t] = "dispatch"] /\ UNCHANGED drains
  BY DEF ClaimSome, LoopOver, LeaseBatch, Types, TickTypes, Numbers
<1>2. \A u \in Ticks : \A i \in Numbers : MayClaim(u, i)' => MayClaim(u, i) /\ <<u, i>> # used
  BY <1>1 DEF MayClaim, Types, TickTypes, Numbers
<1>3. used \in Chances
  BY <1>1 DEF Chances, MayClaim, Types, TickTypes, Numbers
<1>4. Chances' \subseteq Chances \ {used}
  <2>1. ASSUME NEW c \in Chances' PROVE c \in Chances \ {used}
    <3>1. /\ c \in Ticks \X Numbers /\ MayClaim(c[1], c[2])'
          /\ c[1] \in Ticks /\ c[2] \in Numbers /\ c = <<c[1], c[2]>>
      BY DEF Chances
    <3>2. MayClaim(c[1], c[2]) /\ c # used
      BY <1>2, <3>1
    <3>3. QED
      BY <3>1, <3>2 DEF Chances
  <2>2. QED
    BY <2>1
<1>5. /\ IsFiniteSet(Chances) /\ Cardinality(Chances) \in Nat
      /\ Cardinality(Chances) <= T * MaxDrains
      /\ Cardinality(Chances') \in Nat /\ T \in Nat
  BY ChancesFinite DEF Chances
<1>6. IsFiniteSet(Chances \ {used}) /\ Cardinality(Chances \ {used}) = Cardinality(Chances) - 1
  BY <1>3, <1>5, FS_RemoveElement
<1>7. Cardinality(Chances') + 1 <= Cardinality(Chances)
  <2>1. Cardinality(Chances') <= Cardinality(Chances \ {used})
    BY <1>4, <1>6, FS_Subset
  <2>2. QED
    BY <1>5, <1>6, <2>1
<1>8. /\ ClaimBound' = ClaimBound /\ ClaimBound \in Nat
      /\ MaxClaims - 1 + Cardinality(Chances) <= ClaimBound
      /\ MaxClaims - 1 <= ClaimBound
  <2>1. blips \in Nat /\ MaxDrains \in Nat /\ blips' = blips
    BY DEF Types, OtherTypes, ClaimSome, Writes
  <2>2. MaxDrains * (T + blips) \in Nat /\ MaxDrains * (T + blips) >= T * MaxDrains
    BY <1>5, <2>1, BoundGrows
  <2>3. ClaimBound = MaxClaims - 1 + MaxDrains * (T + blips) /\ ClaimBound' = ClaimBound
    BY <2>1 DEF ClaimBound
  <2>4. QED
    BY <1>5, <2>2, <2>3
<1>9. ASSUME NEW r \in Owed
      PROVE  /\ attempts'[r] <= ClaimBound'
             /\ r \in Pending' /\ attempts'[r] >= MaxClaims
                  => attempts'[r] + Cardinality(Chances') <= ClaimBound'
  <2>1. attempts[r] \in Nat /\ Pending' = Pending
    BY DEF Types, TableTypes, Owed, ClaimSome, LeaseBatch, Pending
  <2>2. \/ attempts'[r] = attempts[r]
        \/ attempts'[r] = attempts[r] + 1 /\ r \in Pending
    BY ClaimedWasStored DEF ClaimSome, LeaseBatch, Claimable, Owed
  <2>3. /\ attempts[r] <= ClaimBound
        /\ r \in Pending /\ attempts[r] >= MaxClaims
             => attempts[r] + Cardinality(Chances) <= ClaimBound
    BY DEF Guarded
  <2>4. CASE attempts'[r] = attempts[r]
    BY <1>5, <1>7, <1>8, <2>1, <2>3, <2>4
  <2>5. CASE attempts'[r] = attempts[r] + 1 /\ r \in Pending /\ attempts[r] >= MaxClaims
    BY <1>5, <1>7, <1>8, <2>1, <2>3, <2>5
  <2>6. CASE attempts'[r] = attempts[r] + 1 /\ attempts[r] < MaxClaims
    BY <1>5, <1>7, <1>8, <2>1, <2>6
  <2>7. QED
    BY <2>1, <2>2, <2>4, <2>5, <2>6
<1>10. QED
  BY <1>9 DEF Guarded

\* A sweep that succeeds leaves no pending row at the ceiling; one that fails opens
\* at most MaxDrains more claims, which is what the failed write adds to the bound.
LEMMA SweepGuards ==
  ASSUME Types, Types', Guarded, NEW t \in Ticks, SweepExhausted(t)
  PROVE  Guarded'
<1> DEFINE T == Cardinality(Ticks)
           Fresh == {t} \X Numbers
<1> USE OutboxAssumption
<1>1. /\ IsFiniteSet(Chances) /\ Cardinality(Chances) \in Nat
      /\ Cardinality(Chances') \in Nat /\ T \in Nat
  BY ChancesFinite DEF Chances
<1>2. attempts' = attempts /\ blips \in Nat /\ blips' \in Nat /\ MaxDrains \in Nat
  BY DEF SweepExhausted, Types, OtherTypes
<1>3. /\ MaxDrains * (T + blips) \in Nat
      /\ MaxDrains * (T + (blips + 1)) = MaxDrains * (T + blips) + MaxDrains
  BY <1>1, <1>2, BoundGrows
<1>4. \A r \in Owed : attempts[r] \in Nat
  BY DEF Types, TableTypes, Owed
<1>5. CASE Writes(t) /\ failedAt' = failedAt \cup Exhausted
  <2>1. ClaimBound' = ClaimBound
    BY <1>5 DEF Writes, ClaimBound
  <2>2. \A r \in Owed : r \in Pending' => attempts[r] < MaxClaims
    BY <1>4, <1>5 DEF SweepExhausted, Pending, Exhausted
  <2>3. QED
    BY <1>2, <1>4, <2>1, <2>2 DEF Guarded
<1>6. CASE Fails(t) /\ UNCHANGED failedAt
  <2>1. ClaimBound' = ClaimBound + MaxDrains /\ ClaimBound \in Nat
    BY <1>2, <1>3, <1>6 DEF Fails, ClaimBound
  <2>2. Pending' = Pending
    BY <1>6 DEF SweepExhausted, Pending
  <2>3. \A u \in Ticks : \A i \in Numbers : MayClaim(u, i)' => u = t \/ MayClaim(u, i)
    BY DEF SweepExhausted, MayClaim, Types, TickTypes
  <2>4. Chances' \subseteq Chances \cup Fresh
    <3>1. ASSUME NEW c \in Chances' PROVE c \in Chances \cup Fresh
      <4>1. /\ c \in Ticks \X Numbers /\ MayClaim(c[1], c[2])'
            /\ c[1] \in Ticks /\ c[2] \in Numbers /\ c = <<c[1], c[2]>>
        BY DEF Chances
      <4>2. c[1] = t \/ MayClaim(c[1], c[2])
        BY <2>3, <4>1
      <4>3. QED
        BY <4>1, <4>2 DEF Chances
    <3>2. QED
      BY <3>1
  <2>5. IsFiniteSet(Fresh) /\ Cardinality(Fresh) = MaxDrains
    <3>1. IsFiniteSet({t}) /\ Cardinality({t}) = 1
      BY FS_Singleton
    <3>2. IsFiniteSet(Numbers) /\ Cardinality(Numbers) = (MaxDrains - 1) - 0 + 1
      BY FS_Interval DEF Numbers
    <3>3. IsFiniteSet(Fresh) /\ Cardinality(Fresh) = Cardinality({t}) * Cardinality(Numbers)
      BY <3>1, <3>2, FS_Product
    <3>4. QED
      BY <3>1, <3>2, <3>3
  <2>6. Cardinality(Chances') <= Cardinality(Chances) + MaxDrains
    <3>1. /\ IsFiniteSet(Chances \cup Fresh)
          /\ Cardinality(Chances \cup Fresh) =
               Cardinality(Chances) + Cardinality(Fresh) - Cardinality(Chances \cap Fresh)
      BY <1>1, <2>5, FS_Union
    <3>2. Cardinality(Chances \cap Fresh) \in Nat
      BY <1>1, FS_Subset, FS_CardinalityType
    <3>3. Cardinality(Chances') <= Cardinality(Chances \cup Fresh)
      BY <2>4, <3>1, FS_Subset
    <3>4. QED
      BY <1>1, <2>5, <3>1, <3>2, <3>3
  <2>7. QED
    BY <1>1, <1>2, <1>4, <2>1, <2>2, <2>6 DEF Guarded
<1>7. QED
  BY <1>5, <1>6 DEF SweepExhausted

LEMMA GuardedInit == Init => Guarded
<1> SUFFICES ASSUME Init PROVE Guarded
  OBVIOUS
<1>1. Cardinality(Ticks) \in Nat /\ blips = 0 /\ MaxDrains \in Nat
  BY OutboxAssumption, FS_CardinalityType DEF Init
<1>2. MaxDrains * (Cardinality(Ticks) + blips) \in Nat
  BY <1>1, BoundGrows
<1>3. ClaimBound \in Nat
  BY <1>2, OutboxAssumption DEF ClaimBound
<1>4. \A r \in Owed : attempts[r] = 0
  BY DEF Init, Owed
<1>5. QED
  BY <1>3, <1>4, OutboxAssumption DEF Guarded

LEMMA GuardedStep ==
  ASSUME Types, Types', StampOrder, Guarded, [Next]_vars PROVE Guarded'
<1>1. CASE \E t \in Ticks : SweepExhausted(t)
  BY <1>1, SweepGuards
<1>2. CASE \E t \in Ticks : ClaimSome(t)
  BY <1>2, ClaimGuards
<1>3. CASE \A t \in Ticks : ~SweepExhausted(t) /\ ~ClaimSome(t)
  BY <1>3, CalmStep, CalmGuards
<1>4. QED
  BY <1>1, <1>2, <1>3

\* The poison guard bounds the claims of a row, whichever sweeps failed, however
\* many activations overlap and however often the process restarts.
THEOREM PoisonBounded == Spec => []RedeliveryBounded
<1> DEFINE GuardInv == LifeInv /\ Guarded
<1>1. Init => GuardInv
  BY LifeInit, GuardedInit
<1>2. GuardInv /\ [Next]_vars => GuardInv'
  BY LifeStep, GuardedStep DEF LifeInv
<1>3. GuardInv => RedeliveryBounded
  BY DEF Guarded, ClaimBound, Owed, RedeliveryBounded
<1>4. QED
  BY <1>1, <1>2, <1>3, PTL DEF Spec

-----------------------------------------------------------------------------
(* The claim query, for every backlog and every owner of its rows.         *)

\* The rows created before a row are finitely many.
LEMMA OlderFinite ==
  ASSUME NEW S \in SUBSET Nat, NEW r \in Nat
  PROVE  IsFiniteSet(Older(S, r)) /\ Cardinality(Older(S, r)) \in Nat
<1>1. Older(S, r) \subseteq 0..r
  <2>1. ASSUME NEW s \in Older(S, r) PROVE s \in 0..r
    <3>1. s \in S /\ s < r
      BY DEF Older
    <3>2. s \in Nat
      BY <3>1
    <3>3. QED
      BY <3>1, <3>2
  <2>2. QED
    BY <2>1
<1>2. IsFiniteSet(0..r)
  BY FS_Interval
<1>3. IsFiniteSet(Older(S, r))
  BY <1>1, <1>2, FS_Subset
<1>4. QED
  BY <1>3, FS_CardinalityType

\* Rows of one workspace rank by age.
LEMMA RankGrows ==
  ASSUME NEW C \in SUBSET Nat, NEW teamOf, NEW r \in C, NEW s \in C,
         teamOf[r] = teamOf[s]
  PROVE  /\ TeamRank(C, teamOf, r) \in Nat /\ TeamRank(C, teamOf, s) \in Nat
         /\ r < s => TeamRank(C, teamOf, r) < TeamRank(C, teamOf, s)
<1> DEFINE M == Mates(C, teamOf, r)
<1>1. M \in SUBSET Nat /\ Mates(C, teamOf, s) = M /\ r \in M
  BY DEF Mates
<1>2. /\ IsFiniteSet(Older(M, r)) /\ Cardinality(Older(M, r)) \in Nat
      /\ IsFiniteSet(Older(M, s)) /\ Cardinality(Older(M, s)) \in Nat
  BY <1>1, OlderFinite
<1>3. ASSUME r < s PROVE Cardinality(Older(M, r)) < Cardinality(Older(M, s))
  <2>1. r \notin Older(M, r)
    BY DEF Older
  <2>2. Older(M, r) \cup {r} \subseteq Older(M, s)
    <3>1. ASSUME NEW x \in Older(M, r) \cup {r} PROVE x \in Older(M, s)
      BY <1>1, <1>3 DEF Older
    <3>2. QED
      BY <3>1
  <2>3. Cardinality(Older(M, r) \cup {r}) = Cardinality(Older(M, r)) + 1
    BY <1>2, <2>1, FS_AddElement
  <2>4. Cardinality(Older(M, r) \cup {r}) <= Cardinality(Older(M, s))
    BY <1>2, <2>2, FS_Subset
  <2>5. QED
    BY <1>2, <2>3, <2>4
<1>4. QED
  BY <1>1, <1>2, <1>3 DEF TeamRank

\* The candidates that come before a row in the batch.
Before(C, teamOf, r) == {s \in Candidates(C, teamOf) : RanksBefore(C, teamOf, s, r)}

\* The order of the batch is total, and going down it the rows before shrink.
LEMMA BatchOrder ==
  ASSUME NEW C \in SUBSET Nat, IsFiniteSet(C), NEW teamOf,
         NEW r \in C, NEW s \in Candidates(C, teamOf)
  PROVE  /\ IsFiniteSet(Before(C, teamOf, r)) /\ Cardinality(Before(C, teamOf, r)) \in Nat
         /\ s # r => RanksBefore(C, teamOf, s, r) \/ RanksBefore(C, teamOf, r, s)
         /\ RanksBefore(C, teamOf, s, r) =>
              Cardinality(Before(C, teamOf, s)) < Cardinality(Before(C, teamOf, r))
<1> DEFINE rank(x) == TeamRank(C, teamOf, x)
<1>1. Candidates(C, teamOf) \subseteq C
  BY DEF Candidates
<1>2. \A x \in C : rank(x) \in Nat
  BY RankGrows
<1>3. ASSUME NEW x \in C
      PROVE  IsFiniteSet(Before(C, teamOf, x)) /\ Cardinality(Before(C, teamOf, x)) \in Nat
  <2>1. Before(C, teamOf, x) \subseteq C
    BY <1>1 DEF Before
  <2>2. IsFiniteSet(Before(C, teamOf, x))
    BY <2>1, FS_Subset
  <2>3. QED
    BY <2>2, FS_CardinalityType
<1>4. s # r => RanksBefore(C, teamOf, s, r) \/ RanksBefore(C, teamOf, r, s)
  <2>1. rank(r) \in Nat /\ rank(s) \in Nat /\ r \in Nat /\ s \in Nat
    BY <1>1, <1>2
  <2>2. QED
    BY <2>1 DEF RanksBefore
<1>5. ASSUME RanksBefore(C, teamOf, s, r)
      PROVE  Cardinality(Before(C, teamOf, s)) < Cardinality(Before(C, teamOf, r))
  <2>1. s \in Before(C, teamOf, r)
    BY <1>5 DEF Before
  <2>2. s \notin Before(C, teamOf, s)
    <3>1. rank(s) \in Nat /\ s \in Nat
      BY <1>1, <1>2
    <3>2. QED
      BY <3>1 DEF Before, RanksBefore
  <2>3. ASSUME NEW x \in Before(C, teamOf, s) PROVE x \in Before(C, teamOf, r)
    <3>1. x \in Candidates(C, teamOf) /\ RanksBefore(C, teamOf, x, s)
      BY <2>3 DEF Before
    <3>2. /\ rank(x) \in Nat /\ rank(s) \in Nat /\ rank(r) \in Nat
          /\ x \in Nat /\ s \in Nat /\ r \in Nat
      BY <1>1, <1>2, <3>1
    <3>3. RanksBefore(C, teamOf, x, r)
      BY <1>5, <3>1, <3>2 DEF RanksBefore
    <3>4. QED
      BY <3>1, <3>3 DEF Before
  <2>4. Before(C, teamOf, s) \subseteq Before(C, teamOf, r) \ {s}
    BY <2>2, <2>3
  <2>5. s \in C
    BY <1>1
  <2>6. /\ IsFiniteSet(Before(C, teamOf, r) \ {s})
        /\ Cardinality(Before(C, teamOf, r) \ {s}) = Cardinality(Before(C, teamOf, r)) - 1
    BY <1>3, <2>1, FS_RemoveElement
  <2>7. Cardinality(Before(C, teamOf, s)) <= Cardinality(Before(C, teamOf, r) \ {s})
    BY <2>4, <2>6, FS_Subset
  <2>8. QED
    BY <1>3, <2>5, <2>6, <2>7
<1>6. QED
  BY <1>3, <1>4, <1>5

\* A candidate that ranks before a row of the batch is in the batch.
LEMMA BatchClosed ==
  ASSUME NEW C \in SUBSET Nat, IsFiniteSet(C), NEW teamOf,
         NEW r \in ClaimBatch(C, teamOf), NEW s \in Candidates(C, teamOf),
         RanksBefore(C, teamOf, s, r)
  PROVE  s \in ClaimBatch(C, teamOf)
<1>1. r \in C /\ s \in C /\ Cardinality(Before(C, teamOf, r)) < BatchSize
  BY DEF ClaimBatch, Candidates, Before
<1>2. /\ Cardinality(Before(C, teamOf, r)) \in Nat /\ Cardinality(Before(C, teamOf, s)) \in Nat
      /\ Cardinality(Before(C, teamOf, s)) < Cardinality(Before(C, teamOf, r))
  BY <1>1, BatchOrder
<1>3. Cardinality(Before(C, teamOf, s)) < BatchSize
  BY <1>1, <1>2, ClaimAssumption
<1>4. QED
  BY <1>3 DEF ClaimBatch, Before

\* A claim takes the rows of a workspace oldest first.
LEMMA OldestFirst ==
  ASSUME NEW C \in SUBSET Nat, IsFiniteSet(C), NEW teamOf,
         NEW r \in ClaimBatch(C, teamOf), NEW s \in C, teamOf[s] = teamOf[r], s < r
  PROVE  s \in ClaimBatch(C, teamOf)
<1>1. /\ r \in C /\ teamOf[r] \in TeamsInWindow(C, teamOf)
      /\ TeamRank(C, teamOf, r) < PerTeamCap
  BY DEF ClaimBatch, Candidates, TeamRank
<1>2. /\ TeamRank(C, teamOf, s) \in Nat /\ TeamRank(C, teamOf, r) \in Nat
      /\ TeamRank(C, teamOf, s) < TeamRank(C, teamOf, r)
  BY <1>1, RankGrows
<1>3. TeamRank(C, teamOf, s) < PerTeamCap
  BY <1>1, <1>2, ClaimAssumption
<1>4. s \in Candidates(C, teamOf)
  BY <1>1, <1>3 DEF Candidates, TeamRank
<1>5. RanksBefore(C, teamOf, s, r)
  BY <1>2 DEF RanksBefore
<1>6. QED
  BY <1>4, <1>5, BatchClosed

\* A set of rows has an oldest one.
LEMMA OldestExists ==
  ASSUME NEW S \in SUBSET Nat, S # {}
  PROVE  \E s \in S : \A x \in S : s <= x
<1> DEFINE Less == {p \in Nat \X Nat : p[1] < p[2]}
<1>1. IsWellFoundedOn(Less, Nat)
  BY NatLessThanWellFounded DEF OpToRel
<1>2. PICK s \in S : \A x \in S : <<x, s>> \notin Less
  <2> HIDE DEF Less
  <2>1. QED
    BY <1>1, WFMin
<1>3. ASSUME NEW x \in S PROVE s <= x
  <2>1. x \in Nat /\ s \in Nat
    OBVIOUS
  <2>2. ~(x < s)
    BY <1>2, <2>1
  <2>3. QED
    BY <2>1, <2>2
<1>4. QED
  BY <1>3

\* The first row that a claim leaves of a workspace: those before it were taken.
LEMMA FirstLeft ==
  ASSUME NEW C \in SUBSET Nat, IsFiniteSet(C), NEW teamOf, NEW w,
         NEW B \in SUBSET C, ~(Of(C, teamOf, w) \subseteq B)
  PROVE  \E s \in Of(C, teamOf, w) \ B :
           /\ Older(Mates(C, teamOf, s), s) \subseteq Of(B, teamOf, w)
           /\ TeamRank(C, teamOf, s) <= Cardinality(Of(B, teamOf, w))
<1> DEFINE L == Of(C, teamOf, w) \ B
<1>1. L # {} /\ L \in SUBSET Nat
  BY DEF Of
<1>2. PICK s \in L : \A x \in L : s <= x
  <2> HIDE DEF L
  <2>1. QED
    BY <1>1, OldestExists
<1>3. Older(Mates(C, teamOf, s), s) \subseteq Of(B, teamOf, w)
  <2>1. ASSUME NEW x \in Older(Mates(C, teamOf, s), s) PROVE x \in Of(B, teamOf, w)
    <3>1. x \in C /\ x < s /\ teamOf[x] = w
      BY DEF Older, Mates, Of
    <3>2. x \notin L
      <4>1. x \in Nat /\ s \in Nat
        BY <1>1, <3>1
      <4>2. ~(s <= x)
        BY <3>1, <4>1
      <4>3. QED
        BY <1>2, <4>2
    <3>3. QED
      BY <3>1, <3>2 DEF Of
  <2>2. QED
    BY <2>1
<1>4. IsFiniteSet(Of(B, teamOf, w))
  <2>1. Of(B, teamOf, w) \subseteq C
    BY DEF Of
  <2>2. QED
    BY <2>1, FS_Subset
<1>5. TeamRank(C, teamOf, s) <= Cardinality(Of(B, teamOf, w))
  BY <1>3, <1>4, FS_Subset DEF TeamRank
<1>6. QED
  BY <1>3, <1>5

\* Rows of one workspace have different ranks, so there are no more of them than
\* ranks to have.
LEMMA RanksDiffer ==
  ASSUME NEW C \in SUBSET Nat, NEW teamOf, NEW w, NEW n \in Nat,
         NEW S \in SUBSET Of(C, teamOf, w), IsFiniteSet(S),
         \A r \in S : TeamRank(C, teamOf, r) < n
  PROVE  Cardinality(S) <= n
<1> DEFINE f == [r \in S |-> TeamRank(C, teamOf, r)]
           T == 0..n - 1
<1>1. \A r \in S : r \in C /\ r \in Nat /\ teamOf[r] = w /\ TeamRank(C, teamOf, r) \in Nat
  <2>1. \A r \in S : r \in C /\ r \in Nat /\ teamOf[r] = w
    BY DEF Of
  <2>2. QED
    BY <2>1, RankGrows
<1>2. f \in [S -> T]
  BY <1>1
<1>3. ASSUME NEW a \in S, NEW b \in S, a # b PROVE f[a] # f[b]
  <2>1. \/ TeamRank(C, teamOf, a) < TeamRank(C, teamOf, b)
        \/ TeamRank(C, teamOf, b) < TeamRank(C, teamOf, a)
    <3>1. a < b \/ b < a
      BY <1>1, <1>3
    <3>2. QED
      BY <1>1, <3>1, RankGrows
  <2>2. QED
    BY <1>1, <2>1
<1>4. IsFiniteSet(T) /\ Cardinality(T) = n
  <2>1. /\ IsFiniteSet(0..n - 1)
        /\ Cardinality(0..n - 1) = IF 0 > n - 1 THEN 0 ELSE (n - 1) - 0 + 1
    BY FS_Interval, 0 \in Int, n - 1 \in Int
  <2>2. QED
    BY <2>1
<1>5. f \in Injection(S, T)
  BY <1>2, <1>3 DEF Injection, IsInjective
<1>6. QED
  <2> HIDE DEF f, T
  <2>1. Cardinality(S) <= Cardinality(T)
    BY <1>4, <1>5, FS_Injection
  <2>2. QED
    BY <1>4, <2>1

\* For every finite backlog and every owner of its rows: two workspaces of the window
\* share a batch evenly, and each gets its oldest rows.
THEOREM ClaimIsFair ==
  ASSUME NEW C \in SUBSET Nat, IsFiniteSet(C), NEW teamOf
  PROVE  Fair(ClaimBatch(C, teamOf), C, teamOf)
<1> DEFINE B == ClaimBatch(C, teamOf)
           got(w) == Of(B, teamOf, w)
<1>1. B \subseteq Candidates(C, teamOf) /\ Candidates(C, teamOf) \subseteq C
  BY DEF ClaimBatch, Candidates
<1>2. \A r \in B, s \in C : teamOf[s] = teamOf[r] /\ s < r => s \in B
  BY OldestFirst
<1>3. ASSUME NEW v \in TeamsInWindow(C, teamOf), NEW w \in TeamsInWindow(C, teamOf),
             Cardinality(got(v)) + 1 < Cardinality(got(w)),
             ~(Of(C, teamOf, v) \subseteq B)
      PROVE  FALSE
  <2>1. /\ IsFiniteSet(got(v)) /\ Cardinality(got(v)) \in Nat
        /\ IsFiniteSet(got(w)) /\ Cardinality(got(w)) \in Nat
    <3>1. got(v) \subseteq C /\ got(w) \subseteq C
      BY <1>1 DEF Of
    <3>2. IsFiniteSet(got(v)) /\ IsFiniteSet(got(w))
      BY <3>1, FS_Subset
    <3>3. QED
      BY <3>2, FS_CardinalityType
  <2>2. PICK s \in Of(C, teamOf, v) \ B : TeamRank(C, teamOf, s) <= Cardinality(got(v))
    BY <1>1, <1>3, FirstLeft
  <2>3. \E r \in got(w) : ~(TeamRank(C, teamOf, r) < Cardinality(got(w)) - 1)
    <3>1. SUFFICES ASSUME \A r \in got(w) : TeamRank(C, teamOf, r) < Cardinality(got(w)) - 1
                   PROVE  FALSE
      OBVIOUS
    <3>2. got(w) \in SUBSET Of(C, teamOf, w) /\ Cardinality(got(w)) - 1 \in Nat
      BY <1>1, <1>3, <2>1 DEF Of
    <3>3. Cardinality(got(w)) <= Cardinality(got(w)) - 1
      BY <2>1, <3>1, <3>2, RanksDiffer
    <3>4. QED
      BY <2>1, <3>3
  <2>4. PICK r \in got(w) : ~(TeamRank(C, teamOf, r) < Cardinality(got(w)) - 1)
    BY <2>3
  <2>5. /\ s \in C /\ s \notin B /\ teamOf[s] = v
        /\ r \in C /\ r \in B /\ r \in Candidates(C, teamOf)
    BY <1>1 DEF Of
  <2>6. TeamRank(C, teamOf, s) \in Nat /\ TeamRank(C, teamOf, r) \in Nat
    BY <2>5, RankGrows
  <2>7. TeamRank(C, teamOf, s) < TeamRank(C, teamOf, r)
    BY <1>3, <2>1, <2>2, <2>4, <2>6
  <2>8. TeamRank(C, teamOf, r) < PerTeamCap
    BY <2>5 DEF Candidates, TeamRank
  <2>9. s \in Candidates(C, teamOf)
    <3>1. TeamRank(C, teamOf, s) < PerTeamCap
      BY <2>6, <2>7, <2>8, ClaimAssumption
    <3>2. QED
      BY <2>5, <3>1 DEF Candidates, TeamRank
  <2>10. RanksBefore(C, teamOf, s, r)
    BY <2>7 DEF RanksBefore
  <2>11. s \in B
    BY <2>5, <2>9, <2>10, BatchClosed
  <2>12. QED
    BY <2>5, <2>11
<1>4. QED
  BY <1>2, <1>3 DEF Fair

\* A batch holds no more rows than asked for, and is short only when it holds every
\* candidate.
LEMMA BatchSized ==
  ASSUME NEW C \in SUBSET Nat, IsFiniteSet(C), NEW teamOf
  PROVE  /\ Cardinality(ClaimBatch(C, teamOf)) <= BatchSize
         /\ Cardinality(ClaimBatch(C, teamOf)) < BatchSize
              => ClaimBatch(C, teamOf) = Candidates(C, teamOf)
<1> DEFINE B == ClaimBatch(C, teamOf)
           place(r) == Cardinality(Before(C, teamOf, r))
<1>1. B \subseteq Candidates(C, teamOf) /\ Candidates(C, teamOf) \subseteq C
  BY DEF ClaimBatch, Candidates
<1>2. IsFiniteSet(B) /\ Cardinality(B) \in Nat
  <2>1. IsFiniteSet(B)
    BY <1>1, FS_Subset
  <2>2. QED
    BY <2>1, FS_CardinalityType
<1>3. \A r \in Candidates(C, teamOf) : place(r) \in Nat /\ (r \in B <=> place(r) < BatchSize)
  <2>1. ASSUME NEW r \in Candidates(C, teamOf) PROVE place(r) \in Nat
    BY <1>1, BatchOrder
  <2>2. ASSUME NEW r \in Candidates(C, teamOf) PROVE r \in B <=> place(r) < BatchSize
    BY DEF ClaimBatch, Before
  <2>3. QED
    BY <2>1, <2>2
<1>4. Cardinality(B) <= BatchSize
  <2> DEFINE f == [r \in B |-> place(r)]
             T == 0..BatchSize - 1
  <2>1. f \in [B -> T]
    BY <1>1, <1>3, ClaimAssumption
  <2>2. ASSUME NEW a \in B, NEW b \in B, a # b PROVE f[a] # f[b]
    <3>1. a \in C /\ b \in C /\ a \in Candidates(C, teamOf) /\ b \in Candidates(C, teamOf)
      BY <1>1
    <3>2. RanksBefore(C, teamOf, a, b) \/ RanksBefore(C, teamOf, b, a)
      BY <2>2, <3>1, BatchOrder
    <3>3. place(a) < place(b) \/ place(b) < place(a)
      BY <3>1, <3>2, BatchOrder
    <3>4. place(a) \in Nat /\ place(b) \in Nat
      BY <1>3, <3>1
    <3>5. QED
      BY <3>3, <3>4
  <2>3. IsFiniteSet(T) /\ Cardinality(T) = BatchSize
    <3>1. 0 \in Int /\ BatchSize - 1 \in Int /\ BatchSize \in Nat \ {0}
      BY ClaimAssumption
    <3>2. /\ IsFiniteSet(0..BatchSize - 1)
          /\ Cardinality(0..BatchSize - 1) =
               IF 0 > BatchSize - 1 THEN 0 ELSE (BatchSize - 1) - 0 + 1
      BY <3>1, FS_Interval
    <3>3. QED
      BY <3>1, <3>2
  <2>4. f \in Injection(B, T)
    BY <2>1, <2>2 DEF Injection, IsInjective
  <2>5. QED
    <3> HIDE DEF f, T
    <3>1. Cardinality(B) <= Cardinality(T)
      BY <2>3, <2>4, FS_Injection
    <3>2. QED
      BY <2>3, <3>1
<1>5. ASSUME NEW c \in Candidates(C, teamOf), c \notin B PROVE Cardinality(B) >= BatchSize
  <2> DEFINE D == Candidates(C, teamOf) \ B
             P == {n \in Nat : \E r \in D : place(r) = n}
  <2>1. P \in SUBSET Nat /\ place(c) \in P
    BY <1>3, <1>5
  <2>2. \E n \in P : \A k \in P : n <= k
    <3> HIDE DEF P
    <3>1. QED
      BY <2>1, OldestExists
  <2>3. PICK n \in P : \A k \in P : n <= k
    BY <2>2
  <2>4. PICK d \in D : place(d) = n
    OBVIOUS
  <2>5. Before(C, teamOf, d) \subseteq B
    <3>1. ASSUME NEW x \in Before(C, teamOf, d), x \notin B PROVE FALSE
      <4>1. x \in D /\ RanksBefore(C, teamOf, x, d) /\ d \in C
        BY <1>1, <3>1 DEF Before
      <4>2. place(x) < place(d)
        BY <4>1, BatchOrder
      <4>3. place(x) \in Nat /\ place(d) \in Nat
        BY <1>3, <4>1
      <4>4. place(x) \in P
        BY <4>1, <4>3
      <4>5. QED
        BY <2>3, <2>4, <4>2, <4>3, <4>4
    <3>2. QED
      BY <3>1
  <2>6. place(d) <= Cardinality(B)
    BY <1>2, <2>5, FS_Subset
  <2>7. place(d) \in Nat /\ ~(place(d) < BatchSize)
    BY <1>3
  <2>8. QED
    BY <1>2, <2>6, <2>7, ClaimAssumption
<1>6. Cardinality(B) < BatchSize => B = Candidates(C, teamOf)
  BY <1>1, <1>2, <1>5, ClaimAssumption
<1>7. QED
  BY <1>4, <1>6

\* For every finite backlog and every owner of its rows: a batch wastes no room, and
\* there is one as long as there is a row.
THEOREM ClaimIsFull ==
  ASSUME NEW C \in SUBSET Nat, IsFiniteSet(C), NEW teamOf
  PROVE  Full(ClaimBatch(C, teamOf), C, teamOf)
<1> DEFINE B == ClaimBatch(C, teamOf)
           got(w) == Of(B, teamOf, w)
<1>1. B \subseteq Candidates(C, teamOf) /\ Candidates(C, teamOf) \subseteq C
  BY DEF ClaimBatch, Candidates
<1>2. Cardinality(B) <= BatchSize
  BY BatchSized
<1>3. ASSUME Cardinality(B) < BatchSize, NEW w \in TeamsInWindow(C, teamOf),
             ~(Of(C, teamOf, w) \subseteq B)
      PROVE  Cardinality(got(w)) = PerTeamCap
  <2>1. IsFiniteSet(got(w)) /\ Cardinality(got(w)) \in Nat
    <3>1. got(w) \subseteq C
      BY <1>1 DEF Of
    <3>2. IsFiniteSet(got(w))
      BY <3>1, FS_Subset
    <3>3. QED
      BY <3>2, FS_CardinalityType
  <2>2. PICK s \in Of(C, teamOf, w) \ B : TeamRank(C, teamOf, s) <= Cardinality(got(w))
    BY <1>1, <1>3, FirstLeft
  <2>3. s \notin Candidates(C, teamOf)
    BY <1>3, BatchSized
  <2>4. s \in C /\ teamOf[s] = w
    BY DEF Of
  <2>5. TeamRank(C, teamOf, s) \in Nat /\ ~(TeamRank(C, teamOf, s) < PerTeamCap)
    <3>1. TeamRank(C, teamOf, s) \in Nat
      BY <2>4, RankGrows
    <3>2. QED
      BY <2>3, <2>4, <3>1 DEF Candidates, TeamRank
  <2>6. Cardinality(got(w)) >= PerTeamCap
    BY <2>1, <2>2, <2>5, ClaimAssumption
  <2>7. Cardinality(got(w)) <= PerTeamCap
    <3>1. \A r \in got(w) : TeamRank(C, teamOf, r) < PerTeamCap
      BY <1>1 DEF Of, Candidates, TeamRank
    <3>2. got(w) \in SUBSET Of(C, teamOf, w) /\ PerTeamCap \in Nat
      BY <1>1, ClaimAssumption DEF Of
    <3>3. QED
      BY <2>1, <3>1, <3>2, RanksDiffer
  <2>8. QED
    BY <2>1, <2>6, <2>7, ClaimAssumption
<1>4. ASSUME C # {} PROVE B # {}
  <2>1. PICK r \in C : \A x \in C : r <= x
    BY <1>4, OldestExists
  <2>2. Older(C, r) = {} /\ Older(Mates(C, teamOf, r), r) = {}
    <3>1. \A x \in C : ~(x < r)
      <4>1. ASSUME NEW x \in C PROVE ~(x < r)
        BY <2>1, x \in Nat, r \in Nat
      <4>2. QED
        BY <4>1
    <3>2. QED
      BY <3>1 DEF Older, Mates
  <2>3. Cardinality({}) = 0
    BY FS_EmptySet
  <2>4. Cardinality(Older(C, r)) < WindowSize /\ TeamRank(C, teamOf, r) = 0
    BY <2>2, <2>3, ClaimAssumption DEF TeamRank
  <2>5. r \in Candidates(C, teamOf)
    BY <2>4, ClaimAssumption DEF Candidates, TeamsInWindow, TeamRank
  <2>6. Before(C, teamOf, r) = {}
    <3>1. ASSUME NEW x \in Before(C, teamOf, r) PROVE FALSE
      <4>1. x \in C /\ RanksBefore(C, teamOf, x, r)
        BY <1>1 DEF Before
      <4>2. x \in Nat /\ r \in Nat /\ TeamRank(C, teamOf, x) \in Nat /\ r <= x
        BY <2>1, <4>1, RankGrows
      <4>3. QED
        BY <2>4, <4>1, <4>2 DEF RanksBefore
    <3>2. QED
      BY <3>1
  <2>7. Cardinality(Before(C, teamOf, r)) < BatchSize
    BY <2>3, <2>6, ClaimAssumption
  <2>8. r \in B
    BY <2>5, <2>7 DEF ClaimBatch, Before
  <2>9. QED
    BY <2>8
<1>5. QED
  BY <1>2, <1>3, <1>4 DEF Full


\* The backlogs that MCOutbox lists, and that of the drainer, are finite.
LEMMA BacklogsFinite ==
  /\ \A c \in Cases : c[1] \in SUBSET Nat /\ IsFiniteSet(c[1])
  /\ Types => Claimable \in SUBSET Nat /\ IsFiniteSet(Claimable)
<1>1. ASSUME NEW c \in Cases PROVE c[1] \in SUBSET Nat /\ IsFiniteSet(c[1])
  <2>1. c[1] \in SUBSET (1..5)
    BY DEF Cases, Backlogs
  <2>2. IsFiniteSet(1..5)
    BY FS_Interval, 1 \in Int, 5 \in Int
  <2>3. 1..5 \subseteq Nat
    OBVIOUS
  <2>4. QED
    BY <2>1, <2>2, <2>3, FS_Subset
<1>2. ASSUME Types PROVE Claimable \in SUBSET Nat /\ IsFiniteSet(Claimable)
  <2>1. Claimable \subseteq Rows
    BY <1>2 DEF Types, TableTypes, Claimable, Pending
  <2>2. QED
    BY <2>1, OutboxAssumption, FS_Subset
<1>3. QED
  BY <1>1, <1>2

\* Every claim of the drainer shares its batch evenly and takes the rows of a workspace
\* oldest first; so does a claim over every backlog that FairShare adds to it.
THEOREM SharesFairly ==
  Spec => [](FairShare /\ Fair(ClaimBatch(Claimable, TeamOf), Claimable, TeamOf))
<1>1. Types => FairShare
  <2>1. \A c \in Cases : Fair(ClaimBatch(c[1], c[2]), c[1], c[2])
    BY BacklogsFinite, ClaimIsFair
  <2>2. Unfair = {}
    BY <2>1 DEF Unfair
  <2>3. QED
    BY <2>2 DEF FairShare
<1>2. Types => Fair(ClaimBatch(Claimable, TeamOf), Claimable, TeamOf)
  BY BacklogsFinite, ClaimIsFair
<1>3. QED
  BY TypesInit, TypesStep, <1>1, <1>2, PTL DEF Spec

\* No claim of the drainer wastes room, and none is empty while a row is claimable, so
\* that the loop of a tick cannot stop early; nor over the backlogs WorkConserving adds.
THEOREM WastesNothing ==
  Spec => [](WorkConserving /\ Full(ClaimBatch(Claimable, TeamOf), Claimable, TeamOf))
<1>1. Types => WorkConserving
  <2>1. \A c \in Cases : Full(ClaimBatch(c[1], c[2]), c[1], c[2])
    BY BacklogsFinite, ClaimIsFull
  <2>2. Wasteful = {}
    BY <2>1 DEF Wasteful
  <2>3. QED
    BY <2>2 DEF WorkConserving
<1>2. Types => Full(ClaimBatch(Claimable, TeamOf), Claimable, TeamOf)
  BY BacklogsFinite, ClaimIsFull
<1>3. QED
  BY TypesInit, TypesStep, <1>1, <1>2, PTL DEF Spec
=============================================================================
