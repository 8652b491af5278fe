--------------------------- MODULE TextSendProofs ---------------------------
(***************************************************************************)
(* Theorems about the agent's text send, for any number of texts, runs,    *)
(* workspaces, retries, restarts, lock losses and failed calls: its types  *)
(* and the exactness of the slots, at most one acceptance by the provider, *)
(* the truth of what the database records of it, one commit of message.sent*)
(* and no announcement of a failure the queue is going to retry.           *)
(***************************************************************************)
EXTENDS TextSend, FiniteSetTheorems, TLAPS

\* A job that may still run has an attempt left, and only an active job is locked.
AttemptsLeft ==
  \A j \in Jobs :
    /\ jobState[j] \in {"waiting", "active"} => attemptsMade[j] < Attempts
    /\ lock[j] # NoRun => jobState[j] = "active"

RunsBusy == \A r \in Runs : pc[r] = "idle" <=> runJob[r] = NoJob

\* TypeOK without the range of the slots, which takes the count of the runs.
Types ==
  /\ ApiTypes /\ QueueTypes /\ RunTypes /\ DbTypes /\ OtherTypes
  /\ AttemptsLeft /\ RunsBusy
  /\ slots \in [Workspaces -> Int]

-----------------------------------------------------------------------------
(* Types.                                                                  *)

LEMMA TypesInit == Init => Types
<1> SUFFICES ASSUME Init PROVE Types
  OBVIOUS
<1> USE TextSendAssumption DEF Init
<1>1. ApiTypes /\ QueueTypes
  BY DEF ApiTypes, QueueTypes
<1>2. RunTypes /\ RunsBusy
  BY DEF RunTypes, RunsBusy, Points
<1>3. DbTypes /\ OtherTypes
  BY DEF DbTypes, OtherTypes
<1>4. AttemptsLeft /\ slots \in [Workspaces -> Int]
  BY DEF AttemptsLeft
<1>5. QED
  BY <1>1, <1>2, <1>3, <1>4 DEF Types

LEMMA TypesStep == ASSUME Types, [Next]_vars PROVE Types'
<1> USE TextSendAssumption
    DEF Types, ApiTypes, QueueTypes, RunTypes, DbTypes, OtherTypes, AttemptsLeft, RunsBusy,
        Points, apiVars, queueVars, runVars, dbVars, history, env,
        Blip, Enqueue, Leave, GoTo, Settle, InsertMessage, CommitEvent
<1>1. ASSUME NEW j \in Jobs, NEW isRetry \in BOOLEAN, Post(j, isRetry) PROVE Types'
  BY <1>1 DEF Post
<1>2. ASSUME NEW j \in Jobs, ExpireCache(j) PROVE Types'
  BY <1>2 DEF ExpireCache
<1>3. ASSUME NEW j \in Jobs, ExpireJob(j) PROVE Types'
  BY <1>3 DEF ExpireJob
<1>4. ASSUME NEW j \in Jobs, DeleteConversation(j) PROVE Types'
  BY <1>4 DEF DeleteConversation
<1>5. ASSUME NEW r \in Runs, NEW j \in Jobs, Pick(r, j) PROVE Types'
  <2>1. WorkspaceOf[j] \in Workspaces
    OBVIOUS
  <2>2. slots' \in [Workspaces -> Int]
    BY <1>5, <2>1 DEF Pick
  <2>3. RunTypes' /\ RunsBusy'
    BY <1>5 DEF Pick
  <2>4. QueueTypes' /\ AttemptsLeft'
    BY <1>5 DEF Pick
  <2>5. QED
    BY <1>5, <2>2, <2>3, <2>4 DEF Pick
<1>6. ASSUME NEW r \in Runs, Succeed(r) PROVE Types'
  BY <1>6 DEF Succeed
<1>7. ASSUME NEW r \in Runs, PublishPermanent(r) PROVE Types'
  BY <1>7 DEF PublishPermanent
<1>8. ASSUME NEW r \in Runs, FailPermanent(r) PROVE Types'
  BY <1>8 DEF FailPermanent
<1>9. ASSUME NEW r \in Runs, FailTransient(r) PROVE Types'
  BY <1>9 DEF FailTransient
<1>10. ASSUME NEW r \in Runs, AnnounceExhausted(r) PROVE Types'
  BY <1>10 DEF AnnounceExhausted
<1>11. ASSUME NEW r \in Runs, Check(r) PROVE Types'
  BY <1>11 DEF Check
<1>12. ASSUME NEW r \in Runs, CreateAttempt(r) PROVE Types'
  BY <1>12 DEF CreateAttempt
<1>13. ASSUME NEW r \in Runs, InspectPrior(r) PROVE Types'
  BY <1>13 DEF InspectPrior
<1>14. ASSUME NEW r \in Runs, LookupMessage(r) PROVE Types'
  BY <1>14 DEF LookupMessage
<1>15. ASSUME NEW r \in Runs, Replay(r) PROVE Types'
  BY <1>15 DEF Replay
<1>16. ASSUME NEW r \in Runs, Reinsert(r) PROVE Types'
  BY <1>16 DEF Reinsert
<1>17. ASSUME NEW r \in Runs, Recommit(r) PROVE Types'
  BY <1>17 DEF Recommit
<1>18. ASSUME NEW r \in Runs, SendToProvider(r) PROVE Types'
  BY <1>18 DEF SendToProvider
<1>19. ASSUME NEW r \in Runs, ReleaseAttempt(r) PROVE Types'
  BY <1>19 DEF ReleaseAttempt
<1>20. ASSUME NEW r \in Runs, StampAttempt(r) PROVE Types'
  BY <1>20 DEF StampAttempt
<1>21. ASSUME NEW r \in Runs, Insert(r) PROVE Types'
  BY <1>21 DEF Insert
<1>22. ASSUME NEW r \in Runs, Commit(r) PROVE Types'
  BY <1>22 DEF Commit
<1>23. ASSUME NEW j \in Jobs, LoseLock(j) PROVE Types'
  BY <1>23 DEF LoseLock
<1>24. ASSUME NEW j \in Jobs, Stalled(j) PROVE Types'
  BY <1>24 DEF Stalled
<1>25. ASSUME Restart PROVE Types'
  BY <1>25 DEF Restart
<1>26. CASE UNCHANGED vars
  BY <1>26 DEF vars
<1>27. QED
  BY <1>1, <1>2, <1>3, <1>4, <1>5, <1>6, <1>7, <1>8, <1>9, <1>10, <1>11, <1>12,
     <1>13, <1>14, <1>15, <1>16, <1>17, <1>18, <1>19, <1>20, <1>21, <1>22, <1>23, <1>24,
     <1>25, <1>26
  DEF Next, RunStep, Execute, Conclude, Rest

-----------------------------------------------------------------------------
(* The slots of a workspace.                                               *)

SlotInv == \A w \in Workspaces : slots[w] = Cardinality(Serving(w)) /\ slots[w] <= TeamCap

LEMMA ServingFinite == \A w \in Workspaces : IsFiniteSet(Serving(w))
BY TextSendAssumption, FS_Subset DEF Serving

\* Taking a slot counts one run more.
LEMMA TakeSlot ==
  ASSUME Types, SlotInv, NEW r \in Runs, NEW j \in Jobs, Pick(r, j)
  PROVE  SlotInv'
<1> DEFINE v == WorkspaceOf[j]
<1>1. v \in Workspaces /\ j # NoJob /\ runJob[r] = NoJob
  BY TextSendAssumption DEF Pick, Types, RunsBusy
<1>2. Serving(v)' = Serving(v) \cup {r} /\ r \notin Serving(v)
  BY <1>1 DEF Pick, Serving, Types, RunTypes
<1>3. Cardinality(Serving(v)') = Cardinality(Serving(v)) + 1
  BY <1>1, <1>2, ServingFinite, FS_AddElement
<1>4. \A w \in Workspaces \ {v} : Serving(w)' = Serving(w) /\ slots'[w] = slots[w]
  BY <1>1 DEF Pick, Serving, Types, RunTypes
<1>5. slots'[v] = slots[v] + 1 /\ slots[v] < TeamCap
  BY <1>1 DEF Pick, Types
<1>6. slots[v] \in Int /\ TeamCap \in Int
  BY <1>1, TextSendAssumption DEF Types
<1>7. SlotInv' <=> \A w \in Workspaces : slots'[w] = Cardinality(Serving(w)') /\ slots'[w] <= TeamCap
  BY DEF SlotInv
<1>8. slots'[v] = Cardinality(Serving(v)') /\ slots'[v] <= TeamCap
  BY <1>1, <1>3, <1>5, <1>6 DEF SlotInv
<1>9. ASSUME NEW w \in Workspaces
      PROVE  slots'[w] = Cardinality(Serving(w)') /\ slots'[w] <= TeamCap
  <2>1. CASE w = v
    BY <1>8, <2>1 DEF Serving
  <2>2. CASE w # v
    BY <1>4, <2>2 DEF SlotInv
  <2>3. QED
    BY <2>1, <2>2
<1>10. QED
  BY <1>7, <1>9

\* Leaving counts one run less.
LEMMA LeaveSlot ==
  ASSUME Types, SlotInv, NEW r \in Runs, pc[r] # "idle", Leave(r)
  PROVE  SlotInv'
<1>0. PICK j \in Jobs : runJob[r] = j
  BY DEF Types, RunTypes, RunsBusy
<1> DEFINE v == WorkspaceOf[j]
<1>1. v \in Workspaces /\ runJob[r] = j /\ j # NoJob
  BY <1>0, TextSendAssumption
<1>2. r \in Serving(v) /\ runJob' = [runJob EXCEPT ![r] = NoJob]
  BY <1>1 DEF Leave, Serving
<1>3. Serving(v)' = Serving(v) \ {r}
  <2>1. runJob'[r] = NoJob /\ \A q \in Runs \ {r} : runJob'[q] = runJob[q]
    BY <1>2 DEF Types, RunTypes
  <2>2. QED
    BY <2>1 DEF Serving
<1>4. Cardinality(Serving(v)') = Cardinality(Serving(v)) - 1
  BY <1>1, <1>2, <1>3, ServingFinite, FS_RemoveElement
<1>5. \A w \in Workspaces \ {v} : Serving(w)' = Serving(w) /\ slots'[w] = slots[w]
  BY <1>1 DEF Leave, Serving, Types, RunTypes
<1>6. slots'[v] = slots[v] - 1
  BY <1>1 DEF Leave, Types
<1>7. slots[v] \in Int /\ TeamCap \in Int
  BY <1>1, TextSendAssumption DEF Types
<1>8. SlotInv' <=> \A w \in Workspaces : slots'[w] = Cardinality(Serving(w)') /\ slots'[w] <= TeamCap
  BY DEF SlotInv
<1>9. slots'[v] = Cardinality(Serving(v)') /\ slots'[v] <= TeamCap
  BY <1>1, <1>4, <1>6, <1>7 DEF SlotInv
<1>10. ASSUME NEW w \in Workspaces
      PROVE  slots'[w] = Cardinality(Serving(w)') /\ slots'[w] <= TeamCap
  <2>1. CASE w = v
    BY <1>9, <2>1 DEF Serving
  <2>2. CASE w # v
    BY <1>5, <2>2 DEF SlotInv
  <2>3. QED
    BY <2>1, <2>2
<1>11. QED
  BY <1>8, <1>10

LEMMA SameSlots ==
  ASSUME SlotInv, UNCHANGED <<runJob, slots>>
  PROVE  SlotInv'
BY DEF SlotInv, Serving

LEMMA SlotStep == ASSUME Types, SlotInv, [Next]_vars PROVE SlotInv'
<1> USE DEF runVars, GoTo, InsertMessage
<1>1. ASSUME NEW j \in Jobs, NEW isRetry \in BOOLEAN, Post(j, isRetry) PROVE SlotInv'
  BY <1>1, SameSlots DEF Post
<1>2. ASSUME NEW j \in Jobs, ExpireCache(j) PROVE SlotInv'
  BY <1>2, SameSlots DEF ExpireCache
<1>3. ASSUME NEW j \in Jobs, ExpireJob(j) PROVE SlotInv'
  BY <1>3, SameSlots DEF ExpireJob
<1>4. ASSUME NEW j \in Jobs, DeleteConversation(j) PROVE SlotInv'
  BY <1>4, SameSlots DEF DeleteConversation
<1>5. ASSUME NEW r \in Runs, NEW j \in Jobs, Pick(r, j) PROVE SlotInv'
  BY <1>5, TakeSlot
<1>6. ASSUME NEW r \in Runs, Succeed(r) PROVE SlotInv'
  BY <1>6, LeaveSlot DEF Succeed
<1>7. ASSUME NEW r \in Runs, PublishPermanent(r) PROVE SlotInv'
  BY <1>7, SameSlots DEF PublishPermanent
<1>8. ASSUME NEW r \in Runs, FailPermanent(r) PROVE SlotInv'
  BY <1>8, LeaveSlot DEF FailPermanent
<1>9. ASSUME NEW r \in Runs, FailTransient(r) PROVE SlotInv'
  <2>1. CASE Leave(r)
    BY <1>9, <2>1, LeaveSlot DEF FailTransient
  <2>2. CASE GoTo(r, "announce")
    BY <1>9, <2>2, SameSlots
  <2>3. QED
    BY <1>9, <2>1, <2>2 DEF FailTransient
<1>10. ASSUME NEW r \in Runs, AnnounceExhausted(r) PROVE SlotInv'
  BY <1>10, LeaveSlot DEF AnnounceExhausted
<1>11. ASSUME NEW r \in Runs, Check(r) PROVE SlotInv'
  BY <1>11, SameSlots DEF Check
<1>12. ASSUME NEW r \in Runs, CreateAttempt(r) PROVE SlotInv'
  BY <1>12, SameSlots DEF CreateAttempt
<1>13. ASSUME NEW r \in Runs, InspectPrior(r) PROVE SlotInv'
  BY <1>13, SameSlots DEF InspectPrior
<1>14. ASSUME NEW r \in Runs, LookupMessage(r) PROVE SlotInv'
  BY <1>14, SameSlots DEF LookupMessage
<1>15. ASSUME NEW r \in Runs, Replay(r) PROVE SlotInv'
  BY <1>15, SameSlots DEF Replay
<1>16. ASSUME NEW r \in Runs, Reinsert(r) PROVE SlotInv'
  BY <1>16, SameSlots DEF Reinsert
<1>17. ASSUME NEW r \in Runs, Recommit(r) PROVE SlotInv'
  BY <1>17, SameSlots DEF Recommit
<1>18. ASSUME NEW r \in Runs, SendToProvider(r) PROVE SlotInv'
  BY <1>18, SameSlots DEF SendToProvider
<1>19. ASSUME NEW r \in Runs, ReleaseAttempt(r) PROVE SlotInv'
  BY <1>19, SameSlots DEF ReleaseAttempt
<1>20. ASSUME NEW r \in Runs, StampAttempt(r) PROVE SlotInv'
  BY <1>20, SameSlots DEF StampAttempt
<1>21. ASSUME NEW r \in Runs, Insert(r) PROVE SlotInv'
  BY <1>21, SameSlots DEF Insert
<1>22. ASSUME NEW r \in Runs, Commit(r) PROVE SlotInv'
  BY <1>22, SameSlots DEF Commit
<1>23. ASSUME NEW j \in Jobs, LoseLock(j) PROVE SlotInv'
  BY <1>23, SameSlots DEF LoseLock
<1>24. ASSUME NEW j \in Jobs, Stalled(j) PROVE SlotInv'
  BY <1>24, SameSlots DEF Stalled
<1>25. ASSUME Restart PROVE SlotInv'
  <2>1. \A w \in Workspaces : Serving(w)' = {} /\ slots'[w] = 0
    BY <1>25 DEF Restart, Serving
  <2>2. QED
    BY <2>1, FS_EmptySet, TextSendAssumption DEF SlotInv
<1>26. CASE UNCHANGED vars
  BY <1>26, SameSlots DEF vars
<1>27. QED
  BY <1>1, <1>2, <1>3, <1>4, <1>5, <1>6, <1>7, <1>8, <1>9, <1>10, <1>11, <1>12,
     <1>13, <1>14, <1>15, <1>16, <1>17, <1>18, <1>19, <1>20, <1>21, <1>22, <1>23, <1>24,
     <1>25, <1>26
  DEF Next, RunStep, Execute, Conclude, Rest

-----------------------------------------------------------------------------
(* The ledger.                                                             *)

\* Between its insert of the ledger row and the provider's answer.
AboutToSend == {"send", "releaseTemp", "releasePerm"}

\* A run that is about to send owns the open row of its job, alone, and nothing
\* was accepted yet; without a row nothing was accepted either.
Ownership ==
  /\ \A j \in Jobs :
       accepted[j] <= 1 /\ (attempt[j] = "none" => accepted[j] = 0)
  /\ \A r \in Runs :
       pc[r] \in AboutToSend => attempt[runJob[r]] = "open" /\ accepted[runJob[r]] = 0
  /\ \A r, q \in Runs :
       pc[r] \in AboutToSend /\ pc[q] \in AboutToSend /\ runJob[r] = runJob[q] => r = q
  /\ \A r \in Runs : pc[r] = "stamp" => accepted[runJob[r]] = 1

LEMMA OwnershipStep == ASSUME Types, Ownership, [Next]_vars PROVE Ownership'
<1> USE TextSendAssumption
    DEF Types, RunTypes, RunsBusy, DbTypes, OtherTypes, Ownership, AboutToSend,
        apiVars, queueVars, runVars, dbVars, history, env,
        Blip, Leave, GoTo, InsertMessage, CommitEvent
<1>1. ASSUME NEW j \in Jobs, NEW isRetry \in BOOLEAN, Post(j, isRetry) PROVE Ownership'
  BY <1>1 DEF Post
<1>2. ASSUME NEW j \in Jobs, ExpireCache(j) PROVE Ownership'
  BY <1>2 DEF ExpireCache
<1>3. ASSUME NEW j \in Jobs, ExpireJob(j) PROVE Ownership'
  BY <1>3 DEF ExpireJob
<1>4. ASSUME NEW j \in Jobs, DeleteConversation(j) PROVE Ownership'
  BY <1>4 DEF DeleteConversation
<1>5. ASSUME NEW r \in Runs, NEW j \in Jobs, Pick(r, j) PROVE Ownership'
  BY <1>5 DEF Pick
<1>6. ASSUME NEW r \in Runs, Succeed(r) PROVE Ownership'
  BY <1>6 DEF Succeed
<1>7. ASSUME NEW r \in Runs, PublishPermanent(r) PROVE Ownership'
  BY <1>7 DEF PublishPermanent
<1>8. ASSUME NEW r \in Runs, FailPermanent(r) PROVE Ownership'
  BY <1>8 DEF FailPermanent
<1>9. ASSUME NEW r \in Runs, FailTransient(r) PROVE Ownership'
  BY <1>9 DEF FailTransient
<1>10. ASSUME NEW r \in Runs, AnnounceExhausted(r) PROVE Ownership'
  BY <1>10 DEF AnnounceExhausted
<1>11. ASSUME NEW r \in Runs, Check(r) PROVE Ownership'
  BY <1>11 DEF Check
<1>12. ASSUME NEW r \in Runs, CreateAttempt(r) PROVE Ownership'
  BY <1>12 DEF CreateAttempt
<1>13. ASSUME NEW r \in Runs, InspectPrior(r) PROVE Ownership'
  BY <1>13 DEF InspectPrior
<1>14. ASSUME NEW r \in Runs, LookupMessage(r) PROVE Ownership'
  BY <1>14 DEF LookupMessage
<1>15. ASSUME NEW r \in Runs, Replay(r) PROVE Ownership'
  BY <1>15 DEF Replay
<1>16. ASSUME NEW r \in Runs, Reinsert(r) PROVE Ownership'
  BY <1>16 DEF Reinsert
<1>17. ASSUME NEW r \in Runs, Recommit(r) PROVE Ownership'
  BY <1>17 DEF Recommit
<1>18. ASSUME NEW r \in Runs, SendToProvider(r) PROVE Ownership'
  BY <1>18 DEF SendToProvider
<1>19. ASSUME NEW r \in Runs, ReleaseAttempt(r) PROVE Ownership'
  BY <1>19 DEF ReleaseAttempt
<1>20. ASSUME NEW r \in Runs, StampAttempt(r) PROVE Ownership'
  BY <1>20 DEF StampAttempt
<1>21. ASSUME NEW r \in Runs, Insert(r) PROVE Ownership'
  BY <1>21 DEF Insert
<1>22. ASSUME NEW r \in Runs, Commit(r) PROVE Ownership'
  BY <1>22 DEF Commit
<1>23. ASSUME NEW j \in Jobs, LoseLock(j) PROVE Ownership'
  BY <1>23 DEF LoseLock
<1>24. ASSUME NEW j \in Jobs, Stalled(j) PROVE Ownership'
  BY <1>24 DEF Stalled
<1>25. ASSUME Restart PROVE Ownership'
  BY <1>25 DEF Restart
<1>26. CASE UNCHANGED vars
  BY <1>26 DEF vars
<1>27. QED
  BY <1>1, <1>2, <1>3, <1>4, <1>5, <1>6, <1>7, <1>8, <1>9, <1>10, <1>11, <1>12,
     <1>13, <1>14, <1>15, <1>16, <1>17, <1>18, <1>19, <1>20, <1>21, <1>22, <1>23, <1>24,
     <1>25, <1>26
  DEF Next, RunStep, Execute, Conclude, Rest

-----------------------------------------------------------------------------
(* What is recorded.                                                       *)

\* A run past the provider's answer, or on the path of an earlier answer, works
\* on an accepted text.
Truth ==
  /\ SentMeansAccepted
  /\ \A r \in Runs :
       pc[r] \in {"stamp", "insert", "commit", "lookup", "replay", "reinsert", "recommit"}
         => accepted[runJob[r]] > 0

LEMMA TruthStep == ASSUME Types, Truth, [Next]_vars PROVE Truth'
<1> USE TextSendAssumption
    DEF Types, RunTypes, RunsBusy, DbTypes, OtherTypes, Truth, SentMeansAccepted,
        apiVars, queueVars, runVars, dbVars, history, env,
        Blip, Leave, GoTo, InsertMessage, CommitEvent
<1>1. ASSUME NEW j \in Jobs, NEW isRetry \in BOOLEAN, Post(j, isRetry) PROVE Truth'
  BY <1>1 DEF Post
<1>2. ASSUME NEW j \in Jobs, ExpireCache(j) PROVE Truth'
  BY <1>2 DEF ExpireCache
<1>3. ASSUME NEW j \in Jobs, ExpireJob(j) PROVE Truth'
  BY <1>3 DEF ExpireJob
<1>4. ASSUME NEW j \in Jobs, DeleteConversation(j) PROVE Truth'
  BY <1>4 DEF DeleteConversation
<1>5. ASSUME NEW r \in Runs, NEW j \in Jobs, Pick(r, j) PROVE Truth'
  BY <1>5 DEF Pick
<1>6. ASSUME NEW r \in Runs, Succeed(r) PROVE Truth'
  BY <1>6 DEF Succeed
<1>7. ASSUME NEW r \in Runs, PublishPermanent(r) PROVE Truth'
  BY <1>7 DEF PublishPermanent
<1>8. ASSUME NEW r \in Runs, FailPermanent(r) PROVE Truth'
  BY <1>8 DEF FailPermanent
<1>9. ASSUME NEW r \in Runs, FailTransient(r) PROVE Truth'
  BY <1>9 DEF FailTransient
<1>10. ASSUME NEW r \in Runs, AnnounceExhausted(r) PROVE Truth'
  BY <1>10 DEF AnnounceExhausted
<1>11. ASSUME NEW r \in Runs, Check(r) PROVE Truth'
  BY <1>11 DEF Check
<1>12. ASSUME NEW r \in Runs, CreateAttempt(r) PROVE Truth'
  BY <1>12 DEF CreateAttempt
<1>13. ASSUME NEW r \in Runs, InspectPrior(r) PROVE Truth'
  BY <1>13 DEF InspectPrior
<1>14. ASSUME NEW r \in Runs, LookupMessage(r) PROVE Truth'
  BY <1>14 DEF LookupMessage
<1>15. ASSUME NEW r \in Runs, Replay(r) PROVE Truth'
  BY <1>15 DEF Replay
<1>16. ASSUME NEW r \in Runs, Reinsert(r) PROVE Truth'
  BY <1>16 DEF Reinsert
<1>17. ASSUME NEW r \in Runs, Recommit(r) PROVE Truth'
  BY <1>17 DEF Recommit
<1>18. ASSUME NEW r \in Runs, SendToProvider(r) PROVE Truth'
  BY <1>18 DEF SendToProvider
<1>19. ASSUME NEW r \in Runs, ReleaseAttempt(r) PROVE Truth'
  BY <1>19 DEF ReleaseAttempt
<1>20. ASSUME NEW r \in Runs, StampAttempt(r) PROVE Truth'
  BY <1>20 DEF StampAttempt
<1>21. ASSUME NEW r \in Runs, Insert(r) PROVE Truth'
  BY <1>21 DEF Insert
<1>22. ASSUME NEW r \in Runs, Commit(r) PROVE Truth'
  BY <1>22 DEF Commit
<1>23. ASSUME NEW j \in Jobs, LoseLock(j) PROVE Truth'
  BY <1>23 DEF LoseLock
<1>24. ASSUME NEW j \in Jobs, Stalled(j) PROVE Truth'
  BY <1>24 DEF Stalled
<1>25. ASSUME Restart PROVE Truth'
  BY <1>25 DEF Restart
<1>26. CASE UNCHANGED vars
  BY <1>26 DEF vars
<1>27. QED
  BY <1>1, <1>2, <1>3, <1>4, <1>5, <1>6, <1>7, <1>8, <1>9, <1>10, <1>11, <1>12,
     <1>13, <1>14, <1>15, <1>16, <1>17, <1>18, <1>19, <1>20, <1>21, <1>22, <1>23, <1>24,
     <1>25, <1>26
  DEF Next, RunStep, Execute, Conclude, Rest

\* A run that is done, or only has to announce its Message, has left one.
NoGhost ==
  /\ CompletedHasMessage
  /\ \A r \in Runs :
       pc[r] \in {"replay", "commit", "recommit", "done"} => runJob[r] \in message \cup gone

LEMMA NoGhostStep == ASSUME Types, NoGhost, [Next]_vars PROVE NoGhost'
<1> USE TextSendAssumption
    DEF Types, QueueTypes, RunTypes, RunsBusy, DbTypes, NoGhost, CompletedHasMessage,
        apiVars, queueVars, runVars, dbVars, history, env,
        Blip, Enqueue, Leave, GoTo, Settle, InsertMessage, CommitEvent
<1>1. ASSUME NEW j \in Jobs, NEW isRetry \in BOOLEAN, Post(j, isRetry) PROVE NoGhost'
  BY <1>1 DEF Post
<1>2. ASSUME NEW j \in Jobs, ExpireCache(j) PROVE NoGhost'
  BY <1>2 DEF ExpireCache
<1>3. ASSUME NEW j \in Jobs, ExpireJob(j) PROVE NoGhost'
  BY <1>3 DEF ExpireJob
<1>4. ASSUME NEW j \in Jobs, DeleteConversation(j) PROVE NoGhost'
  BY <1>4 DEF DeleteConversation
<1>5. ASSUME NEW r \in Runs, NEW j \in Jobs, Pick(r, j) PROVE NoGhost'
  BY <1>5 DEF Pick
<1>6. ASSUME NEW r \in Runs, Succeed(r) PROVE NoGhost'
  BY <1>6 DEF Succeed
<1>7. ASSUME NEW r \in Runs, PublishPermanent(r) PROVE NoGhost'
  BY <1>7 DEF PublishPermanent
<1>8. ASSUME NEW r \in Runs, FailPermanent(r) PROVE NoGhost'
  BY <1>8 DEF FailPermanent
<1>9. ASSUME NEW r \in Runs, FailTransient(r) PROVE NoGhost'
  BY <1>9 DEF FailTransient
<1>10. ASSUME NEW r \in Runs, AnnounceExhausted(r) PROVE NoGhost'
  BY <1>10 DEF AnnounceExhausted
<1>11. ASSUME NEW r \in Runs, Check(r) PROVE NoGhost'
  BY <1>11 DEF Check
<1>12. ASSUME NEW r \in Runs, CreateAttempt(r) PROVE NoGhost'
  BY <1>12 DEF CreateAttempt
<1>13. ASSUME NEW r \in Runs, InspectPrior(r) PROVE NoGhost'
  BY <1>13 DEF InspectPrior
<1>14. ASSUME NEW r \in Runs, LookupMessage(r) PROVE NoGhost'
  BY <1>14 DEF LookupMessage
<1>15. ASSUME NEW r \in Runs, Replay(r) PROVE NoGhost'
  BY <1>15 DEF Replay
<1>16. ASSUME NEW r \in Runs, Reinsert(r) PROVE NoGhost'
  BY <1>16 DEF Reinsert
<1>17. ASSUME NEW r \in Runs, Recommit(r) PROVE NoGhost'
  BY <1>17 DEF Recommit
<1>18. ASSUME NEW r \in Runs, SendToProvider(r) PROVE NoGhost'
  BY <1>18 DEF SendToProvider
<1>19. ASSUME NEW r \in Runs, ReleaseAttempt(r) PROVE NoGhost'
  BY <1>19 DEF ReleaseAttempt
<1>20. ASSUME NEW r \in Runs, StampAttempt(r) PROVE NoGhost'
  BY <1>20 DEF StampAttempt
<1>21. ASSUME NEW r \in Runs, Insert(r) PROVE NoGhost'
  BY <1>21 DEF Insert
<1>22. ASSUME NEW r \in Runs, Commit(r) PROVE NoGhost'
  BY <1>22 DEF Commit
<1>23. ASSUME NEW j \in Jobs, LoseLock(j) PROVE NoGhost'
  BY <1>23 DEF LoseLock
<1>24. ASSUME NEW j \in Jobs, Stalled(j) PROVE NoGhost'
  BY <1>24 DEF Stalled
<1>25. ASSUME Restart PROVE NoGhost'
  BY <1>25 DEF Restart
<1>26. CASE UNCHANGED vars
  BY <1>26 DEF vars
<1>27. QED
  BY <1>1, <1>2, <1>3, <1>4, <1>5, <1>6, <1>7, <1>8, <1>9, <1>10, <1>11, <1>12,
     <1>13, <1>14, <1>15, <1>16, <1>17, <1>18, <1>19, <1>20, <1>21, <1>22, <1>23, <1>24,
     <1>25, <1>26
  DEF Next, RunStep, Execute, Conclude, Rest

-----------------------------------------------------------------------------
(* One commit, and no announcement of a text that is to be tried again.     *)

\* A job in the queue was posted.
Posted == \A j \in Jobs : jobState[j] # "none" => posts[j] > 0

LEMMA PostedStep == ASSUME Types, Posted, [Next]_vars PROVE Posted'
<1> USE TextSendAssumption
    DEF Posted, Types, ApiTypes, QueueTypes, RunTypes, DbTypes, OtherTypes, AttemptsLeft, RunsBusy,
        apiVars, queueVars, runVars, dbVars, history, env,
        Blip, Enqueue, Leave, GoTo, Settle, InsertMessage, CommitEvent
<1>1. ASSUME NEW j \in Jobs, NEW isRetry \in BOOLEAN, Post(j, isRetry) PROVE Posted'
  BY <1>1 DEF Post
<1>2. ASSUME NEW j \in Jobs, ExpireCache(j) PROVE Posted'
  BY <1>2 DEF ExpireCache
<1>3. ASSUME NEW j \in Jobs, ExpireJob(j) PROVE Posted'
  BY <1>3 DEF ExpireJob
<1>4. ASSUME NEW j \in Jobs, DeleteConversation(j) PROVE Posted'
  BY <1>4 DEF DeleteConversation
<1>5. ASSUME NEW r \in Runs, NEW j \in Jobs, Pick(r, j) PROVE Posted'
  BY <1>5 DEF Pick
<1>6. ASSUME NEW r \in Runs, Succeed(r) PROVE Posted'
  BY <1>6 DEF Succeed
<1>7. ASSUME NEW r \in Runs, PublishPermanent(r) PROVE Posted'
  BY <1>7 DEF PublishPermanent
<1>8. ASSUME NEW r \in Runs, FailPermanent(r) PROVE Posted'
  BY <1>8 DEF FailPermanent
<1>9. ASSUME NEW r \in Runs, FailTransient(r) PROVE Posted'
  BY <1>9 DEF FailTransient
<1>10. ASSUME NEW r \in Runs, AnnounceExhausted(r) PROVE Posted'
  BY <1>10 DEF AnnounceExhausted
<1>11. ASSUME NEW r \in Runs, Check(r) PROVE Posted'
  BY <1>11 DEF Check
<1>12. ASSUME NEW r \in Runs, CreateAttempt(r) PROVE Posted'
  BY <1>12 DEF CreateAttempt
<1>13. ASSUME NEW r \in Runs, InspectPrior(r) PROVE Posted'
  BY <1>13 DEF InspectPrior
<1>14. ASSUME NEW r \in Runs, LookupMessage(r) PROVE Posted'
  BY <1>14 DEF LookupMessage
<1>15. ASSUME NEW r \in Runs, Replay(r) PROVE Posted'
  BY <1>15 DEF Replay
<1>16. ASSUME NEW r \in Runs, Reinsert(r) PROVE Posted'
  BY <1>16 DEF Reinsert
<1>17. ASSUME NEW r \in Runs, Recommit(r) PROVE Posted'
  BY <1>17 DEF Recommit
<1>18. ASSUME NEW r \in Runs, SendToProvider(r) PROVE Posted'
  BY <1>18 DEF SendToProvider
<1>19. ASSUME NEW r \in Runs, ReleaseAttempt(r) PROVE Posted'
  BY <1>19 DEF ReleaseAttempt
<1>20. ASSUME NEW r \in Runs, StampAttempt(r) PROVE Posted'
  BY <1>20 DEF StampAttempt
<1>21. ASSUME NEW r \in Runs, Insert(r) PROVE Posted'
  BY <1>21 DEF Insert
<1>22. ASSUME NEW r \in Runs, Commit(r) PROVE Posted'
  BY <1>22 DEF Commit
<1>23. ASSUME NEW j \in Jobs, LoseLock(j) PROVE Posted'
  BY <1>23 DEF LoseLock
<1>24. ASSUME NEW j \in Jobs, Stalled(j) PROVE Posted'
  BY <1>24 DEF Stalled
<1>25. ASSUME Restart PROVE Posted'
  BY <1>25 DEF Restart
<1>26. CASE UNCHANGED vars
  BY <1>26 DEF vars
<1>27. QED
  BY <1>1, <1>2, <1>3, <1>4, <1>5, <1>6, <1>7, <1>8, <1>9, <1>10, <1>11, <1>12,
     <1>13, <1>14, <1>15, <1>16, <1>17, <1>18, <1>19, <1>20, <1>21, <1>22, <1>23, <1>24,
     <1>25, <1>26
  DEF Next, RunStep, Execute, Conclude, Rest

\* Without a lost lock a run holds the lock of its job until it gave the job back,
\* and then the job stays failed until somebody posts it again.
HeldByRun ==
  lockLosses = 0 =>
    \A r \in Runs :
      /\ pc[r] \notin {"idle", "announce"} => lock[runJob[r]] = r
      /\ pc[r] = "announce" => jobState[runJob[r]] = "failed" \/ posts[runJob[r]] > 1

LEMMA HeldStep == ASSUME Types, Posted, HeldByRun, [Next]_vars PROVE HeldByRun'
<1> USE TextSendAssumption
    DEF Posted, HeldByRun, Types, ApiTypes, QueueTypes, RunTypes, DbTypes, OtherTypes,
        AttemptsLeft, RunsBusy,
        apiVars, queueVars, runVars, dbVars, history, env,
        Blip, Enqueue, Leave, GoTo, Settle, InsertMessage, CommitEvent
<1>1. ASSUME NEW j \in Jobs, NEW isRetry \in BOOLEAN, Post(j, isRetry) PROVE HeldByRun'
  BY <1>1 DEF Post
<1>2. ASSUME NEW j \in Jobs, ExpireCache(j) PROVE HeldByRun'
  BY <1>2 DEF ExpireCache
<1>3. ASSUME NEW j \in Jobs, ExpireJob(j) PROVE HeldByRun'
  BY <1>3 DEF ExpireJob
<1>4. ASSUME NEW j \in Jobs, DeleteConversation(j) PROVE HeldByRun'
  BY <1>4 DEF DeleteConversation
<1>5. ASSUME NEW r \in Runs, NEW j \in Jobs, Pick(r, j) PROVE HeldByRun'
  BY <1>5 DEF Pick
<1>6. ASSUME NEW r \in Runs, Succeed(r) PROVE HeldByRun'
  BY <1>6 DEF Succeed
<1>7. ASSUME NEW r \in Runs, PublishPermanent(r) PROVE HeldByRun'
  BY <1>7 DEF PublishPermanent
<1>8. ASSUME NEW r \in Runs, FailPermanent(r) PROVE HeldByRun'
  BY <1>8 DEF FailPermanent
<1>9. ASSUME NEW r \in Runs, FailTransient(r) PROVE HeldByRun'
  BY <1>9 DEF FailTransient
<1>10. ASSUME NEW r \in Runs, AnnounceExhausted(r) PROVE HeldByRun'
  BY <1>10 DEF AnnounceExhausted
<1>11. ASSUME NEW r \in Runs, Check(r) PROVE HeldByRun'
  BY <1>11 DEF Check
<1>12. ASSUME NEW r \in Runs, CreateAttempt(r) PROVE HeldByRun'
  BY <1>12 DEF CreateAttempt
<1>13. ASSUME NEW r \in Runs, InspectPrior(r) PROVE HeldByRun'
  BY <1>13 DEF InspectPrior
<1>14. ASSUME NEW r \in Runs, LookupMessage(r) PROVE HeldByRun'
  BY <1>14 DEF LookupMessage
<1>15. ASSUME NEW r \in Runs, Replay(r) PROVE HeldByRun'
  BY <1>15 DEF Replay
<1>16. ASSUME NEW r \in Runs, Reinsert(r) PROVE HeldByRun'
  BY <1>16 DEF Reinsert
<1>17. ASSUME NEW r \in Runs, Recommit(r) PROVE HeldByRun'
  BY <1>17 DEF Recommit
<1>18. ASSUME NEW r \in Runs, SendToProvider(r) PROVE HeldByRun'
  BY <1>18 DEF SendToProvider
<1>19. ASSUME NEW r \in Runs, ReleaseAttempt(r) PROVE HeldByRun'
  BY <1>19 DEF ReleaseAttempt
<1>20. ASSUME NEW r \in Runs, StampAttempt(r) PROVE HeldByRun'
  BY <1>20 DEF StampAttempt
<1>21. ASSUME NEW r \in Runs, Insert(r) PROVE HeldByRun'
  BY <1>21 DEF Insert
<1>22. ASSUME NEW r \in Runs, Commit(r) PROVE HeldByRun'
  BY <1>22 DEF Commit
<1>23. ASSUME NEW j \in Jobs, LoseLock(j) PROVE HeldByRun'
  BY <1>23 DEF LoseLock
<1>24. ASSUME NEW j \in Jobs, Stalled(j) PROVE HeldByRun'
  BY <1>24 DEF Stalled
<1>25. ASSUME Restart PROVE HeldByRun'
  BY <1>25 DEF Restart
<1>26. CASE UNCHANGED vars
  BY <1>26 DEF vars
<1>27. QED
  BY <1>1, <1>2, <1>3, <1>4, <1>5, <1>6, <1>7, <1>8, <1>9, <1>10, <1>11, <1>12,
     <1>13, <1>14, <1>15, <1>16, <1>17, <1>18, <1>19, <1>20, <1>21, <1>22, <1>23, <1>24,
     <1>25, <1>26
  DEF Next, RunStep, Execute, Conclude, Rest

\* Without a lost lock a committed text left its Message; a run that is yet to
\* commit works on a text that was not committed, or that has lost its thread.
CommitInv ==
  lockLosses = 0 =>
    /\ \A j \in Jobs : commits[j] <= 1 /\ (commits[j] > 0 => j \in message \cup gone)
    /\ \A r \in Runs :
         /\ pc[r] \in {"stamp", "insert", "commit"} => commits[runJob[r]] = 0
         /\ pc[r] \in {"reinsert", "recommit"} => commits[runJob[r]] = 0 \/ runJob[r] \in gone

LEMMA CommitStep ==
  ASSUME Types, HeldByRun, Ownership, Truth, NoGhost, CommitInv, [Next]_vars PROVE CommitInv'
<1> USE TextSendAssumption
    DEF HeldByRun, CommitInv, Ownership, AboutToSend, Truth, SentMeansAccepted, NoGhost, Types,
        ApiTypes, QueueTypes, RunTypes, DbTypes, OtherTypes, AttemptsLeft, RunsBusy,
        apiVars, queueVars, runVars, dbVars, history, env,
        Blip, Enqueue, Leave, GoTo, Settle, InsertMessage, CommitEvent
<1>1. ASSUME NEW j \in Jobs, NEW isRetry \in BOOLEAN, Post(j, isRetry) PROVE CommitInv'
  BY <1>1 DEF Post
<1>2. ASSUME NEW j \in Jobs, ExpireCache(j) PROVE CommitInv'
  BY <1>2 DEF ExpireCache
<1>3. ASSUME NEW j \in Jobs, ExpireJob(j) PROVE CommitInv'
  BY <1>3 DEF ExpireJob
<1>4. ASSUME NEW j \in Jobs, DeleteConversation(j) PROVE CommitInv'
  BY <1>4 DEF DeleteConversation
<1>5. ASSUME NEW r \in Runs, NEW j \in Jobs, Pick(r, j) PROVE CommitInv'
  BY <1>5 DEF Pick
<1>6. ASSUME NEW r \in Runs, Succeed(r) PROVE CommitInv'
  BY <1>6 DEF Succeed
<1>7. ASSUME NEW r \in Runs, PublishPermanent(r) PROVE CommitInv'
  BY <1>7 DEF PublishPermanent
<1>8. ASSUME NEW r \in Runs, FailPermanent(r) PROVE CommitInv'
  BY <1>8 DEF FailPermanent
<1>9. ASSUME NEW r \in Runs, FailTransient(r) PROVE CommitInv'
  BY <1>9 DEF FailTransient
<1>10. ASSUME NEW r \in Runs, AnnounceExhausted(r) PROVE CommitInv'
  BY <1>10 DEF AnnounceExhausted
<1>11. ASSUME NEW r \in Runs, Check(r) PROVE CommitInv'
  BY <1>11 DEF Check
<1>12. ASSUME NEW r \in Runs, CreateAttempt(r) PROVE CommitInv'
  BY <1>12 DEF CreateAttempt
<1>13. ASSUME NEW r \in Runs, InspectPrior(r) PROVE CommitInv'
  BY <1>13 DEF InspectPrior
<1>14. ASSUME NEW r \in Runs, LookupMessage(r) PROVE CommitInv'
  BY <1>14 DEF LookupMessage
<1>15. ASSUME NEW r \in Runs, Replay(r) PROVE CommitInv'
  BY <1>15 DEF Replay
<1>16. ASSUME NEW r \in Runs, Reinsert(r) PROVE CommitInv'
  BY <1>16 DEF Reinsert
<1>17. ASSUME NEW r \in Runs, Recommit(r) PROVE CommitInv'
  BY <1>17 DEF Recommit
<1>18. ASSUME NEW r \in Runs, SendToProvider(r) PROVE CommitInv'
  BY <1>18 DEF SendToProvider
<1>19. ASSUME NEW r \in Runs, ReleaseAttempt(r) PROVE CommitInv'
  BY <1>19 DEF ReleaseAttempt
<1>20. ASSUME NEW r \in Runs, StampAttempt(r) PROVE CommitInv'
  BY <1>20 DEF StampAttempt
<1>21. ASSUME NEW r \in Runs, Insert(r) PROVE CommitInv'
  BY <1>21 DEF Insert
<1>22. ASSUME NEW r \in Runs, Commit(r) PROVE CommitInv'
  BY <1>22 DEF Commit
<1>23. ASSUME NEW j \in Jobs, LoseLock(j) PROVE CommitInv'
  BY <1>23 DEF LoseLock
<1>24. ASSUME NEW j \in Jobs, Stalled(j) PROVE CommitInv'
  BY <1>24 DEF Stalled
<1>25. ASSUME Restart PROVE CommitInv'
  BY <1>25 DEF Restart
<1>26. CASE UNCHANGED vars
  BY <1>26 DEF vars
<1>27. QED
  BY <1>1, <1>2, <1>3, <1>4, <1>5, <1>6, <1>7, <1>8, <1>9, <1>10, <1>11, <1>12,
     <1>13, <1>14, <1>15, <1>16, <1>17, <1>18, <1>19, <1>20, <1>21, <1>22, <1>23, <1>24,
     <1>25, <1>26
  DEF Next, RunStep, Execute, Conclude, Rest

-----------------------------------------------------------------------------
(* Theorems.                                                               *)

IInv ==
  Types /\ SlotInv /\ Ownership /\ Truth /\ NoGhost /\ Posted /\ HeldByRun /\ CommitInv

LEMMA IInvInit == Init => IInv
<1> SUFFICES ASSUME Init PROVE IInv
  OBVIOUS
<1>1. Types
  BY TypesInit
<1>2. SlotInv
  <2>1. \A w \in Workspaces : Serving(w) = {} /\ slots[w] = 0
    BY DEF Init, Serving
  <2>2. QED
    BY <2>1, FS_EmptySet, TextSendAssumption DEF SlotInv
<1>3. Ownership /\ Truth /\ NoGhost
  BY DEF Init, Ownership, AboutToSend, Truth, SentMeansAccepted, NoGhost, CompletedHasMessage
<1>4. Posted /\ HeldByRun /\ CommitInv
  BY DEF Init, Posted, HeldByRun, CommitInv
<1>5. QED
  BY <1>1, <1>2, <1>3, <1>4 DEF IInv

LEMMA IInvStep == IInv /\ [Next]_vars => IInv'
BY TypesStep, SlotStep, OwnershipStep, TruthStep, NoGhostStep, PostedStep, HeldStep, CommitStep
   DEF IInv

\* Types; in particular a workspace never runs more sends than its cap, and a job
\* is never tried more often than the queue allows.
THEOREM TypeCorrect == Spec => []TypeOK
<1>1. IInv => TypeOK
  <2> SUFFICES ASSUME IInv PROVE slots \in [Workspaces -> 0..TeamCap]
    BY DEF IInv, Types, TypeOK
  <2>1. ASSUME NEW w \in Workspaces PROVE slots[w] \in 0..TeamCap
    <3>1. Cardinality(Serving(w)) \in Nat
      BY ServingFinite, FS_CardinalityType
    <3>2. QED
      BY <3>1, TextSendAssumption DEF IInv, SlotInv
  <2>2. QED
    BY <2>1 DEF IInv, Types
<1>2. QED
  BY IInvInit, IInvStep, <1>1, PTL DEF Spec

\* No way out of a run leaks its slot or gives it back twice.
THEOREM SlotsCorrect == Spec => []SlotsExact
<1>1. IInv => SlotsExact
  BY DEF IInv, SlotInv, SlotsExact
<1>2. QED
  BY IInvInit, IInvStep, <1>1, PTL DEF Spec

\* The provider accepts a text at most once, whatever is retried, redelivered,
\* crashes, stalls or runs twice at the same time.
THEOREM AtMostOnce == Spec => []AtMostOneAcceptance
<1>1. IInv => AtMostOneAcceptance
  BY DEF IInv, Ownership, AtMostOneAcceptance
<1>2. QED
  BY IInvInit, IInvStep, <1>1, PTL DEF Spec

\* A completed ledger row, a Message row, message.sent and its replay are true.
THEOREM RecordsTruthful == Spec => []SentMeansAccepted
<1>1. IInv => SentMeansAccepted
  BY DEF IInv, Truth
<1>2. QED
  BY IInvInit, IInvStep, <1>1, PTL DEF Spec

\* A completed job left its Message, unless the conversation was deleted.
THEOREM NoGhosts == Spec => []CompletedHasMessage
<1>1. IInv => CompletedHasMessage
  BY DEF IInv, NoGhost
<1>2. QED
  BY IInvInit, IInvStep, <1>1, PTL DEF Spec

\* Without a lost lock message.sent is committed at most once per text, whatever is
\* retried, redelivered, crashes or finds an earlier attempt.
THEOREM CommitsOnce == Spec => []CommittedOnce
<1>1. IInv => CommittedOnce
  BY DEF IInv, CommitInv, CommittedOnce
<1>2. QED
  BY IInvInit, IInvStep, <1>1, PTL DEF Spec

\* A failure is announced by the run that has the job, or by the run that failed it.
LEMMA Announced ==
  ASSUME IInv, [Next]_vars, lockLosses' = 0, NEW j \in failedShown' \ failedShown
  PROVE  jobState'[j] = "waiting" => posts[j] > 1
<1> USE TextSendAssumption
    DEF IInv, Types, QueueTypes, RunTypes, OtherTypes, AttemptsLeft, RunsBusy, HeldByRun
<1>1. ASSUME NEW r \in Runs, PublishPermanent(r) PROVE jobState'[j] # "waiting"
  <2>1. j = runJob[r] /\ lockLosses = 0 /\ jobState' = jobState
    BY <1>1 DEF PublishPermanent, queueVars, env
  <2>2. lock[j] = r /\ j \in Jobs
    BY <1>1, <2>1 DEF PublishPermanent
  <2>3. QED
    BY <2>1, <2>2
<1>2. ASSUME NEW r \in Runs, AnnounceExhausted(r)
      PROVE  jobState'[j] = "waiting" => posts[j] > 1
  <2>1. j = runJob[r] /\ lockLosses = 0 /\ jobState' = jobState
    BY <1>2 DEF AnnounceExhausted, queueVars, env
  <2>2. QED
    BY <1>2, <2>1 DEF AnnounceExhausted
<1>3. CASE \A r \in Runs : ~PublishPermanent(r) /\ ~AnnounceExhausted(r)
  <2>1. failedShown' = failedShown
    BY <1>3 DEF Next, RunStep, Execute, Conclude, Rest, vars, history, Post, ExpireCache, ExpireJob,
       DeleteConversation, Pick, Succeed, FailPermanent, FailTransient, Check, CreateAttempt,
       InspectPrior, LookupMessage, Replay, Reinsert, Recommit, SendToProvider, ReleaseAttempt,
       StampAttempt, Insert, Commit, LoseLock, Stalled, Restart
  <2>2. QED
    BY <2>1
<1>4. QED
  BY <1>1, <1>2, <1>3

\* Without a lost lock "Failed - Retry" is never shown for a text that the queue is
\* going to send again by itself.
THEOREM AnnouncedWhenFinal == Spec => NoPrematureFailure
<1>1. IInv /\ [Next]_vars =>
        [lockLosses' = 0 =>
           \A j \in failedShown' \ failedShown : jobState'[j] = "waiting" => posts[j] > 1]_vars
  BY Announced
<1>2. QED
  BY IInvInit, IInvStep, <1>1, PTL DEF Spec, NoPrematureFailure
=============================================================================
