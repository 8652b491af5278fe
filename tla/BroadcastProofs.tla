--------------------------- MODULE BroadcastProofs ---------------------------
(***************************************************************************)
(* Theorems about a broadcast campaign, for any number of recipients, runs,*)
(* lanes, crashes, pauses, cancels and retries: nobody gets it twice, what *)
(* is recorded as sent was sent, cancels and abuse pauses hold, and the    *)
(* counter of sent recipients is honest.                                   *)
(***************************************************************************)
EXTENDS Broadcast, FiniteSetTheorems, TLAPS

\* The stages after the provider took the message.
Taken == {"landed", "stamped", "recount"}

\* The types the proofs need.
Shape ==
  /\ rcpt \in [Recipients -> {"queued", "sent", "failed", "stopped"}]
  /\ attempt \in [Recipients -> {"none", "open", "done"}]
  /\ stage \in [Runs -> [Recipients -> Stages]]
  /\ accepted \in [Recipients -> Nat]
  /\ again \subseteq Recipients
  /\ retries \in Nat

\* A lane past the call works for a recipient whose message was taken.
TakenTruthful ==
  \A k \in Runs, r \in Recipients : stage[k][r] \in Taken => accepted[r] > 0

\* Unless r was retried or an answer about it was lost: an acceptance leaves the
\* attempt row in place, and a call under way owns the open row, alone, with
\* nothing accepted yet.
Owned(r) ==
  /\ accepted[r] > 0 => attempt[r] # "none"
  /\ \A k \in Runs : stage[k][r] \in InCall => attempt[r] = "open" /\ accepted[r] = 0
  /\ \A k, l \in Runs : stage[k][r] \in InCall /\ stage[l][r] \in InCall => k = l
Ownership == \A r \in Recipients \ again : accepted[r] <= 1 /\ Owned(r)

\* No resume selects an abuse pause, and no template pause read a status that is
\* paused or terminal.
Selections ==
  /\ ~resuming.abuse
  /\ parked \in {"none", "running", "queued", "scheduled"}

Sending == Shape /\ SentMeansAccepted /\ TakenTruthful /\ Ownership
IInv == Sending /\ Selections

-----------------------------------------------------------------------------
(* Steps that send nothing and record nothing.                             *)

\* Attempts and acceptances stay, nobody becomes sent, and a lane neither enters a
\* call nor comes out of one with a success.
Harmless ==
  /\ attempt' = attempt /\ accepted' = accepted /\ again' = again
  /\ rcpt' \in [Recipients -> {"queued", "sent", "failed", "stopped"}]
  /\ \A r \in Recipients : rcpt'[r] = "sent" => rcpt[r] = "sent"
  /\ stage' \in [Runs -> [Recipients -> Stages]]
  /\ \A k \in Runs, r \in Recipients :
       /\ stage'[k][r] \in InCall => stage[k][r] \in InCall
       /\ stage'[k][r] \in Taken => stage[k][r] \in Taken
  /\ retries' \in Nat

LEMMA HarmlessKeeps ==
  ASSUME Sending, Harmless
  PROVE  Sending'
<1> USE DEF Sending, Harmless
<1>1. Shape'
  BY DEF Shape
<1>2. SentMeansAccepted'
  BY DEF SentMeansAccepted
<1>3. TakenTruthful'
  BY DEF TakenTruthful
<1>4. Ownership'
  BY DEF Ownership, Owned
<1>5. QED
  BY <1>1, <1>2, <1>3, <1>4

\* One recipient of one run moves to a stage of the same kind, or to none.
LEMMA MoveHarmless ==
  ASSUME Shape, NEW k \in Runs, NEW r \in Recipients, NEW s \in Stages,
         s \in InCall => stage[k][r] \in InCall,
         s \in Taken => stage[k][r] \in Taken,
         stage' = [stage EXCEPT ![k][r] = s],
         UNCHANGED <<attempt, accepted, again, retries>>,
         \/ UNCHANGED rcpt
         \/ rcpt' = [rcpt EXCEPT ![r] = "failed"]
  PROVE  Harmless
BY DEF Shape, Harmless

\* A run that ends, or a step that leaves the stages alone.
LEMMA StillHarmless ==
  ASSUME Shape, UNCHANGED <<attempt, accepted, again, retries>>,
         \/ UNCHANGED rcpt
         \/ \E S \in SUBSET Recipients, x \in {"failed", "stopped"} :
              rcpt' = [q \in Recipients |-> IF q \in S THEN x ELSE rcpt[q]],
         \/ UNCHANGED stage
         \/ \E k \in Runs : stage' = [stage EXCEPT ![k] = Nothing]
  PROVE  Harmless
<1>1. /\ rcpt' \in [Recipients -> {"queued", "sent", "failed", "stopped"}]
      /\ \A r \in Recipients : rcpt'[r] = "sent" => rcpt[r] = "sent"
  <2>1. CASE UNCHANGED rcpt
    BY <2>1 DEF Shape
  <2>2. ASSUME NEW S \in SUBSET Recipients, NEW x \in {"failed", "stopped"},
               rcpt' = [q \in Recipients |-> IF q \in S THEN x ELSE rcpt[q]]
        PROVE  /\ rcpt' \in [Recipients -> {"queued", "sent", "failed", "stopped"}]
               /\ \A r \in Recipients : rcpt'[r] = "sent" => rcpt[r] = "sent"
    BY <2>2 DEF Shape
  <2>3. QED
    BY <2>1, <2>2
<1>2. /\ stage' \in [Runs -> [Recipients -> Stages]]
      /\ \A k \in Runs, r \in Recipients :
           /\ stage'[k][r] \in InCall => stage[k][r] \in InCall
           /\ stage'[k][r] \in Taken => stage[k][r] \in Taken
  <2>1. CASE UNCHANGED stage
    BY <2>1 DEF Shape
  <2>2. ASSUME NEW k \in Runs, stage' = [stage EXCEPT ![k] = Nothing]
        PROVE  /\ stage' \in [Runs -> [Recipients -> Stages]]
               /\ \A l \in Runs, r \in Recipients :
                    /\ stage'[l][r] \in InCall => stage[l][r] \in InCall
                    /\ stage'[l][r] \in Taken => stage[l][r] \in Taken
    <3>1. /\ Nothing \in [Recipients -> Stages]
          /\ \A r \in Recipients : Nothing[r] \notin InCall /\ Nothing[r] \notin Taken
      BY DEF Nothing, Stages, InCall, Taken
    <3>2. QED
      BY <2>2, <3>1 DEF Shape
  <2>3. QED
    BY <2>1, <2>2
<1>3. QED
  BY <1>1, <1>2 DEF Shape, Harmless

-----------------------------------------------------------------------------
(* Harmless steps, one group of actions at a time.                         *)

\* Requests of the operator, of Meta and of the sweeper.
LEMMA RequestsHarmless ==
  ASSUME Shape,
         \/ TimePasses \/ FireScheduled \/ TemplateDown \/ TemplateUp \/ Cancel
         \/ ResumeManually \/ SelectForTeam \/ CancelRows \/ CancelCount
         \/ TemplatePark \/ ResumeSelected \/ SelectCooled \/ SweepQueued
         \/ StopLeftovers \/ Shutdown \/ Rest
  PROVE  Harmless
<1>1. CASE \/ TimePasses \/ FireScheduled \/ TemplateDown \/ Cancel \/ ResumeManually
           \/ CancelCount \/ TemplatePark \/ ResumeSelected \/ SweepQueued \/ Shutdown
  <2>1. UNCHANGED <<rcpt, attempt, accepted, again, retries, stage>>
    BY <1>1 DEF TimePasses, FireScheduled, TemplateDown, Cancel, ResumeManually, CancelCount,
       TemplatePark, ResumeSelected, SweepQueued, Shutdown, people, history, runVars, lanes,
       env, budget
  <2>2. QED
    BY <2>1, StillHarmless
<1>2. CASE TemplateUp \/ SelectForTeam \/ SelectCooled
  BY <1>2, StillHarmless DEF TemplateUp, SelectForTeam, SelectCooled, Select, people, history,
     runVars, lanes, env, budget
<1>3. CASE CancelRows
  <2> DEFINE gone == {r \in InStatus("queued") : attempt[r] = "none"}
  <2>1. /\ gone \subseteq Recipients
        /\ rcpt' = [r \in Recipients |-> IF r \in gone THEN "stopped" ELSE rcpt[r]]
    BY <1>3 DEF CancelRows, InStatus
  <2>2. UNCHANGED <<attempt, accepted, again, retries, stage>>
    BY <1>3 DEF CancelRows, history, runVars, lanes, env, budget
  <2> HIDE DEF gone
  <2>3. QED
    BY <2>1, <2>2, StillHarmless
<1>4. CASE StopLeftovers
  <2> DEFINE gone == {r \in InStatus("queued") : attempt[r] # "done"}
  <2>1. /\ gone \subseteq Recipients
        /\ rcpt' = [r \in Recipients |-> IF r \in gone THEN "stopped" ELSE rcpt[r]]
    BY <1>4 DEF StopLeftovers, InStatus
  <2>2. UNCHANGED <<attempt, accepted, again, retries, stage>>
    BY <1>4 DEF StopLeftovers, history, runVars, lanes, env, budget
  <2> HIDE DEF gone
  <2>3. QED
    BY <2>1, <2>2, StillHarmless
<1>5. CASE Rest
  BY <1>5, StillHarmless DEF Rest, vars, people, history, runVars, lanes, env, budget
<1>6. QED
  BY <1>1, <1>2, <1>3, <1>4, <1>5

\* The steps of a run.
LEMMA RunHarmless ==
  ASSUME Shape, NEW k \in Runs, RunStep(k)
  PROVE  Harmless
<1>1. UNCHANGED <<attempt, accepted, again, retries>>
  BY DEF RunStep, Start, Claim, NotConnected, FailRun, FailRows, FailCount, Load, LoadFails,
     Catch, ZombieEnds, Tail, people, history, env, budget
<1>2. CASE Load(k)
  BY <1>2, <1>1 DEF Load, Harmless, Shape, Stages, InCall, Taken, people
<1>3. CASE FailRows(k)
  <2>1. /\ InStatus("queued") \subseteq Recipients
        /\ rcpt' = [r \in Recipients |-> IF r \in InStatus("queued") THEN "failed" ELSE rcpt[r]]
        /\ UNCHANGED stage
    BY <1>3 DEF FailRows, InStatus, lanes
  <2>2. QED
    BY <1>1, <2>1, StillHarmless
<1>4. CASE ~Load(k) /\ ~FailRows(k)
  <2>1. UNCHANGED rcpt
    BY <1>4 DEF RunStep, Start, Claim, NotConnected, FailRun, FailCount, LoadFails,
       Catch, ZombieEnds, Tail, people
  <2>2. UNCHANGED stage \/ stage' = [stage EXCEPT ![k] = Nothing]
    BY <1>4 DEF RunStep, Start, Claim, NotConnected, FailRun, FailCount, LoadFails,
       Catch, ZombieEnds, Tail, End, lanes
  <2>3. QED
    BY <1>1, <2>1, <2>2, StillHarmless
<1>5. QED
  BY <1>2, <1>3, <1>4

\* The head of a lane's loop, and the counter bumps.
LEMMA LoopHarmless ==
  ASSUME Shape, NEW k \in Runs, LoopStep(k) \/ Bump(k)
  PROVE  Harmless
<1>1. CASE PollCanceled(k) \/ LaneExits(k) \/ LoopThrows(k) \/ Bump(k)
  BY <1>1, StillHarmless DEF PollCanceled, LaneExits, LoopThrows, Bump, people, history,
     lanes, env, budget
<1>2. ASSUME NEW r \in Recipients, Pull(k, r) PROVE Harmless
  <2>1. UNCHANGED <<rcpt, attempt, accepted, again, retries>>
    BY <1>2 DEF Pull, people, history, env, budget
  <2>2. \E s \in {"held", "failing"} : stage' = [stage EXCEPT ![k][r] = s]
    BY <1>2 DEF Pull, To
  <2>3. QED
    BY <2>1, <2>2, MoveHarmless DEF Stages, InCall, Taken
<1>3. QED
  BY <1>1, <1>2 DEF LoopStep

\* A lane that fails, parks, recounts or throws.
LEMMA LaneHarmless ==
  ASSUME Shape, NEW k \in Runs, NEW r \in Recipients,
         Fail(k, r) \/ Park(k, r) \/ Recount(k, r) \/ LaneThrows(k, r)
  PROVE  Harmless
<1>1. UNCHANGED <<attempt, accepted, again, retries>>
  BY DEF Fail, Park, Recount, LaneThrows, people, history, env, budget
<1>2. \E s \in {"out", "parking"} : stage' = [stage EXCEPT ![k][r] = s]
  BY DEF Fail, Park, Recount, LaneThrows, Trip, Leave, To
<1>3. UNCHANGED rcpt \/ rcpt' = [rcpt EXCEPT ![r] = "failed"]
  BY DEF Fail, Park, Recount, LaneThrows, people
<1>4. QED
  BY <1>1, <1>2, <1>3, MoveHarmless DEF Stages, InCall, Taken

-----------------------------------------------------------------------------
(* Steps that touch attempts and acceptances.                              *)

\* What a step on recipient r alone has to keep: the facts about r.
About(r) ==
  /\ rcpt[r] = "sent" \/ attempt[r] = "done" => accepted[r] > 0
  /\ \A k \in Runs : stage[k][r] \in Taken => accepted[r] > 0
  /\ r \notin again => accepted[r] <= 1 /\ Owned(r)

LEMMA PerRecipient ==
  /\ Sending <=> Shape /\ \A r \in Recipients : About(r)
  /\ Sending' <=> Shape' /\ \A r \in Recipients : About(r)'
<1>1. Sending <=> Shape /\ \A r \in Recipients : About(r)
  BY DEF Sending, SentMeansAccepted, TakenTruthful, Ownership, About
<1>2. Sending' <=> Shape' /\ \A r \in Recipients : About(r)'
  BY DEF Sending, SentMeansAccepted, TakenTruthful, Ownership, About
<1>3. QED
  BY <1>1, <1>2

\* A step of run k on recipient r leaves the other recipients alone.
LEMMA OthersKeep ==
  ASSUME Sending, Shape', NEW k \in Runs, NEW r \in Recipients, NEW s \in Stages,
         stage' = [stage EXCEPT ![k][r] = s],
         \A q \in Recipients \ {r} :
           /\ rcpt'[q] = rcpt[q] /\ attempt'[q] = attempt[q]
           /\ accepted'[q] = accepted[q] /\ (q \in again' <=> q \in again),
         About(r)'
  PROVE  Sending'
<1>1. ASSUME NEW q \in Recipients, q # r PROVE About(q)'
  <2>1. \A l \in Runs : stage'[l][q] = stage[l][q]
    BY <1>1 DEF Sending, Shape
  <2>2. About(q)
    BY PerRecipient
  <2>3. QED
    BY <1>1, <2>1, <2>2 DEF About, Owned
<1>2. QED
  BY <1>1, PerRecipient

\* The claim: a free attempt row means that nothing was accepted and nobody calls.
LEMMA ClaimKeeps ==
  ASSUME Sending, NEW k \in Runs, NEW r \in Recipients, ClaimAttempt(k, r)
  PROVE  Sending'
<1>1. UNCHANGED <<rcpt, accepted, again, retries>> /\ stage[k][r] = "held"
  BY DEF ClaimAttempt, history, env, budget
<1>2. ASSUME attempt[r] = "none", attempt' = [attempt EXCEPT ![r] = "open"],
             NEW s \in {"byId", "calling"}, To(k, r, s)
      PROVE  Sending'
  <2>1. Shape'
    BY <1>1, <1>2 DEF Sending, Shape, To, Stages
  <2>2. r \notin again => accepted[r] = 0 /\ \A l \in Runs : stage[l][r] \notin InCall
    BY <1>2 DEF Sending, Ownership, Owned, Shape
  <2>3. About(r)'
    <3>1. About(r)
      BY PerRecipient
    <3>2. stage'[k][r] = s /\ \A l \in Runs \ {k} : stage'[l][r] = stage[l][r]
      BY <1>2 DEF To, Sending, Shape
    <3>3. attempt'[r] = "open" /\ s \notin Taken
      BY <1>2 DEF Sending, Shape, Taken
    <3>4. QED
      BY <1>1, <2>2, <3>1, <3>2, <3>3 DEF About, Owned
  <2>4. QED
    BY <1>1, <1>2, <2>1, <2>3, OthersKeep DEF To, Stages, Sending, Shape
<1>3. CASE attempt[r] = "done" /\ To(k, r, "stamped") /\ UNCHANGED attempt
  <2>1. Shape'
    BY <1>1, <1>3 DEF Sending, Shape, To, Stages
  <2>2. About(r)'
    BY <1>1, <1>3 DEF About, Owned, To, Sending, Shape, SentMeansAccepted, TakenTruthful,
       Ownership, Taken, InCall
  <2>3. QED
    BY <1>1, <1>3, <2>1, <2>2, OthersKeep DEF To, Stages
<1>4. CASE To(k, r, "failing") /\ UNCHANGED attempt
  <2>1. Harmless
    BY <1>1, <1>4, MoveHarmless DEF To, Sending, Stages, InCall, Taken
  <2>2. QED
    BY <2>1, HarmlessKeeps
<1>5. QED
  BY <1>2, <1>3, <1>4 DEF ClaimAttempt

\* A success is the first acceptance of a recipient that has no excuse.
LEMMA LandsKeeps ==
  ASSUME Sending, NEW k \in Runs, NEW r \in Recipients, CallLands(k, r)
  PROVE  Sending'
<1>1. /\ UNCHANGED <<rcpt, attempt, again, retries>> /\ stage[k][r] \in InCall
      /\ accepted' = [accepted EXCEPT ![r] = @ + 1]
      /\ stage' = [stage EXCEPT ![k][r] = "landed"]
  BY DEF CallLands, Takes, To, people, env, budget
<1>2. Shape'
  BY <1>1 DEF Sending, Shape, Stages
<1>3. About(r)'
  <2>1. accepted'[r] = accepted[r] + 1 /\ accepted[r] \in Nat
    BY <1>1 DEF Sending, Shape
  <2>2. /\ stage'[k][r] = "landed" /\ "landed" \notin InCall
        /\ \A l \in Runs \ {k} : stage'[l][r] = stage[l][r]
    BY <1>1 DEF Sending, Shape, InCall
  <2>3. r \notin again => /\ accepted[r] = 0 /\ attempt[r] = "open"
                          /\ \A l \in Runs \ {k} : stage[l][r] \notin InCall
    BY <1>1 DEF Sending, Ownership, Owned
  <2>4. QED
    BY <1>1, <2>1, <2>2, <2>3 DEF About, Owned
<1>4. QED
  BY <1>1, <1>2, <1>3, OthersKeep DEF Sending, Shape, Stages

\* An error answer: the call goes on, or ends without a success.  One that hides
\* whether the message was taken excuses the recipient.
LEMMA ErrorKeeps ==
  ASSUME Sending, NEW k \in Runs, NEW r \in Recipients, NEW e \in Errors,
         CallRetries(k, r, e) \/ CallFails(k, r, e)
  PROVE  Sending'
<1>1. /\ UNCHANGED <<rcpt, retries>> /\ stage[k][r] \in InCall
      /\ attempt' = attempt
         \/ (attempt' = [attempt EXCEPT ![r] = "none"] /\ CallFails(k, r, e))
  BY DEF CallRetries, CallFails, people, env, budget, InCall
<1>2. PICK s \in {"backoff", "link", "out", "page", "failing", "parking"} :
        /\ stage' = [stage EXCEPT ![k][r] = s]
        /\ CallFails(k, r, e) => s \notin InCall
  BY DEF CallRetries, CallFails, To, Trip, Leave, InCall
<1>3. /\ accepted' = accepted \/ (e = "lost" /\ accepted' = [accepted EXCEPT ![r] = @ + 1])
      /\ again' = IF e = "lost" THEN again \cup {r} ELSE again
  BY DEF CallRetries, CallFails, Answered, Takes
<1>4. /\ accepted' \in [Recipients -> Nat] /\ accepted'[r] >= accepted[r]
      /\ \A q \in Recipients \ {r} : accepted'[q] = accepted[q]
  BY <1>3 DEF Sending, Shape
<1>5. Shape'
  BY <1>1, <1>2, <1>3, <1>4 DEF Sending, Shape, Stages
<1>6. About(r)'
  <2>1. About(r) /\ accepted[r] \in Nat /\ accepted'[r] \in Nat
    BY <1>4, PerRecipient DEF Sending, Shape
  <2>2. attempt'[r] \in {attempt[r], "none"}
    BY <1>1 DEF Sending, Shape
  <2>3. stage'[k][r] = s /\ s \notin Taken /\ \A l \in Runs \ {k} : stage'[l][r] = stage[l][r]
    BY <1>2 DEF Sending, Shape, Taken
  <2>4. /\ rcpt'[r] = "sent" \/ attempt'[r] = "done" => accepted'[r] > 0
        /\ \A l \in Runs : stage'[l][r] \in Taken => accepted'[r] > 0
    BY <1>1, <1>4, <2>1, <2>2, <2>3 DEF About
  <2>5. ASSUME r \notin again' PROVE accepted'[r] <= 1 /\ Owned(r)'
    <3>1. r \notin again /\ accepted' = accepted
      BY <1>3, <2>5
    <3>2. /\ accepted[r] = 0 /\ attempt[r] = "open"
          /\ \A l \in Runs \ {k} : stage[l][r] \notin InCall
      BY <1>1, <2>1, <3>1 DEF About, Owned
    <3>3. s \in InCall => attempt' = attempt
      BY <1>1, <1>2
    <3>4. QED
      BY <2>3, <3>1, <3>2, <3>3 DEF Owned
  <2>6. QED
    BY <2>4, <2>5 DEF About
<1>7. QED
  <2>1. \A q \in Recipients \ {r} : attempt'[q] = attempt[q] /\ (q \in again' <=> q \in again)
    BY <1>1, <1>3 DEF Sending, Shape
  <2>2. QED
    BY <1>1, <1>2, <1>4, <1>5, <1>6, <2>1, OthersKeep DEF Stages

\* The stamp is put on an attempt whose message was taken.
LEMMA StampKeeps ==
  ASSUME Sending, NEW k \in Runs, NEW r \in Recipients, Stamp(k, r)
  PROVE  Sending'
<1>1. /\ UNCHANGED <<rcpt, accepted, again, retries>> /\ stage[k][r] = "landed"
      /\ attempt' = [attempt EXCEPT ![r] = IF @ = "none" THEN @ ELSE "done"]
      /\ stage' = [stage EXCEPT ![k][r] = "stamped"]
  BY DEF Stamp, To, env, budget
<1>2. Shape'
  BY <1>1 DEF Sending, Shape, Stages
<1>3. accepted[r] > 0 /\ About(r) /\ accepted[r] \in Nat
  BY <1>1, PerRecipient DEF Sending, TakenTruthful, Taken, Shape
<1>4. /\ stage'[k][r] = "stamped" /\ "stamped" \notin InCall
      /\ \A l \in Runs \ {k} : stage'[l][r] = stage[l][r]
      /\ attempt[r] # "none" => attempt'[r] = "done"
  BY <1>1 DEF Sending, Shape, InCall
<1>5. About(r)'
  BY <1>1, <1>3, <1>4 DEF About, Owned
<1>6. QED
  BY <1>1, <1>2, <1>5, OthersKeep DEF Sending, Shape, Stages

\* A recipient is locked as sent by a lane whose message was taken.
LEMMA LockKeeps ==
  ASSUME Sending, NEW k \in Runs, NEW r \in Recipients, Lock(k, r)
  PROVE  Sending'
<1>1. /\ UNCHANGED <<attempt, accepted, again, retries>> /\ stage[k][r] = "stamped"
      /\ rcpt' = rcpt \/ rcpt' = [rcpt EXCEPT ![r] = "sent"]
  BY DEF Lock, history, env, budget
<1>2. PICK s \in {"out", "recount"} : stage' = [stage EXCEPT ![k][r] = s]
  BY DEF Lock, To, Leave
<1>3. Shape'
  BY <1>1, <1>2 DEF Sending, Shape, Stages
<1>4. accepted[r] > 0 /\ About(r) /\ accepted[r] \in Nat
  BY <1>1, PerRecipient DEF Sending, TakenTruthful, Taken, Shape
<1>5. stage'[k][r] = s /\ s \notin InCall /\ \A l \in Runs \ {k} : stage'[l][r] = stage[l][r]
  BY <1>2 DEF Sending, Shape, InCall
<1>6. About(r)'
  BY <1>1, <1>4, <1>5 DEF About, Owned
<1>7. QED
  BY <1>1, <1>2, <1>3, <1>6, OthersKeep DEF Sending, Shape, Stages

\* The operator's retry excuses every recipient whose attempt row it deletes.
LEMMA RetryKeeps ==
  ASSUME Sending, RetryFailed
  PROVE  Sending'
<1>1. /\ UNCHANGED <<accepted, stage>>
      /\ rcpt' = [r \in Recipients |-> IF rcpt[r] = "failed" THEN "queued" ELSE rcpt[r]]
      /\ attempt' = [r \in Recipients |-> IF rcpt[r] = "failed" THEN "none" ELSE attempt[r]]
      /\ again' = again \cup {r \in Recipients : rcpt[r] = "failed"}
      /\ retries' = retries + 1
  BY DEF RetryFailed, lanes, InStatus
<1>2. Shape'
  BY <1>1 DEF Sending, Shape
<1>3. ASSUME NEW r \in Recipients PROVE About(r)'
  <2>1. About(r)
    BY PerRecipient
  <2>2. QED
    BY <1>1, <2>1 DEF About, Owned
<1>4. QED
  BY <1>2, <1>3, PerRecipient

\* The sweeper records a stamped recipient as sent.
LEMMA RecoverKeeps ==
  ASSUME Sending, NEW r \in Recipients, RecoverSent(r)
  PROVE  Sending'
<1>1. /\ UNCHANGED <<attempt, accepted, again, retries, stage>> /\ attempt[r] = "done"
      /\ rcpt' = [rcpt EXCEPT ![r] = "sent"]
  BY DEF RecoverSent, runVars, lanes, history, env, budget
<1>2. Shape'
  BY <1>1 DEF Sending, Shape
<1>3. ASSUME NEW q \in Recipients PROVE About(q)'
  <2>1. About(q) /\ (q # r => rcpt'[q] = rcpt[q])
    BY <1>1, PerRecipient DEF Sending, Shape
  <2>2. QED
    BY <1>1, <2>1 DEF About, Owned
<1>4. QED
  BY <1>2, <1>3, PerRecipient

\* The calls a dying process had under way may have been taken, once each.
LEMMA RestartKeeps ==
  ASSUME Sending, Restart
  PROVE  Sending'
<1>1. UNCHANGED <<rcpt, attempt, again, retries>> /\ stage' = [k \in Runs |-> Nothing]
  BY DEF Restart, Die, people
<1>2. PICK taken \in SUBSET {r \in Recipients : \E k \in Runs : stage[k][r] \in InCall} :
        accepted' = [r \in Recipients |-> IF r \in taken THEN accepted[r] + 1 ELSE accepted[r]]
  BY DEF Restart, Die
<1>3. Nothing \in [Recipients -> Stages] /\ \A r \in Recipients : Nothing[r] = "out"
  BY DEF Nothing, Stages
<1>4. Shape'
  BY <1>1, <1>2, <1>3 DEF Sending, Shape
<1>5. ASSUME NEW r \in Recipients PROVE About(r)'
  <2>1. About(r) /\ accepted[r] \in Nat
    BY PerRecipient DEF Sending, Shape
  <2>2. \A k \in Runs : stage'[k][r] = "out" /\ "out" \notin InCall /\ "out" \notin Taken
    BY <1>1, <1>3 DEF InCall, Taken
  <2>3. CASE r \notin taken
    BY <1>1, <1>2, <2>1, <2>2, <2>3 DEF About, Owned
  <2>4. CASE r \in taken
    <3>1. accepted'[r] = accepted[r] + 1
      BY <1>2, <2>4
    <3>2. r \notin again => accepted[r] = 0 /\ attempt[r] = "open"
      BY <1>2, <2>1, <2>4 DEF About, Owned
    <3>3. QED
      BY <1>1, <2>1, <2>2, <3>1, <3>2 DEF About, Owned
  <2>5. QED
    BY <2>3, <2>4
<1>6. QED
  BY <1>4, <1>5, PerRecipient

LEMMA SendingStep == Sending /\ [Next]_vars => Sending'
<1> SUFFICES ASSUME Sending, [Next]_vars PROVE Sending'
  OBVIOUS
<1>0. Shape
  BY DEF Sending
<1>1. CASE \/ TimePasses \/ FireScheduled \/ TemplateDown \/ TemplateUp \/ Cancel
           \/ ResumeManually \/ SelectForTeam \/ Request \/ SelectCooled \/ SweepQueued
           \/ StopLeftovers \/ Shutdown \/ Rest
  BY <1>0, <1>1, RequestsHarmless, HarmlessKeeps DEF Request
<1>2. CASE RetryFailed
  BY <1>2, RetryKeeps
<1>3. CASE \E r \in Recipients : RecoverSent(r)
  BY <1>3, RecoverKeeps
<1>4. ASSUME NEW k \in Runs, RunStep(k) \/ LoopStep(k) \/ Bump(k) PROVE Sending'
  BY <1>0, <1>4, RunHarmless, LoopHarmless, HarmlessKeeps
<1>5. ASSUME NEW k \in Runs, NEW r \in Recipients, LaneStep(k, r) PROVE Sending'
  <2>1. CASE Fail(k, r) \/ Park(k, r) \/ Recount(k, r) \/ LaneThrows(k, r)
    BY <1>0, <2>1, LaneHarmless, HarmlessKeeps
  <2>2. QED
    BY <1>5, <2>1, ClaimKeeps, LandsKeeps, ErrorKeeps, StampKeeps, LockKeeps DEF LaneStep
<1>6. CASE Restart
  BY <1>6, RestartKeeps
<1>7. CASE UNCHANGED vars
  <2>1. Harmless
    BY <1>0, <1>7, StillHarmless DEF vars, people, history, runVars, lanes, env, budget
  <2>2. QED
    BY <2>1, HarmlessKeeps
<1>8. QED
  BY <1>1, <1>2, <1>3, <1>4, <1>5, <1>6, <1>7 DEF Next, Operator, Sweep

-----------------------------------------------------------------------------
(* Cancels and pauses.                                                     *)

\* A step leaves a canceled or abuse-paused row alone; the reason of a paused row
\* only matters while it stays paused.
KeepsRow ==
  /\ status = "canceled" => status' = "canceled"
  /\ status = "paused" /\ reason = "abuse_warning" => status' = "paused"

\* The two action properties, step by step.
Sticks ==
  status = "canceled" /\ status' # "canceled" => status' = "queued" /\ retries' > retries
Holds ==
  status = "paused" /\ reason = "abuse_warning" /\ status' \notin {"paused", "failed"}
    => Cancel \/ ResumeManually \/ (resuming # Nobody /\ ~resuming.abuse)

LEMMA KeptRowHolds ==
  ASSUME KeepsRow
  PROVE  Sticks /\ Holds
BY DEF KeepsRow, Sticks, Holds

\* Runs and lanes write the row only while it is queued or running.
LEMMA RunKeepsRow ==
  ASSUME NEW k \in Runs, RunStep(k) \/ LoopStep(k) \/ Bump(k)
  PROVE  Sticks /\ Holds
<1>1. CASE FailRun(k)
  BY <1>1 DEF FailRun, Sticks, Holds, Terminal
<1>2. CASE LoopStep(k) \/ Bump(k)
  <2>1. UNCHANGED status
    BY <1>2 DEF LoopStep, PollCanceled, LaneExits, LoopThrows, Pull, Bump, row
  <2>2. QED
    BY <2>1, KeptRowHolds DEF KeepsRow
<1>3. CASE RunStep(k) /\ ~FailRun(k)
  <2>1. UNCHANGED status \/ status \in {"queued", "running"}
    BY <1>3 DEF RunStep, Start, Claim, NotConnected, FailRows, FailCount, Load, LoadFails,
       Catch, ZombieEnds, Tail, row
  <2>2. QED
    BY <2>1, KeptRowHolds DEF KeepsRow
<1>4. QED
  BY <1>1, <1>2, <1>3

LEMMA LaneKeepsRow ==
  ASSUME NEW k \in Runs, NEW r \in Recipients, LaneStep(k, r)
  PROVE  Sticks /\ Holds
<1>1. UNCHANGED status \/ status = "running"
  BY DEF LaneStep, ClaimAttempt, CallLands, Fail, Park, Stamp, Lock, Recount, LaneThrows,
     CallRetries, CallFails, row
<1>2. QED
  BY <1>1, KeptRowHolds DEF KeepsRow

LEMMA RowStep ==
  ASSUME Sending, Selections, [Next]_vars
  PROVE  Sticks /\ Holds /\ Selections'
<1>1. Sticks /\ Holds
  <2>1. CASE RetryFailed
    BY <2>1 DEF RetryFailed, Terminal, Sticks, Holds, Sending, Shape
  <2>2. CASE Cancel \/ ResumeManually
    BY <2>2 DEF Cancel, ResumeManually, Terminal, Sticks, Holds
  <2>3. CASE ResumeSelected
    BY <2>3 DEF ResumeSelected, Sticks, Holds, Selections
  <2>4. CASE Restart
    <3>1. KeepsRow
      BY <2>4 DEF Restart, BootRow, KeepsRow
    <3>2. QED
      BY <3>1, KeptRowHolds
  <2>5. CASE \/ TimePasses \/ TemplateDown \/ TemplateUp \/ SelectForTeam \/ CancelRows
             \/ CancelCount \/ SelectCooled \/ StopLeftovers \/ Shutdown \/ Rest
             \/ UNCHANGED vars \/ \E r \in Recipients : RecoverSent(r)
    <3>1. UNCHANGED status
      BY <2>5 DEF TimePasses, TemplateDown, TemplateUp, SelectForTeam, CancelRows, CancelCount,
         SelectCooled, Select, StopLeftovers, Shutdown, Rest, RecoverSent, row, vars
    <3>2. QED
      BY <3>1, KeptRowHolds DEF KeepsRow
  <2>6. CASE FireScheduled \/ SweepQueued
    BY <2>6, KeptRowHolds DEF FireScheduled, SweepQueued, row, KeepsRow
  <2>7. CASE TemplatePark
    BY <2>7 DEF TemplatePark, Sticks, Holds, Selections
  <2>8. QED
    BY <2>1, <2>2, <2>3, <2>4, <2>5, <2>6, <2>7, RunKeepsRow, LaneKeepsRow
    DEF Next, Operator, Request, Sweep
<1>2. Selections'
  <2>1. CASE TemplateUp \/ SelectForTeam \/ SelectCooled
    <3>1. PICK who \in {"auto", "team"} :
            resuming' = [by |-> who, abuse |-> reason = "abuse_warning"]
      BY <2>1 DEF TemplateUp, SelectForTeam, SelectCooled, Select
    <3>2. reason # "abuse_warning" /\ UNCHANGED parked
      BY <2>1 DEF TemplateUp, SelectForTeam, SelectCooled, Select
    <3>3. resuming'.abuse <=> reason = "abuse_warning"
      BY <3>1
    <3>4. QED
      BY <3>2, <3>3 DEF Selections
  <2>2. CASE ResumeSelected
    BY <2>2 DEF ResumeSelected, Nobody, Selections
  <2>3. CASE Restart
    BY <2>3 DEF Restart, Die, Nobody, Selections
  <2>4. CASE TemplateDown \/ TemplatePark
    BY <2>4 DEF TemplateDown, TemplatePark, Selections
  <2>5. ASSUME ~(TemplateUp \/ SelectForTeam \/ SelectCooled), ~(ResumeSelected \/ Restart),
               ~(TemplateDown \/ TemplatePark)
        PROVE  UNCHANGED <<parked, resuming>>
    <3>1. ASSUME NEW k \in Runs, RunStep(k) \/ LoopStep(k) \/ Bump(k)
          PROVE  UNCHANGED <<parked, resuming>>
      BY <3>1 DEF RunStep, Start, Claim, NotConnected, FailRun, FailRows, FailCount, Load,
         LoadFails, Catch, ZombieEnds, Tail, LoopStep, PollCanceled, LaneExits, LoopThrows,
         Pull, Bump, requests
    <3>2. ASSUME NEW k \in Runs, NEW r \in Recipients, LaneStep(k, r)
          PROVE  UNCHANGED <<parked, resuming>>
      BY <3>2 DEF LaneStep, ClaimAttempt, CallLands, Fail, Park, Stamp, Lock, Recount,
         LaneThrows, CallRetries, CallFails, requests
    <3>3. QED
      BY <2>5, <3>1, <3>2 DEF Next, Operator, Request, Sweep, TimePasses, FireScheduled,
         Cancel, RetryFailed, ResumeManually, CancelRows, CancelCount,
         SweepQueued, StopLeftovers, RecoverSent, Shutdown, Rest, requests, vars
  <2>6. QED
    BY <2>1, <2>2, <2>3, <2>4, <2>5 DEF Selections
<1>3. QED
  BY <1>1, <1>2

-----------------------------------------------------------------------------
(* Theorems.                                                               *)

LEMMA IInvInit == Init => IInv
<1> SUFFICES ASSUME Init PROVE IInv
  OBVIOUS
<1>1. Shape /\ \A k \in Runs, r \in Recipients : stage[k][r] = "out"
  BY DEF Init, Shape, Nothing, Stages
<1>2. SentMeansAccepted /\ TakenTruthful /\ Ownership
  BY <1>1 DEF Init, SentMeansAccepted, TakenTruthful, Taken, Ownership, Owned, InCall
<1>3. Selections
  BY DEF Init, Nobody, Selections
<1>4. QED
  BY <1>1, <1>2, <1>3 DEF IInv, Sending

LEMMA IInvStep == IInv /\ [Next]_vars => IInv'
BY SendingStep, RowStep DEF IInv

\* Whatever crashes, overlaps, pauses, resumes or is canceled, nobody gets the
\* campaign twice but for an operator's retry or a lost answer of the provider.
THEOREM AtMostOnce == Spec => []NoDuplicate
<1>1. IInv => NoDuplicate
  BY DEF IInv, Sending, Shape, Ownership, NoDuplicate
<1>2. QED
  BY IInvInit, IInvStep, <1>1, PTL DEF Spec

\* A recipient recorded as sent, and a stamped attempt, were accepted.
THEOREM RecordsTruthful == Spec => []SentMeansAccepted
<1>1. IInv => SentMeansAccepted
  BY DEF IInv, Sending
<1>2. QED
  BY IInvInit, IInvStep, <1>1, PTL DEF Spec

\* Only the operator's retry takes a campaign out of canceled.
THEOREM CancelFinal == Spec => CancelSticks
<1>1. IInv /\ [Next]_vars =>
        [status = "canceled" /\ status' # "canceled"
           => status' = "queued" /\ retries' > retries]_vars
  BY RowStep DEF IInv, Sticks
<1>2. QED
  BY IInvInit, IInvStep, <1>1, PTL DEF Spec, CancelSticks

\* No automatic path selects and lifts a pause for Meta's abuse warning.
THEOREM AbusePauseStays == Spec => AbusePauseHolds
<1>1. IInv /\ [Next]_vars =>
        [status = "paused" /\ reason = "abuse_warning" /\ status' \notin {"paused", "failed"}
           => Cancel \/ ResumeManually \/ (resuming # Nobody /\ ~resuming.abuse)]_vars
  BY RowStep DEF IInv, Holds
<1>2. QED
  BY IInvInit, IInvStep, <1>1, PTL DEF Spec, AbusePauseHolds

-----------------------------------------------------------------------------
(* Types.                                                                  *)

RowTypes ==
  /\ status \in Statuses /\ reason \in Reasons /\ due \in BOOLEAN
  /\ parked \in Statuses \cup {"none"}
MemoryTypes ==
  /\ shutting \in BOOLEAN /\ fatal \in BOOLEAN
  /\ inFlight \in Runs \cup {NoRun} /\ streak \in 0..Threshold
RunTypes ==
  /\ phase \in [Runs -> Phases]
  /\ err \in [Runs -> [Recipients -> SendErrors \cup {"none"}]]
  /\ canceled \in [Runs -> BOOLEAN]
  /\ pending \in [Runs -> [sent : Nat, failed : Nat]]
  /\ defers \in [Runs -> [Recipients -> 0..MaxDefers]]
  /\ media \in [Runs -> BOOLEAN]
RequestTypes ==
  /\ sentCount \in Nat /\ failedCount \in Nat
  /\ cancelling \in BOOLEAN /\ owed \in [Runs \cup {NoRun} -> Nat]
  /\ resuming \in [by : {"nobody", "auto", "team"}, abuse : BOOLEAN]
BudgetTypes ==
  /\ restarts \in 0..MaxRestarts /\ cancels \in 0..MaxCancels
  /\ retries \in 0..MaxRetries /\ outages \in 0..MaxTemplate /\ blips \in 0..MaxBlips
  /\ overlaps \in 0..MaxOverlaps

\* The lanes of a run at their loop head and those with a recipient are together
\* never more than it has.
Room ==
  /\ idle \in [Runs -> Nat]
  /\ \A k \in Runs : idle[k] + Cardinality(Busy(k)) <= Lanes

\* Sets of recipients are finite.
LEMMA FiniteParts ==
  /\ IsFiniteSet(Recipients)
  /\ \A S \in SUBSET Recipients : IsFiniteSet(S) /\ Cardinality(S) \in Nat
                                  /\ Cardinality(S) <= Cardinality(Recipients)
  /\ Cardinality(Recipients) \in Nat
BY FS_Subset, FS_CardinalityType, BroadcastAssumption

\* The row, and the status a template pause read.
LEMMA RowTypesKept ==
  ASSUME RowTypes, [Next]_vars
  PROVE  RowTypes'
<1> USE DEF RowTypes, Statuses, Terminal, Reasons
<1>1. ASSUME NEW k \in Runs, RunStep(k) PROVE RowTypes'
  <2>1. Outcome(k) \in {"paused", "failed", "completed"}
    BY DEF Outcome
  <2>2. UNCHANGED <<due, parked>>
    BY <1>1 DEF RunStep, Start, Claim, NotConnected, FailRun, FailRows, FailCount, Load,
       LoadFails, Catch, ZombieEnds, Tail, row, requests
  <2>3. status' \in {status, "running", "paused", "failed", "completed"}
    BY <1>1, <2>1 DEF RunStep, Start, Claim, NotConnected, FailRun, FailRows, FailCount, Load,
       LoadFails, Catch, ZombieEnds, Tail, row
  <2>4. reason' \in {reason, "not_connected", "shutdown", "credentials"}
    BY <1>1 DEF RunStep, Start, Claim, NotConnected, FailRun, FailRows, FailCount, Load,
       LoadFails, Catch, ZombieEnds, Tail, row
  <2>5. QED
    BY <2>2, <2>3, <2>4
<1>2. ASSUME NEW k \in Runs, LoopStep(k) \/ Bump(k) PROVE RowTypes'
  BY <1>2 DEF LoopStep, PollCanceled, LaneExits, LoopThrows, Pull, Bump, row, requests
<1>3. ASSUME NEW k \in Runs, NEW r \in Recipients, LaneStep(k, r) PROVE RowTypes'
  <2>1. ReasonOf(err[k][r]) \in Reasons
    BY DEF ReasonOf
  <2>2. UNCHANGED <<due, parked>>
    BY <1>3 DEF LaneStep, ClaimAttempt, CallLands, Fail, Park, Stamp, Lock, Recount,
       LaneThrows, CallRetries, CallFails, row, requests
  <2>3. \/ UNCHANGED <<status, reason>>
        \/ status' = "paused" /\ reason' = ReasonOf(err[k][r])
    BY <1>3 DEF LaneStep, ClaimAttempt, CallLands, Fail, Park, Stamp, Lock, Recount,
       LaneThrows, CallRetries, CallFails, row
  <2>4. QED
    BY <2>1, <2>2, <2>3
<1>4. CASE Operator \/ Request \/ Sweep
  BY <1>4 DEF Operator, Request, Sweep, Cancel, RetryFailed, ResumeManually, SelectForTeam,
     CancelRows, CancelCount, TemplatePark, ResumeSelected, SelectCooled, SweepQueued,
     StopLeftovers, RecoverSent, Select, ResumeRow, AutoResume, row, requests
<1>5. CASE TimePasses \/ FireScheduled \/ TemplateDown \/ TemplateUp \/ Shutdown \/ Rest
  BY <1>5 DEF TimePasses, FireScheduled, TemplateDown, TemplateUp, Select, Shutdown, Rest,
     vars, row, requests
<1>6. CASE Restart
  <2>1. parked' = "none" /\ UNCHANGED due
    BY <1>6 DEF Restart, Die
  <2>2. BootRow
    BY <1>6 DEF Restart
  <2>3. status' \in {status, "paused", "scheduled", "completed", "queued"}
        /\ reason' \in {reason, "shutdown"}
    BY <2>2 DEF BootRow
  <2>4. QED
    BY <2>1, <2>3
<1>7. CASE UNCHANGED vars
  BY <1>7 DEF vars, row, requests
<1>8. QED
  BY <1>1, <1>2, <1>3, <1>4, <1>5, <1>6, <1>7 DEF Next

\* The memory of the process; the streak stops at its threshold.
LEMMA MemoryTypesKept ==
  ASSUME MemoryTypes, [Next]_vars
  PROVE  MemoryTypes'
<1> USE BroadcastAssumption DEF MemoryTypes
<1>1. ASSUME NEW k \in Runs, RunStep(k) PROVE MemoryTypes'
  <2>1. shutting' = shutting /\ fatal' \in {fatal, FALSE} /\ streak' \in {streak, 0}
    BY <1>1 DEF RunStep, Start, Claim, NotConnected, FailRun, FailRows, FailCount, Load,
       LoadFails, Catch, ZombieEnds, Tail, memory
  <2>2. inFlight' \in {inFlight, NoRun, k}
    BY <1>1 DEF RunStep, Start, Claim, NotConnected, FailRun, FailRows, FailCount, Load,
       LoadFails, Catch, ZombieEnds, Tail, End, memory
  <2>3. 0 \in 0..Threshold
    OBVIOUS
  <2>4. QED
    BY <2>1, <2>2, <2>3
<1>2. ASSUME NEW k \in Runs, LoopStep(k) \/ Bump(k) PROVE MemoryTypes'
  BY <1>2 DEF LoopStep, PollCanceled, LaneExits, LoopThrows, Pull, Bump, memory
<1>3. ASSUME NEW k \in Runs, NEW r \in Recipients, LaneStep(k, r) PROVE MemoryTypes'
  <2>1. UNCHANGED <<shutting, inFlight>> /\ fatal' \in {fatal, TRUE}
    BY <1>3 DEF LaneStep, ClaimAttempt, CallLands, Fail, Park, Stamp, Lock, Recount,
       LaneThrows, CallRetries, CallFails, Trip, memory
  <2>2. \/ streak' \in {streak, 0, Threshold}
        \/ streak + 1 < Threshold /\ streak' = streak + 1
    BY <1>3 DEF LaneStep, ClaimAttempt, CallLands, Fail, Park, Stamp, Lock, Recount,
       LaneThrows, CallRetries, CallFails, memory
  <2>3. streak' \in 0..Threshold
    BY <2>2
  <2>4. QED
    BY <2>1, <2>3
<1>4. CASE Operator \/ Request \/ Sweep
  BY <1>4 DEF Operator, Request, Sweep, Cancel, RetryFailed, ResumeManually, SelectForTeam,
     CancelRows, CancelCount, TemplatePark, ResumeSelected, SelectCooled, SweepQueued,
     StopLeftovers, RecoverSent, Select, memory
<1>5. CASE TimePasses \/ FireScheduled \/ TemplateDown \/ TemplateUp \/ Shutdown \/ Rest
  BY <1>5 DEF TimePasses, FireScheduled, TemplateDown, TemplateUp, Select, Shutdown, Rest,
     vars, memory
<1>6. CASE Restart
  <2>1. shutting' = FALSE /\ fatal' = FALSE /\ inFlight' = NoRun /\ streak' = 0
    BY <1>6 DEF Restart, Die
  <2>2. 0 \in 0..Threshold /\ FALSE \in BOOLEAN
    OBVIOUS
  <2>3. QED
    BY <2>1, <2>2
<1>7. CASE UNCHANGED vars
  BY <1>7 DEF vars, memory
<1>8. QED
  BY <1>1, <1>2, <1>3, <1>4, <1>5, <1>6, <1>7 DEF Next

\* A step on the error of one recipient.
LEMMA ErrTyped ==
  ASSUME err \in [Runs -> [Recipients -> SendErrors \cup {"none"}]],
         NEW k \in Runs, NEW r \in Recipients,
         err' = err \/ \E x \in SendErrors \cup {"none"} : err' = [err EXCEPT ![k][r] = x]
  PROVE  err' \in [Runs -> [Recipients -> SendErrors \cup {"none"}]]
OBVIOUS

\* The runs; a deferral is granted only below the limit, and a bump taken from a positive count.
LEMMA RunTypesKept ==
  ASSUME RunTypes, [Next]_vars
  PROVE  RunTypes'
<1> USE BroadcastAssumption DEF RunTypes, Phases
<1>1. ASSUME NEW k \in Runs, RunStep(k) PROVE RunTypes'
  <2>1. UNCHANGED <<pending, err>>
    BY <1>1 DEF RunStep, Start, Claim, NotConnected, FailRun, FailRows, FailCount, Load,
       LoadFails, Catch, ZombieEnds, Tail, End, lanes
  <2>2. canceled' = canceled \/ canceled' = [canceled EXCEPT ![k] = FALSE]
    BY <1>1 DEF RunStep, Start, Claim, NotConnected, FailRun, FailRows, FailCount, Load,
       LoadFails, Catch, ZombieEnds, Tail, End
  <2>3. defers' = defers \/ defers' = [defers EXCEPT ![k] = NoDefers]
    BY <1>1 DEF RunStep, Start, Claim, NotConnected, FailRun, FailRows, FailCount, Load,
       LoadFails, Catch, ZombieEnds, Tail, End, lanes
  <2>4. media' = media \/ \E b \in BOOLEAN : media' = [media EXCEPT ![k] = b]
    BY <1>1 DEF RunStep, Start, Claim, NotConnected, FailRun, FailRows, FailCount, Load,
       LoadFails, Catch, ZombieEnds, Tail, End, lanes
  <2>5. phase' = phase \/ \E p \in Phases : phase' = [phase EXCEPT ![k] = p]
    BY <1>1 DEF RunStep, Start, Claim, NotConnected, FailRun, FailRows, FailCount, Load,
       LoadFails, Catch, ZombieEnds, Tail, End
  <2>6. NoDefers \in [Recipients -> 0..MaxDefers]
    BY DEF NoDefers
  <2>7. /\ canceled' \in [Runs -> BOOLEAN] /\ media' \in [Runs -> BOOLEAN]
        /\ phase' \in [Runs -> Phases]
    BY <2>2, <2>4, <2>5
  <2>8. defers' \in [Runs -> [Recipients -> 0..MaxDefers]]
    BY <2>3, <2>6
  <2>9. QED
    BY <2>1, <2>7, <2>8
<1>2. ASSUME NEW k \in Runs, LoopStep(k) \/ Bump(k) PROVE RunTypes'
  <2>1. UNCHANGED <<err, defers, media>>
    BY <1>2 DEF LoopStep, PollCanceled, LaneExits, LoopThrows, Pull, Bump, lanes
  <2>2. CASE LoopStep(k)
    BY <2>1, <2>2 DEF LoopStep, PollCanceled, LaneExits, LoopThrows, Pull
  <2>3. CASE Bump(k)
    <3>1. PICK c \in {"sent", "failed"} :
            pending[k][c] > 0 /\ pending' = [pending EXCEPT ![k][c] = @ - 1]
      BY <2>3 DEF Bump
    <3>2. pending[k] \in [sent : Nat, failed : Nat] /\ pending[k][c] - 1 \in Nat
      BY <3>1
    <3>3. pending' \in [Runs -> [sent : Nat, failed : Nat]]
      BY <3>1, <3>2
    <3>4. UNCHANGED <<phase, canceled>>
      BY <2>3 DEF Bump
    <3>5. QED
      BY <2>1, <3>3, <3>4
  <2>4. QED
    BY <1>2, <2>2, <2>3
<1>3. ASSUME NEW k \in Runs, NEW r \in Recipients, LaneStep(k, r) PROVE RunTypes'
  <2>1. CASE \E e \in Errors : CallRetries(k, r, e) \/ CallFails(k, r, e)
    <3>1. PICK e \in Errors : CallRetries(k, r, e) \/ CallFails(k, r, e)
      BY <2>1
    <3>2. UNCHANGED <<phase, canceled, pending>>
      BY <3>1 DEF CallRetries, CallFails
    <3>3. media' = media \/ media' = [media EXCEPT ![k] = FALSE]
      BY <3>1 DEF CallRetries, CallFails
    <3>4. err' = err \/ \E x \in SendErrors \cup {"none"} : err' = [err EXCEPT ![k][r] = x]
      BY <3>1 DEF CallRetries, CallFails, Trip, Leave, SendErrors
    <3>5. \/ defers' = defers
          \/ defers[k][r] < MaxDefers /\ defers' = [defers EXCEPT ![k][r] = @ + 1]
      BY <3>1 DEF CallRetries, CallFails
    <3>6. defers' \in [Runs -> [Recipients -> 0..MaxDefers]]
      <4>1. CASE defers' = defers
        BY <4>1
      <4>2. CASE defers[k][r] < MaxDefers /\ defers' = [defers EXCEPT ![k][r] = @ + 1]
        <5>1. defers[k] \in [Recipients -> 0..MaxDefers] /\ defers[k][r] + 1 \in 0..MaxDefers
          BY <4>2
        <5>2. QED
          BY <4>2, <5>1
      <4>3. QED
        BY <3>5, <4>1, <4>2
    <3>7. err' \in [Runs -> [Recipients -> SendErrors \cup {"none"}]]
      <4>1. err \in [Runs -> [Recipients -> SendErrors \cup {"none"}]]
        OBVIOUS
      <4> HIDE DEF RunTypes
      <4>2. QED
        BY <3>4, <4>1, ErrTyped
    <3>8. media' \in [Runs -> BOOLEAN]
      BY <3>3
    <3>9. QED
      BY <3>2, <3>6, <3>7, <3>8
  <2>2. CASE Fail(k, r) \/ Lock(k, r)
    <3>1. UNCHANGED <<phase, canceled, defers, media>>
      BY <2>2 DEF Fail, Lock
    <3>2. err' = err \/ \E x \in SendErrors \cup {"none"} : err' = [err EXCEPT ![k][r] = x]
      <4>1. err[k][r] \in SendErrors \cup {"none"}
        OBVIOUS
      <4>2. QED
        BY <2>2, <4>1 DEF Fail, Lock, Trip, Leave
    <3>3. \/ pending' = pending
          \/ \E c \in {"sent", "failed"} : pending' = [pending EXCEPT ![k][c] = @ + 1]
      BY <2>2 DEF Fail, Lock, Bumped
    <3>4. pending' \in [Runs -> [sent : Nat, failed : Nat]]
      <4>1. ASSUME NEW c \in {"sent", "failed"}, pending' = [pending EXCEPT ![k][c] = @ + 1]
            PROVE  pending' \in [Runs -> [sent : Nat, failed : Nat]]
        <5>1. pending[k] \in [sent : Nat, failed : Nat] /\ pending[k][c] + 1 \in Nat
          OBVIOUS
        <5>2. QED
          BY <4>1, <5>1
      <4>2. QED
        BY <3>3, <4>1
    <3>5. err' \in [Runs -> [Recipients -> SendErrors \cup {"none"}]]
      <4>1. err \in [Runs -> [Recipients -> SendErrors \cup {"none"}]]
        OBVIOUS
      <4> HIDE DEF RunTypes
      <4>2. QED
        BY <3>2, <4>1, ErrTyped
    <3>6. QED
      BY <3>1, <3>4, <3>5
  <2>3. CASE Park(k, r) \/ Recount(k, r) \/ LaneThrows(k, r)
    <3>1. UNCHANGED <<canceled, defers, media, pending>>
      BY <2>3 DEF Park, Recount, LaneThrows
    <3>2. phase' = phase \/ \E p \in Phases : phase' = [phase EXCEPT ![k] = p]
      BY <2>3 DEF Park, Recount, LaneThrows
    <3>3. err' = [err EXCEPT ![k][r] = "none"]
      BY <2>3 DEF Park, Recount, LaneThrows, Leave
    <3>4. QED
      BY <3>1, <3>2, <3>3
  <2>4. CASE ClaimAttempt(k, r) \/ CallLands(k, r) \/ Stamp(k, r)
    BY <2>4 DEF ClaimAttempt, CallLands, Stamp
  <2>5. QED
    BY <1>3, <2>1, <2>2, <2>3, <2>4 DEF LaneStep
<1>4. CASE Operator \/ Request \/ Sweep
  BY <1>4 DEF Operator, Request, Sweep, Cancel, RetryFailed, ResumeManually, SelectForTeam,
     CancelRows, CancelCount, TemplatePark, ResumeSelected, SelectCooled, SweepQueued,
     StopLeftovers, RecoverSent, Select, ResumeRow, AutoResume, Kick, runVars, lanes
<1>5. CASE TimePasses \/ FireScheduled \/ TemplateDown \/ TemplateUp \/ Shutdown \/ Rest
  BY <1>5 DEF TimePasses, FireScheduled, TemplateDown, TemplateUp, Select, Shutdown, Rest,
     Kick, vars, runVars, lanes
<1>6. CASE Restart
  BY <1>6 DEF Restart, Die, NoErrors, NoBumps, NoDefers
<1>7. CASE UNCHANGED vars
  BY <1>7 DEF vars, runVars, lanes
<1>8. QED
  BY <1>1, <1>2, <1>3, <1>4, <1>5, <1>6, <1>7 DEF Next

\* The counters and the requests under way.
LEMMA RequestTypesKept ==
  ASSUME RequestTypes, [Next]_vars
  PROVE  RequestTypes'
<1> USE DEF RequestTypes
<1>0. \A s : Cardinality(InStatus(s)) \in Nat
  BY FiniteParts DEF InStatus
<1>1. ASSUME NEW k \in Runs, RunStep(k) PROVE RequestTypes'
  BY <1>0, <1>1 DEF RunStep, Start, Claim, NotConnected, FailRun, FailRows, FailCount, Load,
     LoadFails, Catch, ZombieEnds, Tail, counts, requests
<1>2. ASSUME NEW k \in Runs, LoopStep(k) \/ Bump(k) PROVE RequestTypes'
  BY <1>2 DEF LoopStep, PollCanceled, LaneExits, LoopThrows, Pull, Bump, counts, requests
<1>3. ASSUME NEW k \in Runs, NEW r \in Recipients, LaneStep(k, r) PROVE RequestTypes'
  BY <1>3 DEF LaneStep, ClaimAttempt, CallLands, Fail, Park, Stamp, Lock, Recount, Minus,
     LaneThrows, CallRetries, CallFails, counts, requests
<1>4. CASE CancelRows \/ StopLeftovers
  <2>1. /\ Cardinality({r \in InStatus("queued") : attempt[r] = "none"}) \in Nat
        /\ Cardinality({r \in InStatus("queued") : attempt[r] # "done"}) \in Nat
    BY FiniteParts DEF InStatus
  <2>2. QED
    <3>1. CASE CancelRows
      BY <2>1, <3>1 DEF CancelRows, counts
    <3>2. CASE StopLeftovers
      BY <2>1, <3>2 DEF StopLeftovers, requests
    <3>3. QED
      BY <1>4, <3>1, <3>2
<1>5. CASE SelectForTeam \/ SelectCooled \/ TemplateUp
  <2>1. PICK who \in {"auto", "team"} : Select(who)
    BY <1>5 DEF SelectForTeam, SelectCooled, TemplateUp
  <2>2. /\ UNCHANGED <<counts, cancelling, owed>>
        /\ resuming' = [by |-> who, abuse |-> reason = "abuse_warning"]
    BY <2>1 DEF Select
  <2>3. resuming' \in [by : {"nobody", "auto", "team"}, abuse : BOOLEAN]
    <3>1. (reason = "abuse_warning") \in BOOLEAN
      OBVIOUS
    <3>2. QED
      BY <2>2, <3>1
  <2>4. QED
    BY <2>2, <2>3 DEF counts
<1>6. CASE Cancel \/ ResumeManually \/ RetryFailed
  <2>1. CASE RetryFailed
    BY <1>0, <2>1 DEF RetryFailed, Minus, requests
  <2>2. CASE Cancel \/ ResumeManually
    BY <2>2 DEF Cancel, ResumeManually, counts, requests
  <2>3. QED
    BY <1>6, <2>1, <2>2
<1>7. CASE CancelCount \/ TemplatePark \/ ResumeSelected \/ SweepQueued
           \/ \E r \in Recipients : RecoverSent(r)
  <2>1. CASE CancelCount
    BY <2>1 DEF CancelCount
  <2>2. CASE TemplatePark \/ ResumeSelected \/ SweepQueued
    <3>1. UNCHANGED <<counts, cancelling, owed>> /\ resuming' \in {resuming, Nobody}
      BY <2>2 DEF TemplatePark, ResumeSelected, SweepQueued, requests
    <3>2. Nobody \in [by : {"nobody", "auto", "team"}, abuse : BOOLEAN]
      BY DEF Nobody
    <3>3. QED
      BY <3>1, <3>2 DEF counts
  <2>3. ASSUME NEW r \in Recipients, RecoverSent(r) PROVE RequestTypes'
    <3>1. UNCHANGED requests /\ sentCount' \in {sentCount, sentCount + 1}
      BY <2>3 DEF RecoverSent
    <3>2. failedCount' \in {failedCount, Minus(failedCount, 1)}
      BY <2>3 DEF RecoverSent
    <3>3. QED
      BY <3>1, <3>2 DEF requests, Minus
  <2>4. QED
    BY <1>7, <2>1, <2>2, <2>3
<1>11. CASE TimePasses \/ FireScheduled \/ TemplateDown \/ Shutdown \/ Rest
  BY <1>11 DEF TimePasses, FireScheduled, TemplateDown, Shutdown, Rest, vars, counts, requests
<1>8. CASE Restart
  BY <1>8 DEF Restart, Die, Nobody, counts
<1>9. CASE UNCHANGED vars
  BY <1>9 DEF vars, counts, requests
<1>10. QED
  BY <1>1, <1>2, <1>3, <1>4, <1>5, <1>6, <1>7, <1>8, <1>9, <1>11
  DEF Next, Operator, Request, Sweep

\* The budgets of the environment.
LEMMA BudgetTypesKept ==
  ASSUME BudgetTypes, [Next]_vars
  PROVE  BudgetTypes'
<1> USE BroadcastAssumption DEF BudgetTypes
<1>1. ASSUME NEW k \in Runs, RunStep(k) PROVE BudgetTypes'
  BY <1>1 DEF RunStep, Start, Claim, NotConnected, FailRun, FailRows, FailCount, Load,
     LoadFails, Catch, ZombieEnds, Tail, Blip, env, budget
<1>2. ASSUME NEW k \in Runs, LoopStep(k) \/ Bump(k) PROVE BudgetTypes'
  BY <1>2 DEF LoopStep, PollCanceled, LaneExits, LoopThrows, Pull, Bump, Blip, env, budget
<1>3. ASSUME NEW k \in Runs, NEW r \in Recipients, LaneStep(k, r) PROVE BudgetTypes'
  BY <1>3 DEF LaneStep, ClaimAttempt, CallLands, Fail, Park, Stamp, Lock, Recount,
     LaneThrows, CallRetries, CallFails, Blip, env, budget
<1>4. CASE Operator \/ Request \/ Sweep
  BY <1>4 DEF Operator, Request, Sweep, Cancel, RetryFailed, ResumeManually, SelectForTeam,
     CancelRows, CancelCount, TemplatePark, ResumeSelected, SelectCooled, SweepQueued,
     StopLeftovers, RecoverSent, Select, ResumeRow, AutoResume, Kick, env, budget
<1>5. CASE TimePasses \/ FireScheduled \/ TemplateDown \/ TemplateUp \/ Shutdown \/ Rest
  BY <1>5 DEF TimePasses, FireScheduled, TemplateDown, TemplateUp, Select, Shutdown, Rest,
     Kick, vars, env, budget
<1>6. CASE Restart
  BY <1>6 DEF Restart
<1>7. CASE UNCHANGED vars
  BY <1>7 DEF vars, env, budget
<1>8. QED
  BY <1>1, <1>2, <1>3, <1>4, <1>5, <1>6, <1>7 DEF Next

-----------------------------------------------------------------------------
(* The lanes of a run.                                                     *)

\* One recipient of one run changes its stage.
LEMMA BusyMoves ==
  ASSUME Shape, NEW k \in Runs, NEW r \in Recipients, NEW s \in Stages,
         stage' = [stage EXCEPT ![k][r] = s]
  PROVE  /\ \A l \in Runs \ {k} : Busy(l)' = Busy(l)
         /\ Busy(k)' = IF s \in {"out", "page"} THEN Busy(k) \ {r} ELSE Busy(k) \cup {r}
<1>1. /\ \A q \in Recipients : stage'[k][q] = IF q = r THEN s ELSE stage[k][q]
      /\ \A l \in Runs \ {k} : stage'[l] = stage[l]
  BY DEF Shape
<1>2. QED
  BY <1>1 DEF Busy

\* A lane that stays with its recipient.
LEMMA RoomStays ==
  ASSUME Shape, Room, NEW k \in Runs, NEW r \in Recipients, NEW s \in Stages,
         r \in Busy(k), s \notin {"out", "page"},
         stage' = [stage EXCEPT ![k][r] = s], UNCHANGED idle
  PROVE  Room'
<1>1. Busy(k)' = Busy(k) \cup {r} /\ \A l \in Runs \ {k} : Busy(l)' = Busy(l)
  BY BusyMoves
<1>2. \A l \in Runs : Busy(l)' = Busy(l)
  BY <1>1
<1>3. QED
  BY <1>2 DEF Room

\* A lane that returns to its loop head, or is lost with its recipient.
LEMMA RoomLeaves ==
  ASSUME Shape, Room, NEW k \in Runs, NEW r \in Recipients, NEW s \in {"out", "page"},
         r \in Busy(k), stage' = [stage EXCEPT ![k][r] = s],
         UNCHANGED idle \/ idle' = [idle EXCEPT ![k] = @ + 1]
  PROVE  Room'
<1>1. /\ Busy(k)' = Busy(k) \ {r} /\ \A l \in Runs \ {k} : Busy(l)' = Busy(l)
  BY BusyMoves DEF Stages
<1>2. /\ IsFiniteSet(Busy(k)) /\ Cardinality(Busy(k)) \in Nat
  BY FiniteParts DEF Busy
<1>3. Cardinality(Busy(k) \ {r}) = Cardinality(Busy(k)) - 1
  BY <1>2, FS_RemoveElement
<1>4. /\ idle' \in [Runs -> Nat] /\ idle'[k] <= idle[k] + 1
      /\ \A l \in Runs \ {k} : idle'[l] = idle[l]
  BY DEF Room
<1>5. idle'[k] + Cardinality(Busy(k)') <= Lanes
  BY <1>1, <1>2, <1>3, <1>4, BroadcastAssumption DEF Room
<1>6. QED
  BY <1>1, <1>4, <1>5 DEF Room

\* Stages stay or a run's are cleared, and nobody joins the loop heads.
LEMMA RoomShrinks ==
  ASSUME Shape, Room, idle' \in [Runs -> Nat], \A k \in Runs : idle'[k] <= idle[k],
         \/ UNCHANGED stage
         \/ \E k \in Runs : stage' = [stage EXCEPT ![k] = Nothing]
  PROVE  Room'
<1>1. \A k \in Runs : Busy(k)' \subseteq Busy(k)
  <2>1. CASE UNCHANGED stage
    BY <2>1 DEF Busy
  <2>2. ASSUME NEW k \in Runs, stage' = [stage EXCEPT ![k] = Nothing]
        PROVE  \A l \in Runs : Busy(l)' \subseteq Busy(l)
    BY <2>2 DEF Busy, Shape, Nothing
  <2>3. QED
    BY <2>1, <2>2
<1>2. ASSUME NEW k \in Runs PROVE idle'[k] + Cardinality(Busy(k)') <= Lanes
  <2>1. IsFiniteSet(Busy(k)) /\ Cardinality(Busy(k)) \in Nat
    BY FiniteParts DEF Busy
  <2>2. Cardinality(Busy(k)') \in Nat /\ Cardinality(Busy(k)') <= Cardinality(Busy(k))
    BY <1>1, <2>1, FS_Subset, FS_CardinalityType
  <2>3. QED
    BY <2>1, <2>2, BroadcastAssumption DEF Room
<1>3. QED
  BY <1>2 DEF Room

\* A run that loads its page has no lane with a recipient yet.
LEMMA RoomRun ==
  ASSUME Shape, Room, NEW k \in Runs, RunStep(k)
  PROVE  Room'
<1>1. CASE Load(k)
  <2>1. /\ stage' = [stage EXCEPT ![k] =
                       [r \in Recipients |-> IF rcpt[r] = "queued" THEN "page" ELSE "out"]]
        /\ \E n \in Nat : n <= Lanes /\ idle' = [idle EXCEPT ![k] = n]
    <3> DEFINE n == Cardinality(InStatus("queued"))
               m == IF n < Lanes THEN n ELSE Lanes
    <3>1. n \in Nat
      BY FiniteParts DEF InStatus
    <3>2. m \in Nat /\ m <= Lanes
      BY <3>1, BroadcastAssumption
    <3>3. idle' = [idle EXCEPT ![k] = m]
      BY <1>1 DEF Load
    <3> HIDE DEF m
    <3>4. QED
      BY <1>1, <3>2, <3>3 DEF Load
  <2>2. Busy(k)' = {} /\ \A l \in Runs \ {k} : Busy(l)' = Busy(l)
    BY <2>1 DEF Busy, Shape
  <2>3. Cardinality({}) = 0
    BY FS_EmptySet
  <2>4. /\ idle' \in [Runs -> Nat] /\ idle'[k] <= Lanes
        /\ \A l \in Runs \ {k} : idle'[l] = idle[l]
    BY <2>1 DEF Room
  <2>5. \A l \in Runs : idle'[l] + Cardinality(Busy(l)') <= Lanes
    <3>1. idle'[k] + Cardinality(Busy(k)') <= Lanes
      BY <2>2, <2>3, <2>4, BroadcastAssumption
    <3>2. QED
      BY <2>2, <2>4, <3>1 DEF Room
  <2>6. QED
    BY <2>4, <2>5 DEF Room
<1>2. CASE ~Load(k)
  <2>1. UNCHANGED idle /\ (UNCHANGED stage \/ stage' = [stage EXCEPT ![k] = Nothing])
    BY <1>2 DEF RunStep, Start, Claim, NotConnected, FailRun, FailRows, FailCount, LoadFails,
       Catch, ZombieEnds, Tail, End, lanes
  <2>2. QED
    BY <2>1, RoomShrinks DEF Room
<1>3. QED
  BY <1>1, <1>2

\* A lane that takes a recipient leaves the loop head.
LEMMA RoomLoop ==
  ASSUME Shape, Room, NEW k \in Runs, LoopStep(k) \/ Bump(k)
  PROVE  Room'
<1>1. CASE PollCanceled(k) \/ LaneExits(k) \/ LoopThrows(k) \/ Bump(k)
  <2>1. UNCHANGED stage /\ idle' \in [Runs -> Nat] /\ \A l \in Runs : idle'[l] <= idle[l]
    BY <1>1 DEF PollCanceled, LaneExits, LoopThrows, Bump, Minus, lanes, Room
  <2>2. QED
    BY <2>1, RoomShrinks
<1>2. ASSUME NEW r \in Recipients, Pull(k, r) PROVE Room'
  <2>1. PICK s \in {"held", "failing"} : stage' = [stage EXCEPT ![k][r] = s]
    BY <1>2 DEF Pull, To
  <2>2. Busy(k)' = Busy(k) \cup {r} /\ \A l \in Runs \ {k} : Busy(l)' = Busy(l)
    BY <2>1, BusyMoves DEF Stages
  <2>3. IsFiniteSet(Busy(k)) /\ Cardinality(Busy(k)) \in Nat
    BY FiniteParts DEF Busy
  <2>4. Cardinality(Busy(k)') \in Nat /\ Cardinality(Busy(k)') <= Cardinality(Busy(k)) + 1
    <3>1. /\ IsFiniteSet(Busy(k) \cup {r})
          /\ Cardinality(Busy(k) \cup {r}) <= Cardinality(Busy(k)) + 1
      BY <2>3, FS_AddElement
    <3>2. QED
      BY <2>2, <3>1, FS_CardinalityType
  <2>5. idle[k] > 0 /\ idle' = [idle EXCEPT ![k] = @ - 1]
    BY <1>2 DEF Pull
  <2>6. QED
    BY <2>2, <2>3, <2>4, <2>5, BroadcastAssumption DEF Room
<1>3. QED
  BY <1>1, <1>2 DEF LoopStep

\* A lane with a recipient keeps it, puts it down or is lost.
LEMMA RoomLane ==
  ASSUME Shape, Room, NEW k \in Runs, NEW r \in Recipients, LaneStep(k, r)
  PROVE  Room'
<1>1. r \in Busy(k)
  BY DEF LaneStep, ClaimAttempt, CallLands, Fail, Park, Stamp, Lock, Recount, LaneThrows,
     CallRetries, CallFails, InCall, Busy
<1>2. \/ UNCHANGED idle /\ \E s \in Stages \ {"out", "page"} : stage' = [stage EXCEPT ![k][r] = s]
      \/ /\ UNCHANGED idle \/ idle' = [idle EXCEPT ![k] = @ + 1]
         /\ \E s \in {"out", "page"} : stage' = [stage EXCEPT ![k][r] = s]
  BY DEF LaneStep, ClaimAttempt, CallLands, Fail, Park, Stamp, Lock, Recount, LaneThrows,
     CallRetries, CallFails, Trip, Leave, To, Stages
<1>3. QED
  BY <1>1, <1>2, RoomStays, RoomLeaves

LEMMA RoomKept ==
  ASSUME Shape, Room, [Next]_vars
  PROVE  Room'
<1>1. ASSUME NEW k \in Runs, RunStep(k) \/ LoopStep(k) \/ Bump(k) PROVE Room'
  BY <1>1, RoomRun, RoomLoop
<1>2. ASSUME NEW k \in Runs, NEW r \in Recipients, LaneStep(k, r) PROVE Room'
  BY <1>2, RoomLane
<1>3. CASE Restart
  <2>1. \A k \in Runs : Busy(k)' = {}
    BY <1>3 DEF Restart, Die, Busy, Nothing
  <2>2. Cardinality({}) = 0 /\ idle' = [k \in Runs |-> 0]
    BY <1>3, FS_EmptySet DEF Restart, Die
  <2>3. QED
    BY <2>1, <2>2, BroadcastAssumption DEF Room
<1>4. ASSUME ~Restart, \/ TimePasses \/ FireScheduled \/ TemplateDown \/ TemplateUp \/ Operator
             \/ Request \/ Sweep \/ Shutdown \/ Rest \/ UNCHANGED vars
      PROVE  Room'
  <2>1. UNCHANGED <<stage, idle>>
    BY <1>4 DEF Operator, Request, Sweep, Cancel, RetryFailed, ResumeManually, SelectForTeam,
       CancelRows, CancelCount, TemplatePark, ResumeSelected, SelectCooled, SweepQueued,
       StopLeftovers, RecoverSent, Select, TimePasses, FireScheduled, TemplateDown, TemplateUp,
       Shutdown, Rest, vars, runVars, lanes
  <2>2. QED
    BY <2>1, RoomShrinks DEF Room
<1>5. QED
  BY <1>1, <1>2, <1>3, <1>4 DEF Next

-----------------------------------------------------------------------------
(* The counter of sent recipients.                                         *)

\* Every unit of the counter, every bump a run still has to write and every recount
\* a lane still has to do stands for a sent recipient of its own: C are the counted
\* ones, P[k] those whose bump run k holds.
Books(C, P) ==
  /\ sentCount <= Cardinality(C)
  /\ \A k \in Runs : pending[k].sent <= Cardinality(P[k]) /\ P[k] \cap C = {}
  /\ \A k, l \in Runs : k # l => P[k] \cap P[l] = {}
  /\ \A k \in Runs, r \in Recipients : stage[k][r] = "recount" =>
       /\ rcpt[r] = "sent" /\ r \notin C
       /\ \A l \in Runs : r \notin P[l] /\ (stage[l][r] = "recount" => k = l)
Counted ==
  \E C \in SUBSET InStatus("sent"), P \in [Runs -> SUBSET InStatus("sent")] : Books(C, P)

\* A step that counts nothing and adds nothing to count.
LEMMA CountedStays ==
  ASSUME Counted, sentCount' = sentCount,
         \A r \in Recipients : rcpt[r] = "sent" => rcpt'[r] = "sent",
         \A k \in Runs : pending'[k].sent = pending[k].sent,
         \A k \in Runs, r \in Recipients : stage'[k][r] = "recount" => stage[k][r] = "recount"
  PROVE  Counted'
<1>1. PICK C \in SUBSET InStatus("sent"), P \in [Runs -> SUBSET InStatus("sent")] : Books(C, P)
  BY DEF Counted
<1>2. InStatus("sent") \subseteq InStatus("sent")'
  BY DEF InStatus
<1>3. C \in SUBSET InStatus("sent")' /\ P \in [Runs -> SUBSET InStatus("sent")']
  BY <1>2
<1>4. /\ sentCount' <= Cardinality(C)
      /\ \A k \in Runs : pending'[k].sent <= Cardinality(P[k]) /\ P[k] \cap C = {}
      /\ \A k, l \in Runs : k # l => P[k] \cap P[l] = {}
      /\ \A k \in Runs, r \in Recipients : stage'[k][r] = "recount" =>
           /\ rcpt'[r] = "sent" /\ r \notin C
           /\ \A l \in Runs : r \notin P[l] /\ (stage'[l][r] = "recount" => k = l)
  BY <1>1 DEF Books
<1>5. QED
  BY <1>3, <1>4 DEF Counted, Books

\* queued to sent: run k has one more bump to write; stopped to sent: a recount.
LEMMA LockCounted ==
  ASSUME Shape, RunTypes, Counted, NEW k \in Runs, NEW r \in Recipients, Lock(k, r)
  PROVE  Counted'
<1>1. PICK C \in SUBSET InStatus("sent"), P \in [Runs -> SUBSET InStatus("sent")] : Books(C, P)
  BY DEF Counted
<1>2. UNCHANGED sentCount
  BY DEF Lock, counts
<1>3. CASE rcpt[r] \in {"sent", "failed"}
  <2>1. UNCHANGED <<rcpt, pending>> /\ stage' = [stage EXCEPT ![k][r] = "out"]
    BY <1>3 DEF Lock, Leave
  <2>2. QED
    BY <1>2, <2>1, CountedStays DEF Shape
<1>4. ASSUME rcpt[r] \in {"queued", "stopped"}
      PROVE  /\ rcpt' = [rcpt EXCEPT ![r] = "sent"]
             /\ InStatus("sent") \subseteq InStatus("sent")' /\ r \in InStatus("sent")'
             /\ r \notin C /\ \A l \in Runs : r \notin P[l] /\ stage[l][r] # "recount"
  BY <1>1, <1>4 DEF Lock, Shape, InStatus, Books
<1>5. CASE rcpt[r] = "queued"
  <2> DEFINE Q == [P EXCEPT ![k] = @ \cup {r}]
  <2>1. /\ pending' = [pending EXCEPT ![k]["sent"] = @ + 1]
        /\ stage' = [stage EXCEPT ![k][r] = "out"]
    BY <1>5 DEF Lock, Leave, Bumped
  <2>2. /\ pending'[k].sent = pending[k].sent + 1 /\ pending[k].sent \in Nat
        /\ \A l \in Runs \ {k} : pending'[l] = pending[l]
        /\ \A l \in Runs, q \in Recipients : stage'[l][q] = "recount" => stage[l][q] = "recount"
    BY <2>1 DEF RunTypes, Shape
  <2>3. C \in SUBSET InStatus("sent")' /\ Q \in [Runs -> SUBSET InStatus("sent")']
    BY <1>4, <1>5
  <2>4. Cardinality(P[k] \cup {r}) = Cardinality(P[k]) + 1 /\ Cardinality(P[k]) \in Nat
    <3>1. IsFiniteSet(P[k]) /\ Cardinality(P[k]) \in Nat
      BY FiniteParts DEF InStatus
    <3>2. QED
      BY <1>4, <1>5, <3>1, FS_AddElement
  <2>5. \A l \in Runs : pending'[l].sent <= Cardinality(Q[l])
    BY <1>1, <2>2, <2>4 DEF Books
  <2>6. /\ \A l \in Runs : Q[l] \cap C = {}
        /\ \A l, m \in Runs : l # m => Q[l] \cap Q[m] = {}
    BY <1>1, <1>4, <1>5 DEF Books
  <2>7. \A l \in Runs, q \in Recipients : stage'[l][q] = "recount" =>
           /\ rcpt'[q] = "sent" /\ q \notin C
           /\ \A m \in Runs : q \notin Q[m] /\ (stage'[m][q] = "recount" => l = m)
    BY <1>1, <1>4, <1>5, <2>2 DEF Books, Shape
  <2> HIDE DEF Q
  <2>8. QED
    BY <1>1, <1>2, <2>3, <2>5, <2>6, <2>7 DEF Counted, Books
<1>6. CASE rcpt[r] = "stopped"
  <2>1. UNCHANGED pending /\ stage' = [stage EXCEPT ![k][r] = "recount"]
    BY <1>6 DEF Lock, To
  <2>2. C \in SUBSET InStatus("sent")' /\ P \in [Runs -> SUBSET InStatus("sent")']
    BY <1>4, <1>6
  <2>3. \A l \in Runs, q \in Recipients : stage'[l][q] = "recount" =>
           /\ rcpt'[q] = "sent" /\ q \notin C
           /\ \A m \in Runs : q \notin P[m] /\ (stage'[m][q] = "recount" => l = m)
    BY <1>1, <1>4, <1>6, <2>1 DEF Books, Shape
  <2>4. QED
    BY <1>1, <1>2, <2>1, <2>2, <2>3 DEF Counted, Books
<1>7. QED
  BY <1>3, <1>5, <1>6 DEF Shape

\* A recipient outside C joins it, or is lost to the counter.
LEMMA Joins ==
  ASSUME NEW C \in SUBSET Recipients, NEW r, r \in Recipients \ C, sentCount \in Nat,
         sentCount <= Cardinality(C), sentCount' \in {sentCount, sentCount + 1}
  PROVE  sentCount' <= Cardinality(C \cup {r})
<1>1. IsFiniteSet(C) /\ Cardinality(C) \in Nat
  BY FiniteParts
<1>2. Cardinality(C \cup {r}) = Cardinality(C) + 1
  BY <1>1, FS_AddElement
<1>3. QED
  BY <1>1, <1>2

\* The recount of a cancel race: its recipient is counted, or lost.
LEMMA RecountCounted ==
  ASSUME Shape, RequestTypes, Counted, NEW k \in Runs, NEW r \in Recipients, Recount(k, r)
  PROVE  Counted'
<1>1. PICK C \in SUBSET InStatus("sent"), P \in [Runs -> SUBSET InStatus("sent")] : Books(C, P)
  BY DEF Counted
<1>2. /\ UNCHANGED <<rcpt, pending>> /\ stage[k][r] = "recount"
      /\ stage' = [stage EXCEPT ![k][r] = "out"]
      /\ sentCount' \in {sentCount, sentCount + 1}
  BY DEF Recount, Leave, people, counts
<1>3. /\ r \in InStatus("sent") /\ r \notin C
      /\ \A l \in Runs : r \notin P[l] /\ (stage[l][r] = "recount" => l = k)
  BY <1>1, <1>2 DEF Books, InStatus
<1>4. sentCount' <= Cardinality(C \cup {r})
  BY <1>1, <1>2, <1>3, Joins DEF Books, RequestTypes, InStatus
<1>5. C \cup {r} \in SUBSET InStatus("sent")' /\ P \in [Runs -> SUBSET InStatus("sent")']
  BY <1>2, <1>3 DEF InStatus
<1>6. \A l \in Runs, q \in Recipients : stage'[l][q] = "recount" =>
        q # r /\ stage[l][q] = "recount"
  BY <1>2, <1>3 DEF Shape
<1>7. Books(C \cup {r}, P)'
  BY <1>1, <1>2, <1>3, <1>4, <1>6 DEF Books
<1>8. QED
  BY <1>5, <1>7 DEF Counted

\* A bump of a run: one of its recipients is counted, or lost.
LEMMA BumpCounted ==
  ASSUME Shape, RunTypes, RequestTypes, Counted, NEW k \in Runs, Bump(k)
  PROVE  Counted'
<1>1. PICK C \in SUBSET InStatus("sent"), P \in [Runs -> SUBSET InStatus("sent")] : Books(C, P)
  BY DEF Counted
<1>2. PICK c \in {"sent", "failed"} :
        /\ pending[k][c] > 0 /\ pending' = [pending EXCEPT ![k][c] = @ - 1]
        /\ \/ sentCount' = sentCount + (IF c = "sent" THEN 1 ELSE 0)
           \/ UNCHANGED sentCount
  BY DEF Bump, counts
<1>3. UNCHANGED <<rcpt, stage>>
  BY DEF Bump, people, lanes
<1>4. CASE c = "failed"
  <2>1. sentCount' = sentCount /\ \A l \in Runs : pending'[l].sent = pending[l].sent
    BY <1>2, <1>4 DEF RunTypes, RequestTypes
  <2>2. QED
    BY <1>3, <2>1, CountedStays
<1>5. CASE c = "sent"
  <2>1. /\ pending[k].sent \in Nat \ {0} /\ pending'[k].sent = pending[k].sent - 1
        /\ \A l \in Runs \ {k} : pending'[l] = pending[l]
        /\ sentCount' \in {sentCount, sentCount + 1}
    BY <1>2, <1>5 DEF RunTypes
  <2>2. IsFiniteSet(P[k]) /\ Cardinality(P[k]) \in Nat /\ Cardinality(P[k]) > 0
    <3>1. IsFiniteSet(P[k]) /\ Cardinality(P[k]) \in Nat
      BY FiniteParts DEF InStatus
    <3>2. QED
      BY <1>1, <2>1, <3>1 DEF Books
  <2>3. PICK r \in P[k] : TRUE
    BY <2>2, FS_EmptySet
  <2> DEFINE Q == [P EXCEPT ![k] = @ \ {r}]
  <2>4. Cardinality(P[k] \ {r}) = Cardinality(P[k]) - 1
    BY <2>2, FS_RemoveElement
  <2>5. \A l \in Runs : pending'[l].sent <= Cardinality(Q[l])
    BY <1>1, <2>1, <2>2, <2>4 DEF Books
  <2>6. r \in InStatus("sent") /\ r \notin C /\ \A l \in Runs : stage[l][r] # "recount"
    BY <1>1 DEF Books, InStatus
  <2>7. sentCount' <= Cardinality(C \cup {r})
    BY <1>1, <2>1, <2>6, Joins DEF Books, RequestTypes, InStatus
  <2>8. /\ \A l \in Runs : Q[l] \cap (C \cup {r}) = {}
        /\ \A l, m \in Runs : l # m => Q[l] \cap Q[m] = {}
    BY <1>1 DEF Books
  <2>9. \A l \in Runs, q \in Recipients : stage'[l][q] = "recount" =>
           /\ rcpt'[q] = "sent" /\ q \notin C \cup {r}
           /\ \A m \in Runs : q \notin Q[m] /\ (stage'[m][q] = "recount" => l = m)
    BY <1>1, <1>3, <2>6 DEF Books
  <2>10. C \cup {r} \in SUBSET InStatus("sent")' /\ Q \in [Runs -> SUBSET InStatus("sent")']
    BY <1>3, <2>6 DEF InStatus
  <2> HIDE DEF Q
  <2>11. Books(C \cup {r}, Q)'
    BY <2>5, <2>7, <2>8, <2>9 DEF Books
  <2>12. QED
    BY <2>10, <2>11 DEF Counted
<1>6. QED
  BY <1>4, <1>5

\* The sweeper's repair: a recipient that was not sent is sent and counted.
LEMMA RecoverCounted ==
  ASSUME Shape, RequestTypes, Counted, NEW r \in Recipients, RecoverSent(r)
  PROVE  Counted'
<1>1. PICK C \in SUBSET InStatus("sent"), P \in [Runs -> SUBSET InStatus("sent")] : Books(C, P)
  BY DEF Counted
<1>2. /\ UNCHANGED <<pending, stage>> /\ rcpt[r] # "sent"
      /\ rcpt' = [rcpt EXCEPT ![r] = "sent"] /\ sentCount' \in {sentCount, sentCount + 1}
  BY DEF RecoverSent, runVars, lanes
<1>3. /\ r \notin C /\ (\A l \in Runs : r \notin P[l] /\ stage[l][r] # "recount")
      /\ InStatus("sent")' = InStatus("sent") \cup {r}
  BY <1>1, <1>2 DEF Books, InStatus, Shape
<1>4. sentCount' <= Cardinality(C \cup {r})
  BY <1>1, <1>2, <1>3, Joins DEF Books, RequestTypes, InStatus
<1>5. C \cup {r} \in SUBSET InStatus("sent")' /\ P \in [Runs -> SUBSET InStatus("sent")']
  BY <1>3
<1>6. \A l \in Runs, q \in Recipients : stage'[l][q] = "recount" =>
        q # r /\ stage[l][q] = "recount" /\ rcpt'[q] = rcpt[q]
  BY <1>2, <1>3 DEF Shape
<1>7. Books(C \cup {r}, P)'
  BY <1>1, <1>2, <1>3, <1>4, <1>6 DEF Books
<1>8. QED
  BY <1>5, <1>7 DEF Counted

\* A restart drops every bump and every recount.
LEMMA RestartCounted ==
  ASSUME Counted, Restart
  PROVE  Counted'
<1>1. PICK C \in SUBSET InStatus("sent"), P \in [Runs -> SUBSET InStatus("sent")] : Books(C, P)
  BY DEF Counted
<1> DEFINE Q == [k \in Runs |-> {}]
<1>2. UNCHANGED <<rcpt, sentCount>>
  BY DEF Restart, people, counts
<1>3. \A k \in Runs : pending'[k].sent = 0 /\ \A r \in Recipients : stage'[k][r] = "out"
  BY DEF Restart, Die, NoBumps, Nothing
<1>4. C \in SUBSET InStatus("sent")' /\ Q \in [Runs -> SUBSET InStatus("sent")']
  BY <1>2 DEF InStatus
<1>5. Books(C, Q)'
  BY <1>1, <1>2, <1>3, FS_EmptySet DEF Books
<1>6. QED
  BY <1>4, <1>5 DEF Counted

LEMMA CountedKept ==
  ASSUME Shape, RunTypes, RequestTypes, Counted, [Next]_vars
  PROVE  Counted'
<1>1. ASSUME NEW k \in Runs, RunStep(k) PROVE Counted'
  <2>1. UNCHANGED <<sentCount, pending>>
    BY <1>1 DEF RunStep, Start, Claim, NotConnected, FailRun, FailRows, FailCount, Load,
       LoadFails, Catch, ZombieEnds, Tail, End, counts
  <2>2. \A r \in Recipients : rcpt[r] = "sent" => rcpt'[r] = "sent"
    BY <1>1 DEF RunStep, Start, Claim, NotConnected, FailRun, FailRows, FailCount, Load,
       LoadFails, Catch, ZombieEnds, Tail, people
  <2>3. \A l \in Runs, r \in Recipients : stage'[l][r] = "recount" => stage[l][r] = "recount"
    BY <1>1, RunHarmless DEF Harmless, RunStep, Start, Claim, NotConnected, FailRun, FailRows,
       FailCount, Load, LoadFails, Catch, ZombieEnds, Tail, End, Nothing, lanes, Shape
  <2>4. QED
    BY <2>1, <2>2, <2>3, CountedStays
<1>2. ASSUME NEW k \in Runs, LoopStep(k) PROVE Counted'
  <2>1. UNCHANGED <<sentCount, pending, rcpt>>
    BY <1>2 DEF LoopStep, PollCanceled, LaneExits, LoopThrows, Pull, counts, people
  <2>2. \A l \in Runs, r \in Recipients : stage'[l][r] = "recount" => stage[l][r] = "recount"
    BY <1>2 DEF LoopStep, PollCanceled, LaneExits, LoopThrows, Pull, To, lanes, Shape
  <2>3. QED
    BY <2>1, <2>2, CountedStays
<1>3. ASSUME NEW k \in Runs, NEW r \in Recipients, LaneStep(k, r), ~Lock(k, r), ~Recount(k, r)
      PROVE  Counted'
  <2>1. sentCount' = sentCount
    BY <1>3 DEF LaneStep, ClaimAttempt, CallLands, Fail, Park, Stamp, LaneThrows, CallRetries,
       CallFails, counts
  <2>2. \A q \in Recipients : rcpt[q] = "sent" => rcpt'[q] = "sent"
    BY <1>3 DEF LaneStep, ClaimAttempt, CallLands, Fail, Park, Stamp, LaneThrows, CallRetries,
       CallFails, people, Shape
  <2>3. \A l \in Runs : pending'[l].sent = pending[l].sent
    <3>1. pending' = pending \/ pending' = [pending EXCEPT ![k]["failed"] = @ + 1]
      BY <1>3 DEF LaneStep, ClaimAttempt, CallLands, Fail, Park, Stamp, LaneThrows, CallRetries,
         CallFails, Bumped
    <3>2. CASE pending' = [pending EXCEPT ![k]["failed"] = @ + 1]
      <4>1. pending[k] \in [sent : Nat, failed : Nat]
        BY DEF RunTypes
      <4>2. /\ pending'[k] = [pending[k] EXCEPT !["failed"] = @ + 1]
            /\ \A l \in Runs \ {k} : pending'[l] = pending[l]
        BY <3>2 DEF RunTypes
      <4>3. pending'[k].sent = pending[k].sent
        BY <4>1, <4>2
      <4>4. QED
        BY <4>2, <4>3
    <3>3. QED
      BY <3>1, <3>2
  <2>4. PICK s \in Stages \ {"recount"} : stage' = [stage EXCEPT ![k][r] = s]
    BY <1>3 DEF LaneStep, ClaimAttempt, CallLands, Fail, Park, Stamp, LaneThrows, CallRetries,
       CallFails, Trip, Leave, To, Stages
  <2>5. \A l \in Runs, q \in Recipients : stage'[l][q] = "recount" => stage[l][q] = "recount"
    BY <2>4 DEF Shape
  <2>6. QED
    BY <2>1, <2>2, <2>3, <2>5, CountedStays
<1>4. ASSUME ~Restart, \A r \in Recipients : ~RecoverSent(r),
             \/ TimePasses \/ FireScheduled \/ TemplateDown \/ TemplateUp \/ Operator
             \/ Request \/ Sweep \/ Shutdown \/ Rest \/ UNCHANGED vars
      PROVE  Counted'
  <2>1. UNCHANGED <<stage, pending, sentCount>>
    BY <1>4 DEF Operator, Request, Sweep, Cancel, RetryFailed, ResumeManually, SelectForTeam,
       CancelRows, CancelCount, TemplatePark, ResumeSelected, SelectCooled, SweepQueued,
       StopLeftovers, Select, TimePasses, FireScheduled, TemplateDown, TemplateUp,
       Shutdown, Rest, vars, runVars, lanes, counts
  <2>2. \A r \in Recipients : rcpt[r] = "sent" => rcpt'[r] = "sent"
    BY <1>4 DEF Operator, Request, Sweep, Cancel, RetryFailed, ResumeManually, SelectForTeam,
       CancelRows, CancelCount, TemplatePark, ResumeSelected, SelectCooled, SweepQueued,
       StopLeftovers, Select, TimePasses, FireScheduled, TemplateDown, TemplateUp,
       Shutdown, Rest, vars, people, InStatus
  <2>3. QED
    BY <2>1, <2>2, CountedStays
<1>5. QED
  BY <1>1, <1>2, <1>3, <1>4, LockCounted, RecountCounted, BumpCounted, RecoverCounted,
     RestartCounted DEF Next, LaneStep, Sweep

-----------------------------------------------------------------------------
(* Types and the counter, from one inductive invariant.                    *)

Types == RowTypes /\ MemoryTypes /\ RunTypes /\ RequestTypes /\ BudgetTypes
BInv == IInv /\ Types /\ Room /\ Counted

LEMMA BInvInit == Init => BInv
<1> SUFFICES ASSUME Init PROVE BInv
  OBVIOUS
<1>1. RowTypes
  BY DEF Init, RowTypes, Statuses, Reasons
<1>2. MemoryTypes
  BY BroadcastAssumption, 0 \in 0..Threshold DEF Init, MemoryTypes
<1>3. RunTypes
  BY BroadcastAssumption DEF Init, RunTypes, Phases, NoErrors, NoBumps, NoDefers
<1>4. RequestTypes
  BY DEF Init, RequestTypes, Nobody
<1>5. BudgetTypes
  BY BroadcastAssumption DEF Init, BudgetTypes
<1>6. \A k \in Runs : Busy(k) = {}
  BY DEF Init, Busy, Nothing
<1>7. Room
  <2>1. Cardinality({}) = 0
    BY FS_EmptySet
  <2>2. QED
    <3>1. idle = [k \in Runs |-> 0] /\ \A k \in Runs : Cardinality(Busy(k)) = 0
      BY <1>6, <2>1 DEF Init
    <3>2. QED
      BY <3>1, BroadcastAssumption DEF Room
<1>8. Counted
  <2> DEFINE Q == [k \in Runs |-> {}]
  <2>1. Q \in [Runs -> SUBSET InStatus("sent")]
    OBVIOUS
  <2>2. Books({}, Q)
    BY FS_EmptySet DEF Init, Books, NoBumps, Nothing
  <2>3. QED
    BY <2>1, <2>2 DEF Counted
<1>9. QED
  BY <1>1, <1>2, <1>3, <1>4, <1>5, <1>7, <1>8, IInvInit DEF BInv, Types

LEMMA BInvStep == BInv /\ [Next]_vars => BInv'
BY IInvStep, RowTypesKept, MemoryTypesKept, RunTypesKept, RequestTypesKept, BudgetTypesKept,
   RoomKept, CountedKept DEF BInv, IInv, Sending, Types

\* The counted recipients are sent ones.
LEMMA CountHonest == BInv => SentCountHonest
<1> SUFFICES ASSUME BInv PROVE SentCountHonest
  OBVIOUS
<1>1. PICK C \in SUBSET InStatus("sent"), P \in [Runs -> SUBSET InStatus("sent")] : Books(C, P)
  BY DEF BInv, Counted
<1>2. IsFiniteSet(InStatus("sent")) /\ Cardinality(InStatus("sent")) \in Nat
  BY FiniteParts DEF InStatus
<1>3. Cardinality(C) <= Cardinality(InStatus("sent")) /\ Cardinality(C) \in Nat
  BY <1>2, FS_Subset, FS_CardinalityType
<1>4. QED
  BY <1>1, <1>2, <1>3 DEF Books, SentCountHonest, BInv, Types, RequestTypes

\* The counter of sent recipients never runs ahead of them, whoever counts: a lane,
\* the recount of a cancel race or the repair of the sweeper.
THEOREM CounterHonest == Spec => []SentCountHonest
BY BInvInit, BInvStep, CountHonest, PTL DEF Spec

\* Every variable of the campaign keeps its type: the counter stays within the
\* audience, a run within its lanes, the error streak and the deferrals within theirs.
THEOREM TypeCorrect == Spec => []TypeOK
<1>1. BInv => TypeOK
  <2> SUFFICES ASSUME BInv PROVE TypeOK
    OBVIOUS
  <2>1. sentCount \in 0..Cardinality(Recipients)
    <3>1. /\ Cardinality(InStatus("sent")) \in Nat
          /\ Cardinality(InStatus("sent")) <= Cardinality(Recipients)
          /\ Cardinality(Recipients) \in Nat
      BY FiniteParts DEF InStatus
    <3>2. QED
      BY <3>1, CountHonest DEF SentCountHonest, BInv, Types, RequestTypes
  <2>2. idle \in [Runs -> 0..Lanes]
    <3>1. \A k \in Runs : Cardinality(Busy(k)) \in Nat
      BY FiniteParts DEF Busy
    <3>2. QED
      BY <3>1, BroadcastAssumption DEF BInv, Room
  <2>3. QED
    BY <2>1, <2>2 DEF BInv, IInv, Sending, Shape, Types, RowTypes, MemoryTypes, RunTypes,
       RequestTypes, BudgetTypes, TypeOK
<1>2. QED
  BY BInvInit, BInvStep, <1>1, PTL DEF Spec
=============================================================================
