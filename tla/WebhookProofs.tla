---------------------------- MODULE WebhookProofs ----------------------------
(***************************************************************************)
(* The partner takes a delivery again only for a reason, for any number of *)
(* deliveries, lanes, attempts, crashes and lost locks.  Every future POST *)
(* of a delivery is accounted for in advance: one while its job is still   *)
(* to be run, and one for each lane that goes on without the job's lock.   *)
(***************************************************************************)
EXTENDS WebhookDelivery, FiniteSetTheorems, TLAPS

JobStates == {"none", "waiting", "delayed", "active"} \cup Terminal
Ends == {"returned", "thrown"}

\* What a lane remembers: nothing, the pickup, the failure to be recorded, or the
\* end of the job function.
Works ==
  {Idle}
  \cup [step : {"posting", "noop", "sealed", "taken"}, d : Deliveries, attempt : Nat,
        disabledTest : BOOLEAN]
  \cup [step : {"row", "bump", "trip"}, d : Deliveries, attempt : Nat, final : BOOLEAN,
        end : Ends]
  \cup [step : Ends, d : Deliveries]

Shape ==
  /\ job \in [Deliveries -> [st : JobStates, tries : Nat, stalls : Nat,
                             owner : Lanes \cup {Nobody}]]
  /\ run \in [Lanes -> Works]
  /\ accepts \in [Deliveries -> Nat]
  /\ again \in [Deliveries -> Nat]

\* The lane with the lock of a job is working on that job, which is active.
OwnerWorks ==
  \A d \in Deliveries :
    LET l == job[d].owner
    IN  l # Nobody => job[d].st = "active" /\ run[l].step # "off" /\ run[l].d = d

\* Lanes that are about to POST d although they lost the lock of its job.
Astray(d) ==
  {l \in Lanes : run[l].step = "posting" /\ run[l].d = d /\ job[d].owner # l}

\* The job of d may still lead to a POST, or to a repetition of one.
Pending(d) ==
  \/ job[d].st \in {"none", "waiting", "delayed"}
  \/ /\ job[d].st = "active"
     /\ job[d].owner # Nobody => run[job[d].owner].step \notin {"taken", "returned"}
Owed(d) == IF Pending(d) THEN 1 ELSE 0

Accounted(d) == accepts[d] + Owed(d) + Cardinality(Astray(d)) <= 1 + again[d]

IInv == Shape /\ OwnerWorks /\ \A d \in Deliveries : Accounted(d)

-----------------------------------------------------------------------------
(* Counting.                                                               *)

LEMMA LanesFinite == IsFiniteSet(Lanes) /\ Nobody \notin Lanes
<1>1. Concurrency \in Nat
  BY ConstantsAssumption
<1>2. QED
  BY <1>1, FS_Interval DEF Lanes, Nobody

LEMMA AstrayFinite ==
  ASSUME NEW d \in Deliveries
  PROVE  IsFiniteSet(Astray(d)) /\ Cardinality(Astray(d)) \in Nat
<1>1. Astray(d) \subseteq Lanes
  BY DEF Astray
<1>2. QED
  BY <1>1, LanesFinite, FS_Subset, FS_CardinalityType

LEMMA AstrayFiniteNext ==
  ASSUME NEW d \in Deliveries
  PROVE  IsFiniteSet(Astray(d)') /\ Cardinality(Astray(d)') \in Nat
<1>1. Astray(d)' \subseteq Lanes
  BY DEF Astray
<1>2. QED
  BY <1>1, LanesFinite, FS_Subset, FS_CardinalityType

\* Fewer lanes astray, and no more owed than is excused.
LEMMA FewerAstray ==
  ASSUME NEW d \in Deliveries, Astray(d)' \subseteq Astray(d)
  PROVE  Cardinality(Astray(d)') <= Cardinality(Astray(d))
BY AstrayFinite, FS_Subset

-----------------------------------------------------------------------------
(* Steps of a lane.                                                        *)

\* Lane l goes on with its delivery, at step s.
Moves(l, s) ==
  /\ run' \in [Lanes -> Works]
  /\ run'[l].step = s /\ run'[l].d = run[l].d
  /\ \A m \in Lanes \ {l} : run'[m] = run[m]

\* A lane that does not get ready to POST; after the partner took the message it
\* goes on to its end, or has a reason to run again.
LEMMA MovesKeep ==
  ASSUME IInv, NEW l \in Lanes, NEW s, Moves(l, s),
         run[l].step # "off", run[l].d \in Deliveries, s \notin {"off", "posting"},
         UNCHANGED <<job, accepts>>, again' \in [Deliveries -> Nat],
         \A d \in Deliveries : again'[d] >= again[d],
         \/ run[l].step \notin {"taken", "returned"}
         \/ s \in {"taken", "returned"}
         \/ again'[run[l].d] >= again[run[l].d] + 1
  PROVE  IInv'
<1>1. Shape'
  BY DEF IInv, Shape, Moves
<1>2. OwnerWorks'
  BY DEF IInv, OwnerWorks, Moves, Shape, Nobody, Lanes
<1>3. ASSUME NEW d \in Deliveries PROVE Accounted(d)'
  <2>1. Cardinality(Astray(d)') <= Cardinality(Astray(d))
    <3>1. Astray(d)' \subseteq Astray(d)
      BY DEF Astray, Moves
    <3>2. QED
      BY <3>1, FewerAstray
  <2>2. Owed(d)' <= Owed(d) + (again'[d] - again[d])
    <3>1. again[d] \in Nat /\ again'[d] \in Nat /\ again'[d] >= again[d]
      BY DEF IInv, Shape
    <3>2. CASE job[d].owner = l
      <4>1. run[l].d = d /\ job[d].st = "active" /\ l # Nobody
        BY <3>2, LanesFinite DEF IInv, OwnerWorks
      <4>2. Pending(d) <=> run[l].step \notin {"taken", "returned"}
        BY <3>2, <4>1 DEF Pending
      <4>3. Pending(d)' <=> s \notin {"taken", "returned"}
        BY <3>2, <4>1 DEF Pending, Moves
      <4>4. QED
        BY <3>1, <4>1, <4>2, <4>3 DEF Owed
    <3>3. CASE job[d].owner # l
      <4>1. Pending(d)' <=> Pending(d)
        BY <3>3 DEF Pending, Moves, IInv, Shape
      <4>2. QED
        BY <3>1, <4>1 DEF Owed
    <3>4. QED
      BY <3>2, <3>3
  <2>3. /\ accepts[d] \in Nat /\ again[d] \in Nat /\ again'[d] \in Nat
        /\ Owed(d) \in Int /\ Owed(d)' \in Int /\ Accounted(d)
    BY DEF IInv, Shape, Owed
  <2>4. QED
    BY <2>1, <2>2, <2>3, AstrayFinite, AstrayFiniteNext DEF Accounted
<1>4. QED
  BY <1>1, <1>2, <1>3 DEF IInv

\* What a lane at a step remembers.
LEMMA LaneWork ==
  ASSUME Shape, NEW l \in Lanes
  PROVE  /\ run[l] \in Works
         /\ run[l].step # "off" => run[l].d \in Deliveries
         /\ run[l].step \in {"posting", "noop", "sealed", "taken"} =>
              run[l] \in [step : {"posting", "noop", "sealed", "taken"}, d : Deliveries,
                          attempt : Nat, disabledTest : BOOLEAN]
         /\ run[l].step \in {"row", "bump", "trip"} =>
              run[l] \in [step : {"row", "bump", "trip"}, d : Deliveries, attempt : Nat,
                          final : BOOLEAN, end : Ends]
         /\ run[l].step \in Ends => run[l] \in [step : Ends, d : Deliveries]
BY DEF Shape, Works, Idle, Ends

\* Replacing what lane l remembers.
LEMMA MovesBy ==
  ASSUME Shape, NEW l \in Lanes, NEW w \in Works, w.d = run[l].d,
         run' = [run EXCEPT ![l] = w]
  PROVE  Moves(l, w.step)
BY DEF Shape, Moves

\* Spending a budget or counting a history leaves the accounts alone.
LEMMA AgainGrows ==
  ASSUME Shape, NEW S \in SUBSET Deliveries, Again(S)
  PROVE  /\ again' \in [Deliveries -> Nat]
         /\ \A d \in Deliveries : again'[d] >= again[d]
         /\ \A d \in S : again'[d] = again[d] + 1
         /\ \A d \in Deliveries \ S : again'[d] = again[d]
BY DEF Shape, Again

LEMMA LaneKeeps ==
  ASSUME IInv, NEW l \in Lanes,
         \/ Undecryptable(l) \/ NotTaken(l) \/ AnswerLost(l) \/ RecordOk(l) \/ RecordSkip(l)
         \/ RecordFailure(l) \/ Bump(l) \/ Trip(l) \/ Blip(l)
  PROVE  IInv'
<1>1. Shape /\ UNCHANGED <<job, accepts>>
  BY DEF IInv, Undecryptable, NotTaken, AnswerLost, RecordOk, RecordSkip, RecordFailure, Bump,
     Trip, Blip, history
<1> DEFINE r == run[l]
           early == [step : {"posting", "noop", "sealed", "taken"}, d : Deliveries,
                     attempt : Nat, disabledTest : BOOLEAN]
           late == [step : {"row", "bump", "trip"}, d : Deliveries, attempt : Nat,
                    final : BOOLEAN, end : Ends]
<1>2. ASSUME UNCHANGED again
      PROVE  again' \in [Deliveries -> Nat] /\ \A d \in Deliveries : again'[d] >= again[d]
  BY <1>1, <1>2 DEF Shape
<1>3. CASE Undecryptable(l)
  <2>1. r \in early /\ r.step = "posting" /\ UNCHANGED again
    BY <1>1, <1>3, LaneWork DEF Undecryptable, At, history
  <2>2. run' = [run EXCEPT ![l] = [r EXCEPT !.step = "sealed"]]
    BY <1>3 DEF Undecryptable
  <2>3. [r EXCEPT !.step = "sealed"] \in Works /\ [r EXCEPT !.step = "sealed"].d = r.d
        /\ [r EXCEPT !.step = "sealed"].step = "sealed"
    BY <2>1 DEF Works
  <2>4. QED
    BY <1>1, <1>2, <2>1, <2>2, <2>3, MovesBy, MovesKeep
<1>4. CASE NotTaken(l)
  <2>1. r \in early /\ r.step = "posting" /\ UNCHANGED again
    BY <1>1, <1>4, LaneWork DEF NotTaken, At, history
  <2>2. PICK final \in BOOLEAN, end \in Ends : run' = [run EXCEPT ![l] = Failing(r, final, end)]
    BY <1>4, <2>1 DEF NotTaken, LastAttempt, Ends
  <2>3. Failing(r, final, end) \in Works /\ Failing(r, final, end).d = r.d
        /\ Failing(r, final, end).step = "row"
    BY <2>1 DEF Failing, Works
  <2>4. QED
    BY <1>1, <1>2, <2>1, <2>2, <2>3, MovesBy, MovesKeep
<1>5. CASE AnswerLost(l)
  <2>1. r \in early /\ r.step = "taken" /\ Again({r.d})
    BY <1>1, <1>5, LaneWork DEF AnswerLost, At
  <2> DEFINE final == LastAttempt(r)
  <2>2. run' = [run EXCEPT ![l] = Failing(r, final, "thrown")] /\ final \in BOOLEAN
    BY <1>5 DEF AnswerLost, LastAttempt
  <2> HIDE DEF final
  <2>3. Failing(r, final, "thrown") \in Works /\ Failing(r, final, "thrown").d = r.d
        /\ Failing(r, final, "thrown").step = "row"
    BY <2>1, <2>2 DEF Failing, Works, Ends
  <2>4. again' \in [Deliveries -> Nat] /\ (\A d \in Deliveries : again'[d] >= again[d])
        /\ again'[r.d] = again[r.d] + 1
    BY <1>1, <2>1, AgainGrows
  <2>5. again'[r.d] >= again[r.d] + 1
    BY <1>1, <2>1, <2>4 DEF Shape
  <2>6. QED
    BY <1>1, <2>1, <2>2, <2>3, <2>4, <2>5, MovesBy, MovesKeep
<1>6. CASE RecordOk(l) \/ RecordSkip(l)
  <2>1. r \in early /\ UNCHANGED again
    BY <1>1, <1>6, LaneWork DEF RecordOk, RecordSkip, At, history
  <2>2. PICK end \in Ends : /\ run' = [run EXCEPT ![l] = Over(r, end)]
                            /\ r.step = "taken" => end = "returned"
    BY <1>6 DEF RecordOk, RecordSkip, Ends, At
  <2>3. Over(r, end) \in Works /\ Over(r, end).d = r.d /\ Over(r, end).step = end
    BY <2>1 DEF Over, Works
  <2>4. r.step \notin {"taken", "returned"} \/ end \in {"taken", "returned"}
    BY <2>1, <2>2
  <2>5. QED
    BY <1>1, <1>2, <2>1, <2>2, <2>3, <2>4, MovesBy, MovesKeep DEF Ends
<1>7. CASE RecordFailure(l) \/ Bump(l) \/ Trip(l)
  <2>1. r \in late /\ UNCHANGED again
    BY <1>1, <1>7, LaneWork DEF RecordFailure, Bump, Trip, At, history
  <2>2. \/ \E s \in {"bump", "trip"} : run' = [run EXCEPT ![l] = [r EXCEPT !.step = s]]
        \/ run' = [run EXCEPT ![l] = Over(r, r.end)]
    BY <1>7 DEF RecordFailure, Bump, Trip
  <2>3. CASE run' = [run EXCEPT ![l] = Over(r, r.end)]
    <3>1. Over(r, r.end) \in Works /\ Over(r, r.end).d = r.d /\ Over(r, r.end).step = r.end
          /\ r.end \in Ends
      BY <2>1 DEF Over, Works
    <3>2. QED
      BY <1>1, <1>2, <2>1, <2>3, <3>1, MovesBy, MovesKeep DEF Ends
  <2>4. ASSUME NEW s \in {"bump", "trip"}, run' = [run EXCEPT ![l] = [r EXCEPT !.step = s]]
        PROVE  IInv'
    <3>1. [r EXCEPT !.step = s] \in Works /\ [r EXCEPT !.step = s].d = r.d
          /\ [r EXCEPT !.step = s].step = s
      BY <2>1 DEF Works
    <3>2. QED
      BY <1>1, <1>2, <2>1, <2>4, <3>1, MovesBy, MovesKeep
  <2>5. QED
    BY <2>2, <2>3, <2>4
<1>8. CASE Blip(l)
  <2>1. r.step \in {"posting", "noop", "sealed", "taken", "row", "bump", "trip"}
        /\ r.d \in Deliveries /\ run' = [run EXCEPT ![l] = Over(r, "thrown")]
    BY <1>1, <1>8, LaneWork DEF Blip
  <2>2. Over(r, "thrown") \in Works /\ Over(r, "thrown").d = r.d
        /\ Over(r, "thrown").step = "thrown"
    BY <2>1 DEF Over, Works, Ends
  <2>3. PICK S \in SUBSET {r.d} : Again(S) /\ (r.step = "taken" => S = {r.d})
    BY <1>8 DEF Blip, At
  <2>4. again' \in [Deliveries -> Nat] /\ (\A d \in Deliveries : again'[d] >= again[d])
        /\ (r.step = "taken" => again'[r.d] = again[r.d] + 1)
    BY <1>1, <2>1, <2>3, AgainGrows
  <2>5. r.step = "taken" => again'[r.d] >= again[r.d] + 1
    BY <1>1, <2>1, <2>4 DEF Shape
  <2>6. QED
    BY <1>1, <2>1, <2>2, <2>4, <2>5, MovesBy, MovesKeep
<1>9. QED
  BY <1>3, <1>4, <1>5, <1>6, <1>7, <1>8

\* A POST uses up what was owed: the lane with the lock is done with the job's one,
\* a lane without it is astray no more.
LEMMA PostKeeps ==
  ASSUME IInv, NEW l \in Lanes, Post(l)
  PROVE  IInv'
<1> DEFINE r == run[l]
<1>1. /\ r.step = "posting" /\ r.d \in Deliveries /\ UNCHANGED <<job, again>>
      /\ run' = [run EXCEPT ![l] = [r EXCEPT !.step = "taken"]]
      /\ accepts' = [accepts EXCEPT ![r.d] = @ + 1]
      /\ Shape
  BY LaneWork DEF Post, At, IInv
<1>2. Moves(l, "taken")
  <2>1. /\ [r EXCEPT !.step = "taken"] \in Works /\ [r EXCEPT !.step = "taken"].d = r.d
        /\ [r EXCEPT !.step = "taken"].step = "taken"
    BY <1>1, LaneWork DEF Works
  <2>2. QED
    BY <1>1, <2>1, MovesBy
<1>3. Shape'
  BY <1>1, <1>2 DEF Shape, Moves
<1>4. OwnerWorks'
  BY <1>1, <1>2 DEF IInv, OwnerWorks, Moves, Shape
<1>5. ASSUME NEW d \in Deliveries PROVE Accounted(d)'
  <2>1. /\ accepts[d] \in Nat /\ again[d] \in Nat /\ Accounted(d) /\ again'[d] = again[d]
    BY <1>1 DEF IInv, Shape
  <2>2. CASE d # r.d
    <3>1. accepts'[d] = accepts[d]
      BY <1>1, <2>2 DEF Shape
    <3>2. Cardinality(Astray(d)') <= Cardinality(Astray(d))
      <4>1. Astray(d)' \subseteq Astray(d)
        BY <1>1, <1>2 DEF Astray, Moves
      <4>2. QED
        BY <4>1, FewerAstray
    <3>3. Pending(d)' <=> Pending(d)
      BY <1>1, <1>2, <2>2, LanesFinite DEF IInv, OwnerWorks, Pending, Moves, Shape
    <3>4. QED
      BY <2>1, <3>1, <3>2, <3>3, AstrayFinite, AstrayFiniteNext DEF Accounted, Owed
  <2>3. CASE d = r.d
    <3>1. accepts'[d] = accepts[d] + 1
      BY <1>1, <2>3 DEF Shape
    <3>2. CASE job[d].owner = l
      <4>1. job[d].st = "active" /\ l # Nobody
        BY <3>2, LanesFinite DEF IInv, OwnerWorks
      <4>2. Owed(d) = 1 /\ Owed(d)' = 0
        BY <1>1, <1>2, <3>2, <4>1 DEF Owed, Pending, Moves
      <4>3. Cardinality(Astray(d)') <= Cardinality(Astray(d))
        <5>1. Astray(d)' \subseteq Astray(d)
          BY <1>1, <1>2 DEF Astray, Moves
        <5>2. QED
          BY <5>1, FewerAstray
      <4>4. QED
        BY <2>1, <3>1, <4>2, <4>3, AstrayFinite, AstrayFiniteNext DEF Accounted
    <3>3. CASE job[d].owner # l
      <4>1. l \in Astray(d) /\ Astray(d)' \subseteq Astray(d) \ {l}
        BY <1>1, <1>2, <2>3, <3>3 DEF Astray, Moves
      <4>2. Cardinality(Astray(d)') <= Cardinality(Astray(d)) - 1
        <5>1. /\ IsFiniteSet(Astray(d) \ {l})
              /\ Cardinality(Astray(d) \ {l}) = Cardinality(Astray(d)) - 1
          BY <4>1, AstrayFinite, FS_RemoveElement
        <5>2. Cardinality(Astray(d)') <= Cardinality(Astray(d) \ {l})
          BY <4>1, <5>1, FS_Subset
        <5>3. QED
          BY <5>1, <5>2
      <4>3. Pending(d)' <=> Pending(d)
        BY <1>1, <1>2, <3>3 DEF Pending, Moves, Shape
      <4>4. QED
        BY <2>1, <3>1, <4>2, <4>3, AstrayFinite, AstrayFiniteNext DEF Accounted, Owed
    <3>4. QED
      BY <3>2, <3>3
  <2>4. QED
    BY <2>2, <2>3
<1>6. QED
  BY <1>3, <1>4, <1>5 DEF IInv

\* A lane takes a waiting job, which then owes the POST of this lane.
LEMMA PickupKeeps ==
  ASSUME IInv, NEW l \in Lanes, NEW d \in Deliveries, Pickup(l, d)
  PROVE  IInv'
<1>1. /\ run[l].step = "off" /\ job[d].st = "waiting" /\ job[d].owner = Nobody
      /\ UNCHANGED <<accepts, again>> /\ Shape /\ OwnerWorks
      /\ job' = [job EXCEPT ![d].st = "active", ![d].owner = l]
  BY DEF Pickup, Free, IInv, OwnerWorks, history
<1>2. PICK w \in Works : /\ w.step \in {"posting", "noop"} /\ w.d = d
                         /\ run' = [run EXCEPT ![l] = w]
  <2> DEFINE tried == job[d].tries + 1
             off == d \in Tests /\ ~enabled
             s == IF enabled \/ d \in Tests THEN "posting" ELSE "noop"
  <2>1. tried \in Nat /\ off \in BOOLEAN /\ s \in {"posting", "noop"}
    BY <1>1 DEF Shape
  <2>2. run' = [run EXCEPT ![l] = [step |-> s, d |-> d, attempt |-> tried,
                                   disabledTest |-> off]]
    BY DEF Pickup
  <2> HIDE DEF tried, off, s
  <2>3. QED
    BY <2>1, <2>2 DEF Works
<1>3. /\ job'[d].st = "active" /\ job'[d].owner = l
      /\ run'[l].step \in {"posting", "noop"} /\ run'[l].d = d
      /\ \A e \in Deliveries \ {d} : job'[e] = job[e]
      /\ \A m \in Lanes \ {l} : run'[m] = run[m]
  BY <1>1, <1>2 DEF Shape
<1>4. Shape'
  <2>1. job[d].st \in JobStates /\ "active" \in JobStates /\ l \in Lanes \cup {Nobody}
    BY <1>1 DEF Shape, JobStates
  <2>2. [job[d] EXCEPT !.st = "active", !.owner = l] \in
          [st : JobStates, tries : Nat, stalls : Nat, owner : Lanes \cup {Nobody}]
    BY <1>1, <2>1 DEF Shape
  <2>3. job' = [job EXCEPT ![d] = [job[d] EXCEPT !.st = "active", !.owner = l]]
    BY <1>1 DEF Shape
  <2>4. QED
    BY <1>1, <1>2, <2>2, <2>3 DEF Shape
<1>5. \A e \in Deliveries : job[e].owner # l
  BY <1>1, LanesFinite DEF OwnerWorks
<1>6. OwnerWorks'
  BY <1>1, <1>3, <1>5 DEF OwnerWorks, Shape
<1>7. ASSUME NEW e \in Deliveries PROVE Accounted(e)'
  <2>1. accepts'[e] = accepts[e] /\ again'[e] = again[e] /\ accepts[e] \in Nat
        /\ again[e] \in Nat /\ Accounted(e)
    BY <1>1 DEF IInv, Shape
  <2>2. Cardinality(Astray(e)') <= Cardinality(Astray(e))
    <3>1. Astray(e)' \subseteq Astray(e)
      BY <1>1, <1>3, LanesFinite DEF Astray
    <3>2. QED
      BY <3>1, FewerAstray
  <2>3. Pending(e)' => Pending(e)
    BY <1>1, <1>3, <1>5 DEF Pending, Shape
  <2>4. QED
    BY <2>1, <2>2, <2>3, AstrayFinite, AstrayFiniteNext DEF Accounted, Owed
<1>8. QED
  BY <1>4, <1>6, <1>7 DEF IInv

\* A run that ends gives its job back if it still has it: a run that threw leaves it
\* pending, as it was.
LEMMA FinishKeeps ==
  ASSUME IInv, NEW l \in Lanes, Finish(l)
  PROVE  IInv'
<1> DEFINE d == run[l].d
<1>1. /\ run[l].step \in Ends /\ d \in Deliveries /\ Shape /\ OwnerWorks
      /\ UNCHANGED <<accepts, again>> /\ run' = [run EXCEPT ![l] = Idle]
      /\ job' = IF job[d].owner = l THEN [job EXCEPT ![d] = Settled(@, run[l].step)] ELSE job
  BY LaneWork DEF Finish, IInv, history, Ends
<1>2. /\ Settled(job[d], run[l].step) \in [st : JobStates, tries : Nat, stalls : Nat,
                                           owner : Lanes \cup {Nobody}]
      /\ Settled(job[d], run[l].step).owner = Nobody
      /\ Settled(job[d], run[l].step).st \in {"delayed"} \cup Terminal
      /\ Settled(job[d], run[l].step).st = "delayed" => run[l].step = "thrown"
  <2> DEFINE n == IF run[l].step = "thrown" THEN job[d].tries + 1 ELSE job[d].tries
             st == CASE run[l].step = "returned" -> "completed"
                     [] run[l].step = "thrown" /\ job[d].tries + 1 < MaxAttempts -> "delayed"
                     [] OTHER -> "failed"
  <2>1. Settled(job[d], run[l].step) =
          [job[d] EXCEPT !.owner = Nobody, !.tries = n, !.st = st]
    BY DEF Settled
  <2>2. n \in Nat /\ st \in JobStates /\ st \in {"delayed"} \cup Terminal
        /\ (st = "delayed" => run[l].step = "thrown")
    BY <1>1 DEF Shape, JobStates, Terminal, Ends
  <2>3. job[d] \in [st : JobStates, tries : Nat, stalls : Nat, owner : Lanes \cup {Nobody}]
    BY <1>1 DEF Shape
  <2> HIDE DEF n, st
  <2>4. QED
    BY <2>1, <2>2, <2>3
<1>3. run'[l] = Idle /\ Idle.step = "off" /\ Idle \in Works
      /\ \A m \in Lanes \ {l} : run'[m] = run[m]
  BY <1>1 DEF Shape, Idle, Works
<1>4. /\ job' \in [Deliveries -> [st : JobStates, tries : Nat, stalls : Nat,
                                  owner : Lanes \cup {Nobody}]]
      /\ \A e \in Deliveries : job[e].owner # l => job'[e] = job[e]
      /\ \A e \in Deliveries : job[e].owner = l =>
           e = d /\ job'[e] = Settled(job[d], run[l].step)
  BY <1>1, <1>2, LanesFinite DEF Shape, OwnerWorks
<1>5. Shape'
  BY <1>1, <1>3, <1>4 DEF Shape
<1>6. OwnerWorks'
  BY <1>1, <1>2, <1>3, <1>4 DEF OwnerWorks, Shape
<1>7. ASSUME NEW e \in Deliveries PROVE Accounted(e)'
  <2>1. accepts'[e] = accepts[e] /\ again'[e] = again[e] /\ accepts[e] \in Nat
        /\ again[e] \in Nat /\ Accounted(e)
    BY <1>1 DEF IInv, Shape
  <2>2. Cardinality(Astray(e)') <= Cardinality(Astray(e))
    <3>1. Astray(e)' \subseteq Astray(e)
      BY <1>3, <1>4 DEF Astray
    <3>2. QED
      BY <3>1, FewerAstray
  <2>3. Pending(e)' => Pending(e)
    <3>1. CASE job[e].owner = l
      <4>1. job'[e].st = "delayed" => Pending(e)
        BY <1>1, <1>2, <1>4, <3>1, LanesFinite DEF Pending, OwnerWorks
      <4>2. QED
        BY <1>2, <1>4, <3>1, <4>1 DEF Pending, Terminal
    <3>2. CASE job[e].owner # l
      BY <1>3, <1>4, <3>2 DEF Pending, Shape
    <3>3. QED
      BY <3>1, <3>2
  <2>4. QED
    BY <2>1, <2>2, <2>3, AstrayFinite, AstrayFiniteNext DEF Accounted, Owed
<1>8. QED
  BY <1>5, <1>6, <1>7 DEF IInv

-----------------------------------------------------------------------------
(* Steps of a job, and of the environment.                                 *)

\* A job without a lock changes: it becomes pending only with a reason.
LEMMA JobKeeps ==
  ASSUME IInv, NEW d \in Deliveries, UNCHANGED <<run, accepts>>,
         job' \in [Deliveries -> [st : JobStates, tries : Nat, stalls : Nat,
                                  owner : Lanes \cup {Nobody}]],
         \A e \in Deliveries \ {d} : job'[e] = job[e],
         job[d].owner = Nobody, job'[d].owner = Nobody,
         again' \in [Deliveries -> Nat], \A e \in Deliveries : again'[e] >= again[e],
         job[d].st \in Terminal => job'[d].st \in Terminal \/ again'[d] >= again[d] + 1
  PROVE  IInv'
<1>1. Shape'
  BY DEF IInv, Shape
<1>2. OwnerWorks'
  BY DEF IInv, OwnerWorks
<1>3. ASSUME NEW e \in Deliveries PROVE Accounted(e)'
  <2>1. /\ accepts'[e] = accepts[e] /\ accepts[e] \in Nat /\ again[e] \in Nat
        /\ again'[e] \in Nat /\ again'[e] >= again[e] /\ Accounted(e)
    BY DEF IInv, Shape
  <2>2. Cardinality(Astray(e)') <= Cardinality(Astray(e))
    <3>1. Astray(e)' \subseteq Astray(e)
      BY LanesFinite DEF Astray
    <3>2. QED
      BY <3>1, FewerAstray
  <2>3. Pending(e)' => Pending(e) \/ again'[e] >= again[e] + 1
    BY DEF Pending, IInv, Shape, JobStates, Terminal
  <2>4. QED
    BY <2>1, <2>2, <2>3, AstrayFinite, AstrayFiniteNext DEF Accounted, Owed
<1>4. QED
  BY <1>1, <1>2, <1>3 DEF IInv

\* A job that waits, is delayed, ended or stalled has no lock.
LEMMA Unlocked ==
  ASSUME IInv, NEW d \in Deliveries, job[d].st # "active"
  PROVE  job[d].owner = Nobody
BY DEF IInv, OwnerWorks

\* Nothing the invariant speaks of changes.
LEMMA StillKeeps ==
  ASSUME IInv, UNCHANGED <<job, run, accepts, again>>
  PROVE  IInv'
BY DEF IInv, Shape, OwnerWorks, Accounted, Owed, Pending, Astray

LEMMA JobStepKeeps ==
  ASSUME IInv, NEW d \in Deliveries,
         \/ Enqueue(d) \/ SweepAdd(d) \/ Due(d) \/ (\E l \in Lanes : Defer(l, d))
         \/ Stalled(d) \/ SweepClear(d)
  PROVE  IInv'
<1>1. UNCHANGED <<run, accepts>> /\ Shape
  BY DEF Enqueue, SweepAdd, Due, Defer, Stalled, SweepClear, history, IInv
<1>2. again' \in [Deliveries -> Nat] /\ \A e \in Deliveries : again'[e] >= again[e]
  <2>1. UNCHANGED again \/ Again({d})
    BY DEF Enqueue, SweepAdd, Due, Defer, Stalled, SweepClear, history
  <2>2. QED
    BY <1>1, <2>1, AgainGrows DEF Shape
<1>3. CASE Enqueue(d) \/ SweepAdd(d)
  <2>1. /\ UNCHANGED again
        /\ job' = job \/ (job[d].st = "none" /\ job' = [job EXCEPT ![d] = NewJob])
    BY <1>3 DEF Enqueue, SweepAdd, Added, history
  <2>2. NewJob \in [st : JobStates, tries : Nat, stalls : Nat, owner : Lanes \cup {Nobody}]
        /\ NewJob.owner = Nobody
    BY DEF NewJob, NoJob, JobStates
  <2>3. CASE job[d].st = "none" /\ job' = [job EXCEPT ![d] = NewJob]
    <3>1. job[d].owner = Nobody /\ job[d].st \notin Terminal
      BY <2>3, Unlocked DEF Terminal
    <3>2. /\ job' \in [Deliveries -> [st : JobStates, tries : Nat, stalls : Nat,
                                      owner : Lanes \cup {Nobody}]]
          /\ job'[d].owner = Nobody /\ \A e \in Deliveries \ {d} : job'[e] = job[e]
      BY <1>1, <2>2, <2>3 DEF Shape
    <3>3. QED
      BY <1>1, <1>2, <3>1, <3>2, JobKeeps
  <2>4. QED
    BY <1>1, <2>1, <2>3, StillKeeps
<1>4. CASE Due(d) \/ (\E l \in Lanes : Defer(l, d)) \/ Stalled(d)
  <2>1. job[d].owner = Nobody /\ job[d].st \in {"delayed", "waiting", "active"}
    BY <1>4, Unlocked DEF Due, Defer, Stalled
  <2>2. PICK st \in JobStates, n \in Nat :
          job' = [job EXCEPT ![d].st = st, ![d].stalls = n]
    <3>1. CASE Due(d) \/ (\E l \in Lanes : Defer(l, d))
      <4>1. PICK st \in JobStates : job' = [job EXCEPT ![d].st = st]
        BY <3>1 DEF Due, Defer, JobStates
      <4>2. job[d].stalls \in Nat /\ job' = [job EXCEPT ![d].st = st, ![d].stalls = job[d].stalls]
        BY <1>1, <4>1 DEF Shape
      <4>3. QED
        BY <4>2
    <3>2. CASE Stalled(d)
      <4> DEFINE n == IF job[d].stalls < MaxStalls THEN job[d].stalls + 1 ELSE job[d].stalls
                 st == IF job[d].stalls < MaxStalls THEN "waiting" ELSE "failed"
      <4>1. n \in Nat /\ st \in JobStates
        BY <1>1 DEF Shape, JobStates, Terminal
      <4>2. job' = [job EXCEPT ![d].st = st, ![d].stalls = n]
        BY <1>1, <3>2 DEF Stalled, Shape
      <4> HIDE DEF n, st
      <4>3. QED
        BY <4>1, <4>2
    <3>3. QED
      BY <1>4, <3>1, <3>2
  <2>3. /\ job' \in [Deliveries -> [st : JobStates, tries : Nat, stalls : Nat,
                                    owner : Lanes \cup {Nobody}]]
        /\ job'[d].owner = Nobody /\ \A e \in Deliveries \ {d} : job'[e] = job[e]
    BY <1>1, <2>1, <2>2 DEF Shape
  <2>4. QED
    BY <1>1, <1>2, <2>1, <2>3, JobKeeps DEF Terminal
<1>5. CASE SweepClear(d)
  <2>1. CASE job[d].st \in Terminal
    <3>1. job' = [job EXCEPT ![d] = NoJob] /\ Again({d})
      BY <1>5, <2>1 DEF SweepClear
    <3>2. NoJob \in [st : JobStates, tries : Nat, stalls : Nat, owner : Lanes \cup {Nobody}]
          /\ NoJob.owner = Nobody
      BY DEF NoJob, JobStates
    <3>3. job[d].owner = Nobody
      BY <2>1, Unlocked DEF Terminal
    <3>4. /\ job' \in [Deliveries -> [st : JobStates, tries : Nat, stalls : Nat,
                                      owner : Lanes \cup {Nobody}]]
          /\ job'[d].owner = Nobody /\ \A e \in Deliveries \ {d} : job'[e] = job[e]
      BY <1>1, <3>1, <3>2 DEF Shape
    <3>5. again'[d] >= again[d] + 1
      BY <1>1, <3>1, AgainGrows DEF Shape
    <3>6. QED
      BY <1>1, <1>2, <3>3, <3>4, <3>5, JobKeeps
  <2>2. CASE job[d].st \notin Terminal
    BY <1>1, <1>5, <2>2, StillKeeps DEF SweepClear
  <2>3. QED
    BY <2>1, <2>2
<1>6. QED
  BY <1>3, <1>4, <1>5

\* A lane that loses the lock is astray if it has not posted yet, and the job may be
\* run again: one reason for each such loss.
LEMMA ExpiryKeeps ==
  ASSUME IInv, NEW d \in Deliveries, LockExpires(d)
  PROVE  IInv'
<1> DEFINE l == job[d].owner
<1>1. /\ l \in Lanes /\ UNCHANGED <<run, accepts>> /\ Shape /\ OwnerWorks
      /\ job' = [job EXCEPT ![d].owner = Nobody] /\ Again({d})
  BY DEF LockExpires, IInv, Shape, history
<1>2. /\ job'[d].owner = Nobody /\ job'[d].st = job[d].st
      /\ \A e \in Deliveries \ {d} : job'[e] = job[e]
      /\ job[d].st = "active"
  BY <1>1, LanesFinite DEF Shape, OwnerWorks
<1>3. /\ again' \in [Deliveries -> Nat] /\ again'[d] = again[d] + 1
      /\ \A e \in Deliveries \ {d} : again'[e] = again[e]
  BY <1>1, AgainGrows
<1>4. Shape'
  BY <1>1, <1>3 DEF Shape
<1>5. OwnerWorks'
  BY <1>1, <1>2 DEF OwnerWorks
<1>6. ASSUME NEW e \in Deliveries PROVE Accounted(e)'
  <2>1. /\ accepts'[e] = accepts[e] /\ accepts[e] \in Nat /\ again[e] \in Nat /\ Accounted(e)
    BY <1>1 DEF IInv, Shape
  <2>2. CASE e # d
    <3>1. Astray(e)' \subseteq Astray(e) /\ (Pending(e)' <=> Pending(e))
      BY <1>1, <1>2, <2>2 DEF Astray, Pending
    <3>2. Cardinality(Astray(e)') <= Cardinality(Astray(e))
      BY <3>1, FewerAstray
    <3>3. QED
      BY <1>3, <2>1, <2>2, <3>1, <3>2, AstrayFinite, AstrayFiniteNext DEF Accounted, Owed
  <2>3. CASE e = d /\ run[l].step = "posting"
    <3>1. Astray(d)' \subseteq Astray(d) \cup {l} /\ Pending(d)
      BY <1>1, <1>2, <2>3 DEF Astray, Pending
    <3>2. Cardinality(Astray(d)') <= Cardinality(Astray(d)) + 1
      <4>1. l \notin Astray(d)
        BY DEF Astray
      <4>2. /\ IsFiniteSet(Astray(d) \cup {l})
            /\ Cardinality(Astray(d) \cup {l}) = Cardinality(Astray(d)) + 1
        BY <4>1, AstrayFinite, FS_AddElement
      <4>3. QED
        BY <3>1, <4>2, FS_Subset
    <3>3. QED
      BY <1>3, <2>1, <2>3, <3>1, <3>2, AstrayFinite, AstrayFiniteNext DEF Accounted, Owed
  <2>4. CASE e = d /\ run[l].step # "posting"
    <3>1. Astray(d)' \subseteq Astray(d)
      BY <1>1, <1>2, <2>4 DEF Astray
    <3>2. Cardinality(Astray(d)') <= Cardinality(Astray(d))
      BY <3>1, FewerAstray
    <3>3. QED
      BY <1>3, <2>1, <2>4, <3>2, AstrayFinite, AstrayFiniteNext DEF Accounted, Owed
  <2>5. QED
    BY <2>2, <2>3, <2>4
<1>7. QED
  BY <1>4, <1>5, <1>6 DEF IInv

\* A crash leaves no lane, and is a reason to run every locked job again.
LEMMA CrashKeeps ==
  ASSUME IInv, Crash
  PROVE  IInv'
<1>1. /\ UNCHANGED accepts /\ Shape /\ OwnerWorks /\ run' = [l \in Lanes |-> Idle]
      /\ job' = [d \in Deliveries |-> [job[d] EXCEPT !.owner = Nobody]] /\ Again(Held)
  BY DEF Crash, IInv
<1>2. /\ again' \in [Deliveries -> Nat]
      /\ \A d \in Deliveries : again'[d] >= again[d]
      /\ \A d \in Held : again'[d] = again[d] + 1
  BY <1>1, AgainGrows DEF Held
<1>3. \A d \in Deliveries : job'[d].owner = Nobody /\ job'[d].st = job[d].st
  BY <1>1 DEF Shape
<1>4. Idle \in Works /\ Idle.step = "off"
  BY DEF Idle, Works
<1>5. Shape'
  BY <1>1, <1>2, <1>4 DEF Shape
<1>6. OwnerWorks'
  BY <1>3 DEF OwnerWorks
<1>7. ASSUME NEW d \in Deliveries PROVE Accounted(d)'
  <2>1. /\ accepts'[d] = accepts[d] /\ accepts[d] \in Nat /\ again[d] \in Nat
        /\ again'[d] \in Nat /\ again'[d] >= again[d] /\ Accounted(d)
    BY <1>1, <1>2 DEF IInv, Shape
  <2>2. Cardinality(Astray(d)') <= Cardinality(Astray(d))
    <3>1. Astray(d)' \subseteq Astray(d)
      BY <1>1, <1>4 DEF Astray
    <3>2. QED
      BY <3>1, FewerAstray
  <2>3. Pending(d)' => Pending(d) \/ again'[d] = again[d] + 1
    BY <1>2, <1>3 DEF Pending, Held
  <2>4. QED
    BY <2>1, <2>2, <2>3, AstrayFinite, AstrayFiniteNext DEF Accounted, Owed
<1>8. QED
  BY <1>5, <1>6, <1>7 DEF IInv

-----------------------------------------------------------------------------
(* Theorem.                                                                *)

LEMMA IInvInit == Init => IInv
<1> SUFFICES ASSUME Init PROVE IInv
  OBVIOUS
<1>1. Shape
  BY DEF Init, Shape, NoJob, JobStates, Idle, Works
<1>2. OwnerWorks
  BY DEF Init, OwnerWorks, NoJob
<1>3. ASSUME NEW d \in Deliveries PROVE Accounted(d)
  <2>1. Astray(d) = {}
    BY DEF Init, Astray, Idle
  <2>2. accepts[d] = 0 /\ again[d] = 0 /\ Cardinality(Astray(d)) = 0
    BY <2>1, FS_EmptySet DEF Init
  <2>3. QED
    BY <2>2 DEF Accounted, Owed
<1>4. QED
  BY <1>1, <1>2, <1>3 DEF IInv

LEMMA IInvStep == IInv /\ [Next]_vars => IInv'
<1> SUFFICES ASSUME IInv, [Next]_vars PROVE IInv'
  OBVIOUS
<1>1. ASSUME NEW d \in Deliveries, Create(d) \/ EnqueueFails(d) PROVE IInv'
  BY <1>1, StillKeeps DEF Create, EnqueueFails, history
<1>2. ASSUME NEW on \in BOOLEAN, Toggle(on) PROVE IInv'
  BY <1>2, StillKeeps DEF Toggle
<1>3. CASE SweepSelect \/ UNCHANGED vars
  BY <1>3, StillKeeps DEF SweepSelect, history, vars
<1>4. ASSUME NEW l \in Lanes, LaneStep(l) PROVE IInv'
  BY <1>4, PostKeeps, LaneKeeps, FinishKeeps DEF LaneStep
<1>5. QED
  BY <1>1, <1>2, <1>3, <1>4, PickupKeeps, LaneKeeps, JobStepKeeps, ExpiryKeeps, CrashKeeps
  DEF Next

\* Whatever crashes, stalls, loses its lock or is swept up again, the partner takes a
\* delivery at most once more than there were reasons to run it again.
THEOREM RepostsExcused == Spec => []NoRepost
<1>1. IInv => NoRepost
  <2> SUFFICES ASSUME IInv, NEW d \in Deliveries PROVE accepts[d] <= 1 + again[d]
    BY DEF NoRepost
  <2>1. accepts[d] \in Nat /\ again[d] \in Nat /\ Owed(d) \in Nat /\ Accounted(d)
    BY DEF IInv, Shape, Owed
  <2>2. QED
    BY <2>1, AstrayFinite DEF Accounted
<1>2. QED
  BY IInvInit, IInvStep, <1>1, PTL DEF Spec
=============================================================================
