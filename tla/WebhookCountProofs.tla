-------------------------- MODULE WebhookCountProofs --------------------------
(***************************************************************************)
(* The breaker counts deliveries and not attempts, and every variable keeps *)
(* its type, for any number of deliveries, lanes, attempts, crashes, lost   *)
(* locks and toggles.  As with the POSTs of WebhookProofs, each future move *)
(* of the counter is accounted for in advance; what it has moved already is *)
(* told apart into deliveries by a function that exists but is not stored.  *)
(***************************************************************************)
EXTENDS WebhookProofs

Late == {"row", "bump", "trip"}

\* A job that is not settled has an attempt left, its last attempt is the one that
\* fails for good, and only a final failure goes on to the counter.
Attempts ==
  \A d \in Deliveries :
    /\ job[d].stalls <= MaxStalls /\ job[d].tries <= MaxAttempts
    /\ job[d].st \notin Terminal => job[d].tries < MaxAttempts
    /\ LET l == job[d].owner
       IN  l # Nobody /\ run[l].step \notin Ends => run[l].attempt = job[d].tries + 1

Finality ==
  \A l \in Lanes :
    run[l].step \in Late =>
      /\ run[l].final /\ run[l].end = "thrown" => run[l].attempt >= MaxAttempts
      /\ run[l].step # "row" => run[l].final

Ladder == Attempts /\ Finality

\* Steps that may still lead to the counter.
Bumping == {"posting", "taken", "row", "bump"}

\* Lanes that may count a failure of d although they lost the lock of its job.
Loose(d) ==
  {l \in Lanes : run[l].step \in Bumping /\ run[l].d = d /\ job[d].owner # l}

\* A run that is past the counter, on a job that will not be run again.
Spent(l, d) ==
  \/ run[l].step \in {"trip", "returned"}
  \/ run[l].step = "thrown" /\ job[d].tries + 1 >= MaxAttempts

\* The job of d may still lead to a count.
MayCount(d) ==
  \/ job[d].st \in {"none", "waiting", "delayed"}
  \/ job[d].st = "active" /\ (job[d].owner # Nobody => ~Spent(job[d].owner, d))

ToCount(d) == IF MayCount(d) THEN 1 ELSE 0

Left(d) == ToCount(d) + Cardinality(Loose(d))

\* b[d] of the counter's moves since it was last cleared are due to d.
Marks(b) == {c \in Deliveries \X Nat : c[2] < b[c[1]]}

Tells(b) ==
  /\ IsFiniteSet(Marks(b)) /\ failures = Cardinality(Marks(b))
  /\ \A d \in Deliveries : (b[d] > 0 => d \in failed) /\ b[d] + Left(d) <= 1 + again[d]

Counted == \E b \in [Deliveries -> Nat] : Tells(b)

Plain ==
  /\ enabled \in BOOLEAN /\ failures \in Nat
  /\ row \in [Deliveries -> [made : BOOLEAN, tried : BOOLEAN,
                             delivered : BOOLEAN, failed : BOOLEAN]]
  /\ toEnqueue \subseteq Deliveries
  /\ sweep \in [Deliveries -> {"no", "selected", "checked"}]
  /\ failed \subseteq Deliveries /\ IsFiniteSet(failed)

Busy == {l \in Lanes : run[l].step # "off"}
Capped == slots = Cardinality(Busy) /\ slots <= PerTeam

CInv == IInv /\ Ladder /\ Counted /\ Plain /\ Capped

-----------------------------------------------------------------------------
(* Steps of a lane.                                                        *)

JobFunction(l) ==
  \/ Undecryptable(l) \/ NotTaken(l) \/ AnswerLost(l) \/ RecordOk(l) \/ RecordSkip(l)
  \/ RecordFailure(l) \/ Bump(l) \/ Trip(l) \/ Blip(l) \/ Post(l)

\* What every step of the job function has in common: the lane keeps its delivery and
\* its attempt, and goes only forward.
Forward(l) ==
  /\ run[l].step \notin Ends \cup {"off"} /\ run[l].d \in Deliveries
  /\ run'[l].d = run[l].d /\ run'[l].step \notin {"off", "posting"}
  /\ \A m \in Lanes \ {l} : run'[m] = run[m]
  /\ run'[l].step \notin Ends => run'[l].attempt = run[l].attempt
  /\ run'[l].step \in Late =>
       /\ run'[l].final /\ run'[l].end = "thrown" => run'[l].attempt >= MaxAttempts
       /\ run'[l].step # "row" => run'[l].final
  /\ run'[l].step \in Bumping => run[l].step \in Bumping
  /\ run[l].step = "trip" => \/ run'[l].step = "returned"
                             \/ run'[l].step = "thrown" /\ run[l].end = "thrown"
                             \/ again'[run[l].d] >= again[run[l].d] + 1

LEMMA LaneForward ==
  ASSUME Shape, Finality, NEW l \in Lanes, JobFunction(l)
  PROVE  /\ Forward(l) /\ UNCHANGED <<job, slots>>
         /\ again' \in [Deliveries -> Nat] /\ \A d \in Deliveries : again'[d] >= again[d]
<1> DEFINE r == run[l]
           early == [step : {"posting", "noop", "sealed", "taken"}, d : Deliveries,
                     attempt : Nat, disabledTest : BOOLEAN]
           late == [step : Late, d : Deliveries, attempt : Nat, final : BOOLEAN, end : Ends]
<1>0. /\ UNCHANGED <<job, slots>>
      /\ r.step \in {"posting", "noop", "sealed", "taken", "row", "bump", "trip"}
      /\ run \in [Lanes -> Works]
  BY DEF JobFunction, Undecryptable, NotTaken, AnswerLost, RecordOk, RecordSkip, RecordFailure,
         Bump,
     Trip, Blip, Post, At, Shape
<1>1. /\ r.d \in Deliveries
      /\ r.step \in {"posting", "noop", "sealed", "taken"} => r \in early
      /\ r.step \in Late => r \in late
  BY <1>0, LaneWork DEF Late
<1>2. again' \in [Deliveries -> Nat] /\ \A d \in Deliveries : again'[d] >= again[d]
  <2>1. UNCHANGED again \/ \E S \in SUBSET Deliveries : Again(S)
    BY <1>1 DEF JobFunction, Undecryptable, NotTaken, AnswerLost, RecordOk, RecordSkip,
                RecordFailure,
       Bump, Trip, Blip, Post, history
  <2>2. QED
    BY <2>1, AgainGrows DEF Shape
<1>3. CASE Undecryptable(l) \/ Post(l)
  <2>1. PICK s \in {"sealed", "taken"} : run' = [run EXCEPT ![l] = [r EXCEPT !.step = s]]
    BY <1>3 DEF Undecryptable, Post
  <2>2. r \in early /\ r.step = "posting"
    BY <1>1, <1>3 DEF Undecryptable, Post, At
  <2>3. /\ run'[l] = [r EXCEPT !.step = s] /\ \A m \in Lanes \ {l} : run'[m] = run[m]
        /\ run'[l].d = r.d /\ run'[l].attempt = r.attempt /\ run'[l].step = s
    BY <1>0, <2>1, <2>2
  <2>4. QED
    BY <1>0, <1>1, <1>2, <2>2, <2>3 DEF Forward, Ends, Late, Bumping
<1>4. CASE NotTaken(l) \/ AnswerLost(l)
  <2>1. r \in early /\ r.step \in {"posting", "taken"}
    BY <1>1, <1>4 DEF NotTaken, AnswerLost, At
  <2>2. LastAttempt(r) \in BOOLEAN /\ (LastAttempt(r) => r.attempt >= MaxAttempts)
    BY <2>1, ConstantsAssumption DEF LastAttempt
  <2>3. PICK final \in BOOLEAN, end \in Ends :
          /\ run' = [run EXCEPT ![l] = Failing(r, final, end)]
          /\ final /\ end = "thrown" => r.attempt >= MaxAttempts
    <3>1. CASE NotTaken(l)
      <4>1. PICK blocked \in BOOLEAN :
              run' = [run EXCEPT ![l] = Failing(r, blocked \/ LastAttempt(r),
                                                IF blocked THEN "returned" ELSE "thrown")]
        BY <3>1 DEF NotTaken
      <4>2. CASE blocked
        <5>1. run' = [run EXCEPT ![l] = Failing(r, TRUE, "returned")]
          BY <4>1, <4>2
        <5>2. QED
          BY <5>1 DEF Ends
      <4>3. CASE ~blocked
        <5>1. blocked = FALSE
          BY <4>3
        <5>2. run' = [run EXCEPT ![l] = Failing(r, LastAttempt(r), "thrown")]
          BY <4>1, <5>1, <2>2
        <5>3. QED
          BY <5>2, <2>2 DEF Ends
      <4>4. QED
        BY <4>2, <4>3
    <3>2. CASE AnswerLost(l)
      <4>1. run' = [run EXCEPT ![l] = Failing(r, LastAttempt(r), "thrown")]
        BY <3>2 DEF AnswerLost
      <4>2. QED
        BY <4>1, <2>2 DEF Ends
    <3>3. QED
      BY <1>4, <3>1, <3>2
  <2>4. /\ run'[l] = Failing(r, final, end) /\ \A m \in Lanes \ {l} : run'[m] = run[m]
    BY <1>0, <2>3
  <2>5. /\ run'[l].d = r.d /\ run'[l].attempt = r.attempt /\ run'[l].step = "row"
        /\ run'[l].final = final /\ run'[l].end = end
    BY <2>4 DEF Failing
  <2>6. QED
    BY <1>0, <1>1, <1>2, <2>1, <2>3, <2>4, <2>5 DEF Forward, Ends, Late, Bumping
<1>5. CASE RecordOk(l) \/ RecordSkip(l)
  <2>1. r.step \in {"taken", "noop", "sealed"}
        /\ \E end \in Ends : run' = [run EXCEPT ![l] = Over(r, end)]
    BY <1>5 DEF RecordOk, RecordSkip, Ends, At
  <2>2. PICK end \in Ends : run' = [run EXCEPT ![l] = Over(r, end)]
    BY <2>1
  <2>3. run'[l] = Over(r, end) /\ \A m \in Lanes \ {l} : run'[m] = run[m]
    BY <1>0, <2>2
  <2>4. run'[l].d = r.d /\ run'[l].step = end
    BY <2>3 DEF Over
  <2>5. QED
    BY <1>0, <1>1, <1>2, <2>1, <2>3, <2>4 DEF Forward, Ends, Late, Bumping
<1>6. CASE RecordFailure(l) \/ Bump(l) \/ Trip(l)
  <2>1. r \in late
    BY <1>1, <1>6 DEF RecordFailure, Bump, Trip, At, Late
  <2>2. \/ /\ run' = [run EXCEPT ![l] = [r EXCEPT !.step = "bump"]]
           /\ r.step = "row" /\ r.final
        \/ run' = [run EXCEPT ![l] = [r EXCEPT !.step = "trip"]] /\ r.step = "bump"
        \/ run' = [run EXCEPT ![l] = Over(r, r.end)]
    BY <1>6 DEF RecordFailure, Bump, Trip, At
  <2>3. ASSUME NEW s \in {"bump", "trip"}, run' = [run EXCEPT ![l] = [r EXCEPT !.step = s]],
               r.step = "row" => s = "bump" /\ r.final, r.step \in {"row", "bump"}
        PROVE  Forward(l)
    <3>1. /\ run'[l] = [r EXCEPT !.step = s] /\ \A m \in Lanes \ {l} : run'[m] = run[m]
          /\ run'[l].d = r.d /\ run'[l].attempt = r.attempt /\ run'[l].step = s
          /\ run'[l].final = r.final /\ run'[l].end = r.end
      BY <1>0, <2>1, <2>3
    <3>2. /\ r.final /\ r.end = "thrown" => r.attempt >= MaxAttempts
          /\ r.step # "row" => r.final
      BY <2>3 DEF Finality, Late
    <3>3. QED
      BY <1>1, <2>3, <3>1, <3>2 DEF Forward, Ends, Late, Bumping
  <2>4. CASE run' = [run EXCEPT ![l] = Over(r, r.end)]
    <3>1. run'[l] = Over(r, r.end) /\ \A m \in Lanes \ {l} : run'[m] = run[m]
      BY <1>0, <2>4
    <3>2. run'[l].d = r.d /\ run'[l].step = r.end /\ r.end \in Ends
      BY <2>1, <3>1 DEF Over
    <3>3. r.step = "trip" => run'[l].step = "returned" \/ (run'[l].step = "thrown" /\ r.end = "thrown")
      BY <3>2 DEF Ends
    <3>4. run'[l].step \notin {"off", "posting"} \cup Late \cup Bumping /\ run'[l].step \in Ends
      BY <3>2 DEF Ends, Late, Bumping
    <3>5. r.step \notin Ends \cup {"off"} /\ r.d \in Deliveries
      BY <1>0, <1>1 DEF Ends
    <3>6. QED
      BY <1>0, <1>2, <3>1, <3>2, <3>3, <3>4, <3>5 DEF Forward
  <2>5. QED
    BY <1>0, <1>2, <2>2, <2>3, <2>4
<1>7. CASE Blip(l)
  <2>1. run' = [run EXCEPT ![l] = Over(r, "thrown")]
    BY <1>7 DEF Blip
  <2>2. run'[l] = Over(r, "thrown") /\ \A m \in Lanes \ {l} : run'[m] = run[m]
    BY <1>0, <2>1
  <2>3. run'[l].d = r.d /\ run'[l].step = "thrown"
    BY <2>2 DEF Over
  <2>4. ASSUME r.step = "trip", r.end # "thrown" PROVE again'[r.d] >= again[r.d] + 1
    <3>1. r.end = "returned"
      BY <1>1, <2>4 DEF Late, Ends
    <3>2. Again({r.d})
      BY <1>7, <2>4, <3>1 DEF Blip, At
    <3>3. again'[r.d] = again[r.d] + 1
      BY <1>1, <3>2, AgainGrows
    <3>4. QED
      BY <1>1, <3>3 DEF Shape
  <2>5. QED
    BY <1>0, <1>1, <1>2, <2>2, <2>3, <2>4 DEF Forward, Ends, Late, Bumping
<1>8. QED
  BY <1>3, <1>4, <1>5, <1>6, <1>7 DEF JobFunction

LEMMA LaneLadder ==
  ASSUME IInv, Ladder, NEW l \in Lanes, JobFunction(l)
  PROVE  Ladder'
<1>1. Forward(l) /\ UNCHANGED job
  BY LaneForward DEF IInv, Ladder
<1>2. Attempts'
  BY <1>1 DEF Attempts, Ladder, Forward, IInv, Shape, Nobody
<1>3. Finality'
  BY <1>1 DEF Finality, Ladder, Forward
<1>4. QED
  BY <1>2, <1>3 DEF Ladder

-----------------------------------------------------------------------------
(* What is left to count.                                                  *)

LEMMA LooseFinite ==
  ASSUME NEW d \in Deliveries
  PROVE  IsFiniteSet(Loose(d)) /\ Cardinality(Loose(d)) \in Nat
<1>1. Loose(d) \subseteq Lanes
  BY DEF Loose
<1>2. QED
  BY <1>1, LanesFinite, FS_Subset, FS_CardinalityType

LEMMA LooseFiniteNext ==
  ASSUME NEW d \in Deliveries
  PROVE  IsFiniteSet(Loose(d)') /\ Cardinality(Loose(d)') \in Nat
<1>1. Loose(d)' \subseteq Lanes
  BY DEF Loose
<1>2. QED
  BY <1>1, LanesFinite, FS_Subset, FS_CardinalityType

\* No more lanes loose, and a job owes a count again only for a reason.
LEMMA LeftFalls ==
  ASSUME Shape, NEW d \in Deliveries, Loose(d)' \subseteq Loose(d),
         again' \in [Deliveries -> Nat], again'[d] >= again[d],
         MayCount(d)' => MayCount(d) \/ again'[d] >= again[d] + 1
  PROVE  Left(d)' <= Left(d) + (again'[d] - again[d])
<1>1. Cardinality(Loose(d)') <= Cardinality(Loose(d))
  BY LooseFinite, FS_Subset
<1>2. again[d] \in Nat /\ again'[d] \in Nat
  BY DEF Shape
<1>3. ToCount(d) \in Int /\ ToCount(d)' \in Int
      /\ ToCount(d)' <= ToCount(d) + (again'[d] - again[d])
  BY <1>2 DEF ToCount
<1>4. QED
  BY <1>1, <1>2, <1>3, LooseFinite, LooseFiniteNext DEF Left

LEMMA LaneLeft ==
  ASSUME IInv, Ladder, NEW l \in Lanes, JobFunction(l), NEW d \in Deliveries
  PROVE  Left(d)' <= Left(d) + (again'[d] - again[d])
<1>1. /\ Forward(l) /\ UNCHANGED job /\ Shape
      /\ again' \in [Deliveries -> Nat] /\ again'[d] >= again[d]
  BY LaneForward DEF IInv, Ladder
<1>2. Loose(d)' \subseteq Loose(d)
  BY <1>1 DEF Loose, Forward
<1>3. MayCount(d)' => MayCount(d) \/ again'[d] >= again[d] + 1
  <2>1. CASE job[d].owner = l
    <3>1. run[l].d = d /\ l # Nobody
      BY <2>1, LanesFinite DEF IInv, OwnerWorks
    <3>2. ASSUME Spent(l, d) PROVE Spent(l, d)' \/ again'[d] >= again[d] + 1
      <4>1. run[l].step = "trip"
        BY <1>1, <3>2 DEF Spent, Forward, Ends
      <4>2. run[l].end = "thrown" => job[d].tries + 1 >= MaxAttempts
        BY <2>1, <3>1, <4>1 DEF Ladder, Attempts, Finality, Late, Ends
      <4>3. QED
        BY <1>1, <3>1, <4>1, <4>2 DEF Spent, Forward
    <3>3. QED
      BY <1>1, <2>1, <3>2 DEF MayCount
  <2>2. CASE job[d].owner # l
    BY <1>1, <2>2 DEF MayCount, Spent, Forward, Shape, Nobody
  <2>3. QED
    BY <2>1, <2>2
<1>4. QED
  BY <1>1, <1>2, <1>3, LeftFalls

\* A count uses up what was left for it.
LEMMA BumpLeft ==
  ASSUME IInv, Ladder, NEW l \in Lanes, Bump(l), NEW d \in Deliveries, run[l].d = d
  PROVE  Left(d)' <= Left(d) - 1
<1>1. Forward(l) /\ UNCHANGED job /\ Shape
  BY LaneForward DEF IInv, Ladder, JobFunction, Forward
<1>2. run[l].step = "bump" /\ run'[l].step \in {"trip", run[l].end} /\ run[l].end \in Ends
  <2>1. /\ run[l].step = "bump" /\ run \in [Lanes -> Works]
        /\ \/ run' = [run EXCEPT ![l] = [run[l] EXCEPT !.step = "trip"]]
           \/ run' = [run EXCEPT ![l] = Over(run[l], run[l].end)]
    BY <1>1 DEF Bump, At, Shape
  <2>2. run[l] \in [step : Late, d : Deliveries, attempt : Nat, final : BOOLEAN, end : Ends]
    BY <1>1, <2>1, LaneWork DEF Late
  <2>3. CASE run' = [run EXCEPT ![l] = [run[l] EXCEPT !.step = "trip"]]
    <3>1. run'[l] = [run[l] EXCEPT !.step = "trip"]
      BY <2>1, <2>3
    <3>2. QED
      BY <2>1, <2>2, <3>1
  <2>4. CASE run' = [run EXCEPT ![l] = Over(run[l], run[l].end)]
    <3>1. run'[l] = Over(run[l], run[l].end)
      BY <2>1, <2>4
    <3>2. QED
      BY <2>1, <2>2, <3>1 DEF Over
  <2>5. QED
    BY <2>1, <2>3, <2>4
<1>3. CASE job[d].owner = l
  <2>1. job[d].st = "active" /\ l # Nobody
    BY <1>1, <1>3, LanesFinite DEF IInv, OwnerWorks
  <2>2. ~Spent(l, d) /\ Spent(l, d)'
    <3>1. run[l].end = "thrown" => job[d].tries + 1 >= MaxAttempts
      BY <1>1, <1>2, <1>3, <2>1 DEF Ladder, Attempts, Finality, Late, Ends
    <3>2. QED
      BY <1>1, <1>2, <3>1 DEF Spent, Ends
  <2>3. ToCount(d) = 1 /\ ToCount(d)' = 0
    BY <1>1, <1>3, <2>1, <2>2 DEF ToCount, MayCount
  <2>4. Loose(d)' \subseteq Loose(d)
    BY <1>1 DEF Loose, Forward
  <2>5. Cardinality(Loose(d)') <= Cardinality(Loose(d))
    BY <1>1, <2>4, LooseFinite, FS_Subset
  <2>6. QED
    BY <1>1, <2>3, <2>5, LooseFinite, LooseFiniteNext DEF Left
<1>4. CASE job[d].owner # l
  <2>1. l \in Loose(d) /\ Loose(d)' \subseteq Loose(d) \ {l}
    BY <1>1, <1>2, <1>4 DEF Loose, Bumping, Forward, Ends
  <2>2. Cardinality(Loose(d)') <= Cardinality(Loose(d)) - 1
    <3>1. /\ IsFiniteSet(Loose(d) \ {l})
          /\ Cardinality(Loose(d) \ {l}) = Cardinality(Loose(d)) - 1
      BY <1>1, <2>1, LooseFinite, FS_RemoveElement
    <3>2. QED
      BY <2>1, <3>1, FS_Subset
  <2>3. ToCount(d)' = ToCount(d) /\ ToCount(d) \in Int
    BY <1>1, <1>4 DEF ToCount, MayCount, Spent, Forward, Shape, Nobody
  <2>4. QED
    BY <1>1, <2>2, <2>3, LooseFinite, LooseFiniteNext DEF Left
<1>5. QED
  BY <1>3, <1>4

-----------------------------------------------------------------------------
(* The other steps: none of them leaves more to count, but for a reason.   *)

NoMoreLeft == \A e \in Deliveries : Left(e)' <= Left(e) + (again'[e] - again[e])

LEMMA PickupLeaves ==
  ASSUME IInv, Ladder, NEW l \in Lanes, NEW d \in Deliveries, Pickup(l, d)
  PROVE  Ladder' /\ NoMoreLeft
<1>1. /\ run[l].step = "off" /\ job[d].st = "waiting" /\ job[d].owner = Nobody
      /\ again' = again /\ Shape /\ OwnerWorks
      /\ job' = [job EXCEPT ![d].st = "active", ![d].owner = l]
  BY DEF Pickup, Free, IInv, OwnerWorks, history
<1>2. /\ run'[l].step \in {"posting", "noop"} /\ run'[l].d = d
      /\ run'[l].attempt = job[d].tries + 1
      /\ \A m \in Lanes \ {l} : run'[m] = run[m]
  <2> DEFINE w == [step |-> IF enabled \/ d \in Tests THEN "posting" ELSE "noop",
                   d |-> d, attempt |-> job[d].tries + 1,
                   disabledTest |-> d \in Tests /\ ~enabled]
  <2>1. run' = [run EXCEPT ![l] = w]
    BY DEF Pickup
  <2>2. w.step \in {"posting", "noop"} /\ w.d = d /\ w.attempt = job[d].tries + 1
    OBVIOUS
  <2> HIDE DEF w
  <2>3. QED
    BY <1>1, <2>1, <2>2 DEF Shape
<1>3. /\ job'[d].st = "active" /\ job'[d].owner = l
      /\ job'[d].tries = job[d].tries /\ job'[d].stalls = job[d].stalls
      /\ \A e \in Deliveries \ {d} : job'[e] = job[e]
  BY <1>1 DEF Shape
<1>4. \A e \in Deliveries : job[e].owner # l
  BY <1>1, LanesFinite DEF OwnerWorks
<1>5. Attempts'
  BY <1>1, <1>2, <1>3, <1>4, LanesFinite DEF Ladder, Attempts, Terminal, Shape
<1>6. Finality'
  BY <1>2 DEF Ladder, Finality, Late
<1>7. ASSUME NEW e \in Deliveries PROVE Left(e)' <= Left(e) + (again'[e] - again[e])
  <2>1. Loose(e)' \subseteq Loose(e)
    BY <1>1, <1>2, <1>3, LanesFinite DEF Loose
  <2>2. MayCount(e)' => MayCount(e)
    <3>1. CASE e = d
      BY <1>1, <3>1 DEF MayCount
    <3>2. CASE e # d
      BY <1>1, <1>2, <1>3, <1>4, <3>2 DEF MayCount, Spent, Shape, Nobody
    <3>3. QED
      BY <3>1, <3>2
  <2>3. again' \in [Deliveries -> Nat] /\ again'[e] >= again[e]
    BY <1>1 DEF Shape
  <2>4. QED
    BY <1>1, <2>1, <2>2, <2>3, LeftFalls
<1>8. QED
  BY <1>5, <1>6, <1>7 DEF Ladder, NoMoreLeft

LEMMA FinishLeaves ==
  ASSUME IInv, Ladder, NEW l \in Lanes, Finish(l)
  PROVE  Ladder' /\ NoMoreLeft
<1> DEFINE d == run[l].d
           end == run[l].step
<1>1. /\ end \in Ends /\ d \in Deliveries /\ Shape /\ OwnerWorks /\ again' = again
      /\ run' = [run EXCEPT ![l] = Idle]
      /\ job' = IF job[d].owner = l THEN [job EXCEPT ![d] = Settled(@, end)] ELSE job
  BY LaneWork DEF Finish, IInv, history, Ends
<1>2. /\ run'[l].step = "off" /\ \A m \in Lanes \ {l} : run'[m] = run[m]
  BY <1>1 DEF Shape, Idle
<1>3. /\ \A e \in Deliveries : job[e].owner # l => job'[e] = job[e]
      /\ \A e \in Deliveries : job[e].owner = l =>
           e = d /\ job[e].st = "active" /\ job'[e] = Settled(job[e], end)
  BY <1>1, LanesFinite DEF Shape, OwnerWorks
<1>4. ASSUME NEW e \in Deliveries, job[e].owner = l
      PROVE  /\ job'[e].owner = Nobody /\ job'[e].stalls = job[e].stalls
             /\ job'[e].tries \in {job[e].tries, job[e].tries + 1}
             /\ job'[e].st \in {"delayed"} \cup Terminal
             /\ job'[e].st = "delayed" => end = "thrown" /\ job[e].tries + 1 < MaxAttempts
  <2> DEFINE n == IF end = "thrown" THEN job[e].tries + 1 ELSE job[e].tries
             st == CASE end = "returned" -> "completed"
                     [] end = "thrown" /\ job[e].tries + 1 < MaxAttempts -> "delayed"
                     [] OTHER -> "failed"
  <2>1. job'[e] = [job[e] EXCEPT !.owner = Nobody, !.tries = n, !.st = st]
    BY <1>3, <1>4 DEF Settled
  <2>2. /\ n \in {job[e].tries, job[e].tries + 1} /\ st \in {"delayed"} \cup Terminal
        /\ (st = "delayed" => end = "thrown" /\ job[e].tries + 1 < MaxAttempts)
    BY <1>1 DEF Terminal, Ends
  <2>3. job[e] \in [st : JobStates, tries : Nat, stalls : Nat, owner : Lanes \cup {Nobody}]
    BY <1>1 DEF Shape
  <2> HIDE DEF n, st
  <2>4. QED
    BY <2>1, <2>2, <2>3
<1>5. Attempts'
  <2>1. ASSUME NEW e \in Deliveries, job[e].owner = l
        PROVE  /\ job'[e].stalls <= MaxStalls /\ job'[e].tries <= MaxAttempts
               /\ job'[e].st \notin Terminal => job'[e].tries < MaxAttempts
    <3>1. job[e].tries \in Nat /\ job[e].tries < MaxAttempts /\ job[e].stalls <= MaxStalls
          /\ MaxAttempts \in Nat
      BY <1>1, <1>3, <2>1, ConstantsAssumption DEF Ladder, Attempts, Shape, Terminal
    <3>2. QED
      BY <1>4, <2>1, <3>1
  <2>2. QED
    BY <1>1, <1>2, <1>3, <1>4, <2>1 DEF Ladder, Attempts, Shape, Nobody
<1>6. Finality'
  BY <1>2 DEF Ladder, Finality, Late
<1>7. ASSUME NEW e \in Deliveries PROVE Left(e)' <= Left(e) + (again'[e] - again[e])
  <2>1. Loose(e)' \subseteq Loose(e)
    BY <1>2, <1>3 DEF Loose, Bumping
  <2>2. MayCount(e)' => MayCount(e)
    <3>1. CASE job[e].owner = l
      <4>1. /\ job[e].st = "active" /\ job[e].tries \in Nat /\ MaxAttempts \in Nat
            /\ job'[e].st \in {"delayed"} \cup Terminal
            /\ job'[e].st = "delayed" => ~Spent(l, e)
        BY <1>1, <1>3, <1>4, <3>1, ConstantsAssumption DEF Spent, Shape
      <4>2. QED
        BY <3>1, <4>1 DEF MayCount, Terminal
    <3>2. CASE job[e].owner # l
      BY <1>1, <1>2, <1>3, <3>2 DEF MayCount, Spent, Shape, Nobody
    <3>3. QED
      BY <3>1, <3>2
  <2>3. again' \in [Deliveries -> Nat] /\ again'[e] >= again[e]
    BY <1>1 DEF Shape
  <2>4. QED
    BY <1>1, <2>1, <2>2, <2>3, LeftFalls
<1>8. QED
  BY <1>5, <1>6, <1>7 DEF Ladder, NoMoreLeft

\* A job without a lock changes.
LEMMA JobLeaves ==
  ASSUME IInv, Ladder, NEW d \in Deliveries, UNCHANGED run,
         \A e \in Deliveries \ {d} : job'[e] = job[e],
         job[d].owner = Nobody, job'[d].owner = Nobody,
         job'[d].stalls <= MaxStalls, job'[d].tries <= MaxAttempts,
         job'[d].st \notin Terminal => job'[d].tries < MaxAttempts,
         again' \in [Deliveries -> Nat], \A e \in Deliveries : again'[e] >= again[e],
         job'[d].st \notin Terminal =>
           \/ job[d].st \in {"none", "waiting", "delayed", "active"}
           \/ again'[d] >= again[d] + 1
  PROVE  Ladder' /\ NoMoreLeft
<1>1. Ladder'
  BY DEF Ladder, Attempts, Finality
<1>2. ASSUME NEW e \in Deliveries PROVE Left(e)' <= Left(e) + (again'[e] - again[e])
  <2>1. Loose(e)' \subseteq Loose(e)
    BY DEF Loose
  <2>2. MayCount(e)' => MayCount(e) \/ again'[e] >= again[e] + 1
    <3>1. CASE e = d
      BY <3>1 DEF MayCount, Terminal
    <3>2. CASE e # d
      BY <3>2 DEF MayCount, Spent
    <3>3. QED
      BY <3>1, <3>2
  <2>3. QED
    BY <2>1, <2>2, LeftFalls DEF IInv
<1>3. QED
  BY <1>1, <1>2 DEF NoMoreLeft

LEMMA StillLeaves ==
  ASSUME IInv, Ladder, UNCHANGED <<job, run, again>>
  PROVE  Ladder' /\ NoMoreLeft
<1>1. Ladder'
  BY DEF Ladder, Attempts, Finality
<1>2. ASSUME NEW e \in Deliveries PROVE Left(e)' <= Left(e) + (again'[e] - again[e])
  <2>1. Loose(e)' \subseteq Loose(e) /\ (MayCount(e)' => MayCount(e))
    BY DEF Loose, MayCount, Spent
  <2>2. again' \in [Deliveries -> Nat] /\ again'[e] >= again[e]
    BY DEF IInv, Shape
  <2>3. QED
    BY <2>1, <2>2, LeftFalls DEF IInv
<1>3. QED
  BY <1>1, <1>2 DEF NoMoreLeft

LEMMA JobStepLeaves ==
  ASSUME IInv, Ladder, NEW d \in Deliveries,
         \/ Enqueue(d) \/ SweepAdd(d) \/ Due(d) \/ (\E l \in Lanes : Defer(l, d))
         \/ Stalled(d) \/ SweepClear(d)
  PROVE  Ladder' /\ NoMoreLeft
<1>1. UNCHANGED run /\ Shape /\ {MaxAttempts, MaxStalls} \subseteq Nat /\ MaxAttempts > 0
  BY ConstantsAssumption DEF Enqueue, SweepAdd, Due, Defer, Stalled, SweepClear, history, IInv
<1>2. again' \in [Deliveries -> Nat] /\ \A e \in Deliveries : again'[e] >= again[e]
  <2>1. UNCHANGED again \/ Again({d})
    BY DEF Enqueue, SweepAdd, Due, Defer, Stalled, SweepClear, history
  <2>2. QED
    BY <1>1, <2>1, AgainGrows DEF Shape
<1>3. /\ job[d].tries \in Nat /\ job[d].stalls \in Nat
      /\ job[d].stalls <= MaxStalls /\ job[d].tries <= MaxAttempts
      /\ job[d].st \notin Terminal => job[d].tries < MaxAttempts
  BY DEF IInv, Shape, Ladder, Attempts
<1>4. CASE UNCHANGED job /\ UNCHANGED again
  BY <1>1, <1>4, StillLeaves
<1>5. ASSUME NEW j, job' = [job EXCEPT ![d] = j], job[d].st # "active", j \in {NewJob, NoJob},
             job[d].st = "none" \/ again'[d] >= again[d] + 1
      PROVE  Ladder' /\ NoMoreLeft
  <2>1. job[d].owner = Nobody
    BY <1>5, Unlocked
  <2>2. job'[d] = j /\ \A e \in Deliveries \ {d} : job'[e] = job[e]
    BY <1>1, <1>5 DEF Shape
  <2>3. /\ job'[d].owner = Nobody /\ job'[d].stalls = 0 /\ job'[d].tries = 0
    BY <1>5, <2>2 DEF NewJob, NoJob
  <2>4. QED
    BY <1>1, <1>2, <1>5, <2>1, <2>2, <2>3, JobLeaves
<1>6. CASE Enqueue(d) \/ SweepAdd(d)
  BY <1>4, <1>5, <1>6 DEF Enqueue, SweepAdd, Added, history
<1>7. CASE Due(d) \/ (\E l \in Lanes : Defer(l, d)) \/ Stalled(d)
  <2>1. job[d].owner = Nobody /\ job[d].st \in {"delayed", "waiting", "active"}
    BY <1>7, Unlocked DEF Due, Defer, Stalled
  <2>2. /\ \A e \in Deliveries \ {d} : job'[e] = job[e]
        /\ job'[d].owner = Nobody /\ job'[d].tries = job[d].tries
        /\ job'[d].stalls \in {job[d].stalls}
             \cup (IF job[d].stalls < MaxStalls THEN {job[d].stalls + 1} ELSE {})
    BY <1>1, <1>7, <2>1 DEF Due, Defer, Stalled, Shape
  <2>3. job'[d].stalls <= MaxStalls /\ job[d].tries < MaxAttempts
    BY <1>1, <1>3, <2>1, <2>2 DEF Terminal
  <2>4. QED
    BY <1>1, <1>2, <1>3, <2>1, <2>2, <2>3, JobLeaves
<1>8. CASE SweepClear(d)
  <2>1. CASE job[d].st \in Terminal
    <3>1. job' = [job EXCEPT ![d] = NoJob] /\ Again({d})
      BY <1>8, <2>1 DEF SweepClear
    <3>2. again'[d] >= again[d] + 1
      BY <1>1, <3>1, AgainGrows DEF Shape
    <3>3. QED
      BY <1>5, <2>1, <3>1, <3>2 DEF Terminal
  <2>2. CASE job[d].st \notin Terminal
    BY <1>4, <1>8, <2>2 DEF SweepClear
  <2>3. QED
    BY <2>1, <2>2
<1>9. QED
  BY <1>6, <1>7, <1>8

\* A lane that loses the lock may still count, and so may the job: one more, for the
\* reason that this loss is.
LEMMA ExpiryLeaves ==
  ASSUME IInv, Ladder, NEW d \in Deliveries, LockExpires(d)
  PROVE  Ladder' /\ NoMoreLeft
<1> DEFINE l == job[d].owner
<1>1. /\ l \in Lanes /\ run' = run /\ Shape /\ OwnerWorks
      /\ job' = [job EXCEPT ![d].owner = Nobody] /\ Again({d})
  BY DEF LockExpires, IInv, Shape, history
<1>2. /\ job'[d].owner = Nobody /\ job'[d].st = job[d].st
      /\ job'[d].tries = job[d].tries /\ job'[d].stalls = job[d].stalls
      /\ \A e \in Deliveries \ {d} : job'[e] = job[e]
      /\ job[d].st = "active"
  BY <1>1, LanesFinite DEF Shape, OwnerWorks
<1>3. /\ again' \in [Deliveries -> Nat] /\ again'[d] = again[d] + 1
      /\ \A e \in Deliveries \ {d} : again'[e] = again[e]
  BY <1>1, AgainGrows
<1>4. Ladder'
  BY <1>1, <1>2 DEF Ladder, Attempts, Finality
<1>5. ASSUME NEW e \in Deliveries PROVE Left(e)' <= Left(e) + (again'[e] - again[e])
  <2>1. again[e] \in Nat /\ again'[e] \in Nat /\ again'[e] >= again[e]
    BY <1>1, <1>3 DEF Shape
  <2>2. CASE e # d
    <3>1. Loose(e)' \subseteq Loose(e) /\ (MayCount(e)' => MayCount(e))
      BY <1>1, <1>2, <2>2 DEF Loose, MayCount, Spent
    <3>2. QED
      BY <1>1, <1>3, <2>1, <3>1, LeftFalls
  <2>3. CASE e = d /\ run[l].step \notin Bumping
    <3>1. Loose(d)' \subseteq Loose(d)
      BY <1>1, <1>2, <2>3 DEF Loose
    <3>2. again'[d] >= again[d] + 1
      BY <1>1, <1>3 DEF Shape
    <3>3. QED
      BY <1>1, <1>3, <2>1, <2>3, <3>1, <3>2, LeftFalls
  <2>4. CASE e = d /\ run[l].step \in Bumping
    <3>1. Loose(d)' \subseteq Loose(d) \cup {l}
      BY <1>1, <1>2 DEF Loose
    <3>2. Cardinality(Loose(d)') <= Cardinality(Loose(d)) + 1
      <4>1. l \notin Loose(d)
        BY DEF Loose
      <4>2. /\ IsFiniteSet(Loose(d) \cup {l})
            /\ Cardinality(Loose(d) \cup {l}) = Cardinality(Loose(d)) + 1
        BY <4>1, LooseFinite, FS_AddElement
      <4>3. QED
        BY <3>1, <4>2, FS_Subset
    <3>3. ToCount(d) = 1 /\ ToCount(d)' \in {0, 1}
      BY <1>1, <1>2, <2>4 DEF ToCount, MayCount, Spent, Bumping
    <3>4. QED
      BY <1>3, <2>1, <2>4, <3>2, <3>3, LooseFinite, LooseFiniteNext DEF Left
  <2>5. QED
    BY <2>2, <2>3, <2>4
<1>6. QED
  BY <1>4, <1>5 DEF NoMoreLeft

LEMMA CrashLeaves ==
  ASSUME IInv, Ladder, Crash
  PROVE  Ladder' /\ NoMoreLeft
<1>1. /\ Shape /\ run' = [l \in Lanes |-> Idle]
      /\ job' = [d \in Deliveries |-> [job[d] EXCEPT !.owner = Nobody]] /\ Again(Held)
  BY DEF Crash, IInv
<1>2. /\ again' \in [Deliveries -> Nat]
      /\ \A d \in Deliveries : again'[d] >= again[d]
      /\ \A d \in Held : again'[d] >= again[d] + 1
  <2>1. \A d \in Held : again'[d] = again[d] + 1 /\ again[d] \in Nat
    BY <1>1, AgainGrows DEF Held, Shape
  <2>2. QED
    BY <1>1, <2>1, AgainGrows DEF Held
<1>3. \A d \in Deliveries : /\ job'[d].owner = Nobody /\ job'[d].st = job[d].st
                            /\ job'[d].tries = job[d].tries /\ job'[d].stalls = job[d].stalls
  BY <1>1 DEF Shape
<1>4. \A l \in Lanes : run'[l].step = "off"
  BY <1>1 DEF Idle
<1>5. Ladder'
  BY <1>3, <1>4 DEF Ladder, Attempts, Finality, Late
<1>6. ASSUME NEW e \in Deliveries PROVE Left(e)' <= Left(e) + (again'[e] - again[e])
  <2>1. Loose(e)' \subseteq Loose(e)
    BY <1>4 DEF Loose, Bumping
  <2>2. MayCount(e)' => MayCount(e) \/ again'[e] >= again[e] + 1
    BY <1>2, <1>3 DEF MayCount, Held
  <2>3. QED
    BY <1>1, <1>2, <2>1, <2>2, LeftFalls
<1>7. QED
  BY <1>5, <1>6 DEF NoMoreLeft

-----------------------------------------------------------------------------
(* What was counted.                                                       *)

\* The counter stays, or is cleared.
LEMMA CountedKept ==
  ASSUME IInv, Counted, NoMoreLeft, again' \in [Deliveries -> Nat],
         \/ failures' = failures /\ failed' = failed
         \/ failures' = 0
  PROVE  Counted'
<1>1. PICK b \in [Deliveries -> Nat] : Tells(b)
  BY DEF Counted
<1>2. ASSUME NEW d \in Deliveries
      PROVE  /\ b[d] \in Nat /\ again[d] \in Nat /\ again'[d] \in Nat
             /\ Left(d) \in Int /\ Left(d)' \in Int
             /\ b[d] + Left(d)' <= 1 + again'[d]
  <2>1. b[d] \in Nat /\ again[d] \in Nat /\ again'[d] \in Nat
    BY DEF IInv, Shape
  <2>2. Left(d) \in Int /\ Left(d)' \in Int
    BY LooseFinite, LooseFiniteNext DEF Left, ToCount
  <2>3. QED
    BY <1>1, <2>1, <2>2 DEF Tells, NoMoreLeft
<1>3. CASE failures' = failures /\ failed' = failed
  <2>1. Tells(b)'
    BY <1>1, <1>2, <1>3 DEF Tells, Marks
  <2>2. QED
    BY <2>1 DEF Counted
<1>4. CASE failures' = 0
  <2> DEFINE z == [d \in Deliveries |-> 0]
  <2>1. z \in [Deliveries -> Nat] /\ \A d \in Deliveries : z[d] = 0
    OBVIOUS
  <2>2. Marks(z) = {}
    BY <2>1 DEF Marks
  <2>3. IsFiniteSet(Marks(z)) /\ Cardinality(Marks(z)) = 0
    BY <2>2, FS_EmptySet
  <2> HIDE DEF z
  <2>4. Tells(z)'
    BY <1>2, <1>4, <2>1, <2>3 DEF Tells
  <2>5. QED
    BY <2>1, <2>4 DEF Counted
<1>5. QED
  BY <1>3, <1>4

LEMMA BumpCounted ==
  ASSUME IInv, Ladder, Counted, NEW l \in Lanes, Bump(l)
  PROVE  Counted'
<1> DEFINE d == run[l].d
<1>1. PICK b \in [Deliveries -> Nat] : Tells(b)
  BY DEF Counted
<1>2. JobFunction(l) /\ again' = again /\ failures' = failures + 1 /\ failed' = failed \cup {d}
  BY DEF Bump, JobFunction
<1>3. PICK e \in Deliveries : e = d
  BY <1>2, LaneForward DEF IInv, Ladder, Forward
<1> DEFINE c == [b EXCEPT ![e] = @ + 1]
<1>4. /\ c \in [Deliveries -> Nat] /\ c[e] = b[e] + 1 /\ b[e] \in Nat
      /\ \A x \in Deliveries \ {e} : c[x] = b[x]
  OBVIOUS
<1> HIDE DEF c
<1>5. Marks(c) = Marks(b) \cup {<<e, b[e]>>} /\ <<e, b[e]>> \notin Marks(b)
  BY <1>4 DEF Marks
<1>6. /\ IsFiniteSet(Marks(c)) /\ Cardinality(Marks(c)) = failures + 1
  BY <1>1, <1>5, FS_AddElement DEF Tells
<1>7. ASSUME NEW x \in Deliveries PROVE c[x] + Left(x)' <= 1 + again'[x]
  <2>1. b[x] \in Nat /\ again[x] \in Nat /\ again'[x] = again[x]
    BY <1>2 DEF IInv, Shape
  <2>2. Left(x) \in Int /\ Left(x)' \in Int /\ b[x] + Left(x) <= 1 + again[x]
    BY <1>1, LooseFinite, LooseFiniteNext DEF Left, ToCount, Tells
  <2>3. CASE x = e
    <3>1. Left(x)' <= Left(x) - 1
      BY <1>3, <2>3, BumpLeft
    <3>2. QED
      BY <1>4, <2>1, <2>2, <2>3, <3>1
  <2>4. CASE x # e
    <3>1. Left(x)' <= Left(x) + (again'[x] - again[x])
      BY <1>2, LaneLeft
    <3>2. QED
      BY <1>4, <2>1, <2>2, <2>4, <3>1
  <2>5. QED
    BY <2>3, <2>4
<1>8. \A x \in Deliveries : c[x] > 0 => x \in failed'
  BY <1>1, <1>2, <1>3, <1>4 DEF Tells
<1>9. Tells(c)'
  BY <1>2, <1>6, <1>7, <1>8 DEF Tells, Marks
<1>10. QED
  BY <1>4, <1>9 DEF Counted

-----------------------------------------------------------------------------
(* The other variables, and the slots.                                     *)

LEMMA PlainKept ==
  ASSUME IInv, Plain, [Next]_vars
  PROVE  Plain'
<1>0. ASSUME NEW l \in Lanes, run[l].step # "off" PROVE run[l].d \in Deliveries
  BY <1>0, LaneWork DEF IInv
<1>1. CASE UNCHANGED vars
  BY <1>1 DEF Plain, vars, webhook, history
<1>2. ASSUME NEW d \in Deliveries,
             \/ Create(d) \/ Enqueue(d) \/ EnqueueFails(d) \/ Due(d)
             \/ LockExpires(d) \/ Stalled(d) \/ SweepClear(d) \/ SweepAdd(d)
      PROVE  Plain'
  BY <1>2 DEF Plain, Create, Enqueue, EnqueueFails, Due, LockExpires, Stalled, SweepClear, SweepAdd,
     webhook, history
<1>3. ASSUME NEW l \in Lanes, NEW d \in Deliveries, Pickup(l, d) \/ Defer(l, d)
      PROVE  Plain'
  BY <1>3 DEF Plain, Pickup, Defer, webhook, history
<1>4. ASSUME NEW l \in Lanes,
             \/ Post(l) \/ Finish(l) \/ NotTaken(l) \/ AnswerLost(l) \/ Undecryptable(l)
             \/ Blip(l)
      PROVE  Plain'
  BY <1>4 DEF Plain, Post, Finish, NotTaken, AnswerLost, Undecryptable, Blip, webhook, history
<1>5. ASSUME NEW l \in Lanes, RecordSkip(l) \/ RecordFailure(l)
      PROVE  Plain'
  <2>1. run[l].d \in Deliveries
    BY <1>0, <1>5 DEF RecordSkip, RecordFailure, At
  <2>2. row' \in [Deliveries -> [made : BOOLEAN, tried : BOOLEAN,
                                delivered : BOOLEAN, failed : BOOLEAN]]
    <3>1. row' = [row EXCEPT ![run[l].d] = [@ EXCEPT !.tried = TRUE, !.failed = TRUE]]
      BY <1>5, <2>1 DEF Plain, RecordSkip, RecordFailure, FailedRow
    <3>2. QED
      BY <2>1, <3>1 DEF Plain
  <2>3. QED
    BY <1>5, <2>2 DEF Plain, RecordSkip, RecordFailure, webhook, history
<1>6. ASSUME NEW l \in Lanes, RecordOk(l) PROVE Plain'
  <2>1. run[l].d \in Deliveries
    BY <1>0, <1>6 DEF RecordOk, At
  <2>2. QED
    BY <1>6, <2>1, FS_EmptySet DEF Plain, RecordOk
<1>7. ASSUME NEW l \in Lanes, Bump(l) PROVE Plain'
  <2>1. run[l].d \in Deliveries
    BY <1>0, <1>7 DEF Bump, At
  <2>2. QED
    BY <1>7, <2>1, FS_AddElement, SMTT(30) DEF Plain, Bump
<1>8. ASSUME NEW l \in Lanes, Trip(l) PROVE Plain'
  BY <1>8 DEF Plain, Trip
<1>9. CASE Crash \/ SweepSelect
  BY <1>9 DEF Plain, Crash, SweepSelect, webhook, history
<1>10. ASSUME NEW on \in BOOLEAN, Toggle(on) PROVE Plain'
  BY <1>10, FS_EmptySet DEF Plain, Toggle
<1>11. QED
  BY <1>1, <1>2, <1>3, <1>4, <1>5, <1>6, <1>7, <1>8, <1>9, <1>10 DEF Next, LaneStep

LEMMA BusyFinite == IsFiniteSet(Busy) /\ Cardinality(Busy) \in Nat
<1>1. Busy \subseteq Lanes
  BY DEF Busy
<1>2. QED
  BY <1>1, LanesFinite, FS_Subset, FS_CardinalityType

\* A slot is taken with a lane and given back with it.
LEMMA CappedKept ==
  ASSUME IInv, Finality, Capped, [Next]_vars
  PROVE  Capped'
<1>0. PerTeam \in Nat /\ slots \in Nat /\ run \in [Lanes -> Works] /\ Shape
  BY BusyFinite, ConstantsAssumption DEF Capped, IInv, Shape
<1>1. ASSUME UNCHANGED <<slots, run>> PROVE Capped'
  BY <1>1 DEF Capped, Busy
<1>2. ASSUME NEW l \in Lanes, NEW d \in Deliveries, Pickup(l, d) PROVE Capped'
  <2>1. /\ run[l].step = "off" /\ slots' = slots + 1 /\ slots < PerTeam
        /\ run'[l].step # "off" /\ \A m \in Lanes \ {l} : run'[m] = run[m]
    BY <1>0, <1>2 DEF Pickup, Free
  <2>2. Busy' = Busy \cup {l} /\ l \notin Busy
    BY <2>1 DEF Busy
  <2>3. Cardinality(Busy') = Cardinality(Busy) + 1
    BY <2>2, BusyFinite, FS_AddElement
  <2>4. QED
    BY <1>0, <2>1, <2>3 DEF Capped
<1>3. ASSUME NEW l \in Lanes, Finish(l) PROVE Capped'
  <2>1. /\ run[l].step # "off" /\ slots' = slots - 1
        /\ run'[l].step = "off" /\ \A m \in Lanes \ {l} : run'[m] = run[m]
    BY <1>0, <1>3 DEF Finish, Idle
  <2>2. Busy' = Busy \ {l} /\ l \in Busy
    BY <2>1 DEF Busy
  <2>3. Cardinality(Busy') = Cardinality(Busy) - 1
    BY <2>2, BusyFinite, FS_RemoveElement
  <2>4. QED
    BY <1>0, <2>1, <2>3 DEF Capped
<1>4. ASSUME NEW l \in Lanes, JobFunction(l) PROVE Capped'
  <2>1. Forward(l) /\ slots' = slots
    BY <1>0, <1>4, LaneForward
  <2>2. Busy' = Busy
    BY <2>1 DEF Busy, Forward
  <2>3. QED
    BY <2>1, <2>2 DEF Capped
<1>5. CASE Crash
  <2>1. Busy' = {} /\ slots' = 0
    BY <1>5 DEF Crash, Busy, Idle
  <2>2. QED
    BY <1>0, <2>1, FS_EmptySet DEF Capped
<1>6. QED
  <2>1. ASSUME NEW d \in Deliveries,
               \/ Create(d) \/ Enqueue(d) \/ EnqueueFails(d) \/ Due(d)
               \/ LockExpires(d) \/ Stalled(d) \/ SweepClear(d) \/ SweepAdd(d)
        PROVE  Capped'
    BY <1>1, <2>1 DEF Create, Enqueue, EnqueueFails, Due, LockExpires, Stalled, SweepClear,
       SweepAdd
  <2>2. ASSUME NEW l \in Lanes, NEW d \in Deliveries, Defer(l, d) PROVE Capped'
    BY <1>1, <2>2 DEF Defer
  <2>3. ASSUME NEW on \in BOOLEAN, Toggle(on) PROVE Capped'
    BY <1>1, <2>3 DEF Toggle
  <2>4. CASE SweepSelect \/ UNCHANGED vars
    BY <1>1, <2>4 DEF SweepSelect, vars
  <2>5. QED
    BY <1>2, <1>3, <1>4, <1>5, <2>1, <2>2, <2>3, <2>4 DEF Next, LaneStep, JobFunction

-----------------------------------------------------------------------------
(* Theorems.                                                               *)

LEMMA CInvInit == Init => CInv
<1> SUFFICES ASSUME Init PROVE CInv
  OBVIOUS
<1>1. IInv
  BY IInvInit
<1>2. Ladder
  BY ConstantsAssumption DEF Init, Ladder, Attempts, Finality, NoJob, Idle, Late
<1>3. Counted
  <2> DEFINE z == [d \in Deliveries |-> 0]
  <2>1. z \in [Deliveries -> Nat] /\ \A d \in Deliveries : z[d] = 0
    OBVIOUS
  <2>2. Marks(z) = {}
    BY <2>1 DEF Marks
  <2> HIDE DEF z
  <2>3. ASSUME NEW d \in Deliveries PROVE z[d] + Left(d) <= 1 + again[d]
    <3>1. Loose(d) = {}
      BY DEF Init, Loose, Idle, Bumping
    <3>2. Cardinality(Loose(d)) = 0 /\ again[d] = 0
      BY <3>1, FS_EmptySet DEF Init
    <3>3. QED
      BY <2>1, <3>2 DEF Left, ToCount
  <2>4. Tells(z)
    BY <2>1, <2>2, <2>3, FS_EmptySet DEF Tells, Init
  <2>5. QED
    BY <2>1, <2>4 DEF Counted
<1>4. Plain
  BY FS_EmptySet DEF Init, Plain, NoRow
<1>5. Capped
  <2>1. Busy = {}
    BY DEF Init, Busy, Idle
  <2>2. QED
    BY <2>1, FS_EmptySet, ConstantsAssumption DEF Init, Capped
<1>6. QED
  BY <1>1, <1>2, <1>3, <1>4, <1>5 DEF CInv

LEMMA CInvStep == CInv /\ [Next]_vars => CInv'
<1> SUFFICES ASSUME CInv, [Next]_vars PROVE CInv'
  OBVIOUS
<1>0. IInv /\ Ladder /\ Finality /\ Counted /\ Plain /\ Capped
  BY DEF CInv, Ladder
<1>1. IInv' /\ Plain' /\ Capped' /\ again' \in [Deliveries -> Nat]
  BY <1>0, IInvStep, PlainKept, CappedKept DEF IInv, Shape
<1>2. ASSUME Ladder', NoMoreLeft, (failures' = failures /\ failed' = failed) \/ failures' = 0
      PROVE  Ladder' /\ Counted'
  BY <1>0, <1>1, <1>2, CountedKept
<1>3. ASSUME NEW d \in Deliveries,
             \/ Enqueue(d) \/ Due(d) \/ Stalled(d) \/ SweepClear(d) \/ SweepAdd(d)
             \/ (\E l \in Lanes : Defer(l, d))
      PROVE  Ladder' /\ Counted'
  <2>1. failures' = failures /\ failed' = failed
    BY <1>3 DEF Enqueue, Due, Stalled, SweepClear, SweepAdd, Defer, webhook, history
  <2>2. QED
    BY <1>0, <1>2, <1>3, <2>1, JobStepLeaves
<1>4. ASSUME NEW d \in Deliveries, Create(d) \/ EnqueueFails(d)
      PROVE  Ladder' /\ Counted'
  BY <1>0, <1>2, <1>4, StillLeaves DEF Create, EnqueueFails, webhook, history
<1>5. ASSUME NEW d \in Deliveries, LockExpires(d) PROVE Ladder' /\ Counted'
  BY <1>0, <1>2, <1>5, ExpiryLeaves DEF LockExpires, webhook
<1>6. ASSUME NEW l \in Lanes, NEW d \in Deliveries, Pickup(l, d) PROVE Ladder' /\ Counted'
  BY <1>0, <1>2, <1>6, PickupLeaves DEF Pickup, webhook, history
<1>7. ASSUME NEW l \in Lanes, Finish(l) PROVE Ladder' /\ Counted'
  BY <1>0, <1>2, <1>7, FinishLeaves DEF Finish, webhook, history
<1>8. ASSUME NEW l \in Lanes, JobFunction(l) PROVE Ladder' /\ Counted'
  <2>1. Ladder' /\ NoMoreLeft
    BY <1>0, <1>8, LaneLadder, LaneLeft DEF NoMoreLeft
  <2>2. CASE Bump(l)
    BY <1>0, <2>1, <2>2, BumpCounted
  <2>3. CASE ~Bump(l)
    <3>1. (failures' = failures /\ failed' = failed) \/ failures' = 0
      BY <1>8, <2>3 DEF JobFunction, Undecryptable, NotTaken, AnswerLost, RecordOk, RecordSkip,
         RecordFailure, Trip, Blip, Post, webhook, history
    <3>2. QED
      BY <1>2, <2>1, <3>1
  <2>4. QED
    BY <2>2, <2>3
<1>9. ASSUME Crash PROVE Ladder' /\ Counted'
  BY <1>0, <1>2, <1>9, CrashLeaves DEF Crash, webhook
<1>10. ASSUME NEW on \in BOOLEAN, Toggle(on) PROVE Ladder' /\ Counted'
  <2>1. (failures' = failures /\ failed' = failed) \/ failures' = 0
    BY <1>10 DEF Toggle
  <2>2. UNCHANGED <<job, run, again>>
    BY <1>10 DEF Toggle
  <2>3. QED
    BY <1>0, <1>2, <2>1, <2>2, StillLeaves
<1>11. ASSUME SweepSelect \/ UNCHANGED vars PROVE Ladder' /\ Counted'
  BY <1>0, <1>2, <1>11, StillLeaves DEF SweepSelect, vars, webhook, history
<1>12. QED
  BY <1>1, <1>3, <1>4, <1>5, <1>6, <1>7, <1>8, <1>9, <1>10, <1>11
  DEF CInv, Next, LaneStep, JobFunction

LEMMA Correct == Spec => []CInv
BY CInvInit, CInvStep, PTL DEF Spec

\* Whatever is retried, stalls, loses its lock, crashes or is swept up, the breaker
\* counts a delivery once, and once more for each reason it was run again.
THEOREM CountsOnce == Spec => []CountsDeliveries
<1>1. CInv => CountsDeliveries
  <2> SUFFICES ASSUME CInv PROVE CountsDeliveries
    OBVIOUS
  <2> DEFINE of == [d \in failed |-> {d} \X (0..again[d])]
             all == {{d} \X (0..again[d]) : d \in failed}
  <2>1. PICK b \in [Deliveries -> Nat] : Tells(b)
    BY DEF CInv, Counted
  <2>2. /\ \A d \in Deliveries : again[d] \in Nat
        /\ failed \subseteq Deliveries /\ IsFiniteSet(failed)
    BY DEF CInv, IInv, Shape, Plain
  <2>3. IsFiniteSet(all)
    <3>1. of \in Surjection(failed, all)
      BY DEF Surjection
    <3>2. QED
      BY <2>2, <3>1, FS_Surjection
  <2>4. \A s \in all : IsFiniteSet(s)
    <3> SUFFICES ASSUME NEW d \in failed PROVE IsFiniteSet({d} \X (0..again[d]))
      OBVIOUS
    <3>0. again[d] \in Int /\ 0 \in Int
      BY <2>2
    <3>1. IsFiniteSet({d}) /\ IsFiniteSet(0..again[d])
      BY <3>0, FS_Singleton, FS_Interval
    <3>2. QED
      BY <3>1, FS_Product
  <2>5. Marks(b) \subseteq UNION all
    <3> SUFFICES ASSUME NEW d \in Deliveries, NEW k \in Nat, k < b[d]
                 PROVE  <<d, k>> \in UNION all
      BY DEF Marks
    <3>1. d \in failed /\ b[d] + Left(d) <= 1 + again[d] /\ Left(d) \in Nat
      BY <2>1, LooseFinite DEF Tells, Left, ToCount
    <3>2. k \in 0..again[d]
      BY <2>2, <3>1
    <3>3. QED
      BY <3>1, <3>2
  <2> HIDE DEF all
  <2>6. Cardinality(Marks(b)) <= Cardinality(UNION all)
    BY <2>3, <2>4, <2>5, FS_UNION, FS_Subset
  <2>7. QED
    BY <2>1, <2>6 DEF CountsDeliveries, Tells, all
<1>2. QED
  BY <1>1, Correct, PTL

\* Every variable keeps its type: no job has more attempts or stalls than its limits,
\* and the slots are exactly the lanes at work, never more than the workspace's cap.
THEOREM TypeCorrect == Spec => []TypeOK
<1>1. CInv => TypeOK
  <2> SUFFICES ASSUME CInv PROVE TypeOK
    OBVIOUS
  <2>1. job \in [Deliveries -> [st : {"none", "waiting", "delayed", "active"} \union Terminal,
                               tries : 0..MaxAttempts, stalls : 0..MaxStalls,
                               owner : Lanes \union {Nobody}]]
    BY ConstantsAssumption DEF CInv, IInv, Shape, Ladder, Attempts, JobStates
  <2>2. QED
    BY <2>1 DEF CInv, IInv, Shape, Plain, Capped, Busy, TypeOK
<1>2. QED
  BY <1>1, Correct, PTL
=============================================================================
