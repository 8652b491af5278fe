---------------------------- MODULE MessageProofs ----------------------------
(***************************************************************************)
(* No receipt answered with a 200 is lost but in the ways MessageStatus    *)
(* lists, for any number of receipts, watermarks, failures and repeats:    *)
(* somebody holds its status, or one as high, until the row has it.        *)
(***************************************************************************)
EXTENDS MessageStatus, TLAPS

\* The steps an actor may be at, and what it knows there.
Places ==
  /\ \A e \in Receipts :
       pc[e] \in {"idle", "owed", "get", "set", "check", "getdel", "read", "cas"}
  /\ \A w \in Watermarks : pc[w] \in {"idle", "owed", "mark"}
  /\ pc[Creator] \in {"create", "lookup", "getdel", "read", "cas", "done"}
  /\ \A a \in Actors :
       /\ carry[a] # None => pc[a] \in {"read", "cas"}
       /\ pc[a] = "cas" => pin[a] # None /\ StatusWinsOver(Applying(a), pin[a])
  /\ pc[Creator] \in {"read", "cas"} => carry[Creator] # None

\* The row was there and is deleted; it never comes back.
Ended == row = None /\ (IF echo THEN tx = "closed" ELSE pc[Creator] # "create")

\* When the row comes.
Coming ==
  /\ ~echo => tx = "none"
  /\ row # None => (IF echo THEN tx = "closed" ELSE pc[Creator] # "create")
  /\ \A w \in Watermarks : pc[w] = "mark" /\ row = None => Ended

\* The status of a receipt that will still be applied to the row.
Live(e) == pc[e] = "owed" \/ (pc[e] \in {"cas", "read"} /\ carry[e] = None)

\* Where a status is once it is off the key: on the row, dropped, carried by an
\* actor that took it, or with a receipt that will still write it.
Kept(t) ==
  \/ t \in lost \union {row}
  \/ \E a \in Actors : carry[a] = t
  \/ \E e \in Receipts : Live(e) /\ StatusOf[e] = t

\* It is parked, or about to be.
OnItsWay(t) ==
  \/ parked = t
  \/ \E e \in Receipts : pc[e] \in {"get", "set"} /\ StatusOf[e] = t

Held(s) == Ended \/ \E t \in Statuses : Kept(t) /\ Covers(t, s)
Safe(s) == Ended \/ \E t \in Statuses : (Kept(t) \/ OnItsWay(t)) /\ Covers(t, s)

\* Somebody will drain the key: the creator, now or once the row is there, or
\* the lane that parked what is on it.
Watched ==
  \/ row = None
  \/ pc[Creator] \in {"lookup", "getdel"}
  \/ \E e \in Receipts : pc[e] \in {"check", "getdel"} /\ StatusOf[e] = parked

\* The receipts whose status must not be lost.
Trusted ==
  acked \union {e \in Receipts : pc[e] \in {"check", "getdel"} \/ carry[e] # None}

Guarded ==
  /\ \A s \in Statuses : parked = s => Watched \/ Held(s)
  /\ \A e \in Trusted : Safe(StatusOf[e])

IInv == TypeOK /\ Places /\ Coming /\ Guarded

-----------------------------------------------------------------------------
(* The ladder of the message.                                              *)

LEMMA Ranks ==
  /\ Rank("failed") = -1 /\ Rank("sent") = 0 /\ Rank("delivered") = 1 /\ Rank("read") = 2
BY DEF Rank

LEMMA CoversSelf == \A s \in Statuses : Covers(s, s)
BY Ranks DEF Covers, StatusWinsOver, Statuses

LEMMA CoversMore ==
  \A s, t, u \in Statuses : Covers(s, t) /\ Covers(t, u) => Covers(s, u)
BY Ranks DEF Covers, StatusWinsOver, Statuses

LEMMA WinsCovers ==
  \A s, t \in Statuses : StatusWinsOver(s, t) => Covers(s, t)
BY Ranks DEF Covers, StatusWinsOver, Statuses

-----------------------------------------------------------------------------
(* Types and places.                                                       *)

LEMMA Constants ==
  /\ Receipts \subseteq Events /\ Receipts \subseteq Actors /\ Creator \in Actors
  /\ Actors \subseteq Parties /\ Events \subseteq Parties /\ Creator \notin Events
  /\ \A a \in Actors : a = Creator \/ a \in Receipts
  /\ \A e \in Events : StatusOf[e] \in Statuses
  /\ \A w \in Watermarks : w \notin Actors /\ StatusOf[w] \in {"delivered", "read"}
  /\ None \notin Statuses /\ None \notin Deliveries
  /\ MaxFaults \in Nat /\ MaxRepeats \in Nat
BY ConstantsAssumption DEF Events, Actors, Parties

LEMMA Names ==
  /\ {"sent", "delivered", "read", "failed"} \subseteq Statuses
  /\ {"sent", "held", "delivered", "read", "undelivered"} \subseteq Deliveries
  /\ {"idle", "owed", "get", "set", "check", "getdel", "read", "cas", "mark"} \subseteq Steps
  /\ {"create", "lookup", "done"} \subseteq Steps
BY DEF Statuses, Deliveries, Steps

LEMMA Going ==
  ASSUME pc \in [Parties -> Steps], NEW a \in Parties, NEW s \in Steps, Goto(a, s)
  PROVE  /\ pc' \in [Parties -> Steps] /\ pc'[a] = s
         /\ \A b \in Parties : b # a => pc'[b] = pc[b]
BY DEF Goto

LEMMA Finishing ==
  ASSUME pc \in [Parties -> Steps], acked \subseteq Events, NEW a \in Parties, Finish(a)
  PROVE  /\ pc' \in [Parties -> Steps] /\ acked' \subseteq Events
         /\ pc'[a] = IF a = Creator THEN "done" ELSE "idle"
         /\ \A b \in Parties : b # a => pc'[b] = pc[b]
         /\ \A e \in acked' : e \in acked \/ e = a
         /\ acked \subseteq acked'
BY Names, Going DEF Finish, Goto

LEMMA Releasing ==
  ASSUME carry \in [Actors -> Statuses \union {None}],
         pin \in [Actors -> Statuses \union {None}], NEW a \in Actors, Release(a)
  PROVE  /\ carry' \in [Actors -> Statuses \union {None}]
         /\ pin' \in [Actors -> Statuses \union {None}]
         /\ carry'[a] = None /\ \A b \in Actors : b # a => carry'[b] = carry[b]
         /\ pin'[a] = None /\ \A b \in Actors : b # a => pin'[b] = pin[b]
BY DEF Release

LEMMA InitTypes == Init => TypeOK /\ Places /\ Coming
<1> SUFFICES ASSUME Init PROVE TypeOK /\ Places /\ Coming
  OBVIOUS
<1>1. /\ \A e \in Events : pc[e] = "idle" /\ e \in Parties
      /\ Creator \in Parties /\ pc[Creator] = "create"
      /\ pc \in [Parties -> Steps]
  <2>1. pc = [a \in Parties |-> IF a = Creator THEN "create" ELSE "idle"]
    BY DEF Init
  <2>2. Creator \notin Events /\ Events \subseteq Parties /\ Creator \in Parties
    BY Constants
  <2> QED
    BY <2>1, <2>2, Names
<1>2. \A a \in Actors : carry[a] = None /\ pin[a] = None
  BY DEF Init
<1>3. /\ carry \in [Actors -> Statuses \union {None}]
      /\ pin \in [Actors -> Statuses \union {None}]
  BY DEF Init
<1>4. /\ recip \in Deliveries \union {None} /\ echo \in BOOLEAN
      /\ faults \in 0..MaxFaults /\ repeats \in 0..MaxRepeats
  <2>1. recip \in {None, "sent", "held"} /\ echo \in BOOLEAN /\ faults = 0 /\ repeats = 0
    BY DEF Init
  <2> QED
    BY <2>1, Names, ConstantsAssumption
<1>5. TypeOK
  BY <1>1, <1>3, <1>4 DEF Init, TypeOK
<1>6. Places
  <2>1. \A w \in Watermarks : pc[w] = "idle"
    BY <1>1 DEF Events
  <2>2. \A e \in Receipts : pc[e] = "idle"
    BY <1>1 DEF Events
  <2>3. \A a \in Actors : carry[a] = None /\ pc[a] # "cas"
    BY <1>1, <1>2, <2>2, Constants
  <2> QED
    BY <1>1, <2>1, <2>2, <2>3 DEF Places
<1>7. Coming
  <2>1. \A w \in Watermarks : pc[w] # "mark"
    BY <1>1 DEF Events
  <2> QED
    BY <2>1 DEF Init, Coming
<1> QED
  BY <1>5, <1>6, <1>7

LEMMA NextTypes == TypeOK /\ Places /\ [Next]_vars => TypeOK'
<1> SUFFICES ASSUME TypeOK, Places, [Next]_vars PROVE TypeOK'
  OBVIOUS
<1> USE Constants, Names DEF TypeOK
<1>1. ASSUME NEW e \in Receipts, ReceiveKnown(e) PROVE TypeOK'
  <2> e \in Parties /\ e \in Actors /\ StatusOf[e] \in Statuses
    OBVIOUS
  <2>1. repeats' \in 0..MaxRepeats
    BY <1>1 DEF ReceiveKnown, Arrives
  <2>2. reports' \subseteq Statuses
    BY <1>1 DEF ReceiveKnown, Report
  <2>3. pc' \in [Parties -> Steps] /\ acked' \subseteq Events
    BY <1>1, Finishing, Going DEF ReceiveKnown
  <2>4. pin' \in [Actors -> Statuses \union {None}]
    BY <1>1 DEF ReceiveKnown
  <2> QED
    BY <1>1, <2>1, <2>2, <2>3, <2>4 DEF ReceiveKnown
<1>2. ASSUME NEW e \in Receipts, ReceiveUnknown(e) PROVE TypeOK'
  <2>1. repeats' \in 0..MaxRepeats
    BY <1>2 DEF ReceiveUnknown, Arrives
  <2>2. pc' \in [Parties -> Steps]
    BY <1>2, Going DEF ReceiveUnknown
  <2> QED
    BY <1>2, <2>1, <2>2 DEF ReceiveUnknown
<1>3. ASSUME NEW e \in Receipts, Peek(e) \/ Park(e) \/ Recheck(e) PROVE TypeOK'
  <2>1. pc' \in [Parties -> Steps] /\ acked' \subseteq Events
    BY <1>3, Finishing, Going DEF Peek, Park, Recheck
  <2>2. parked' \in Statuses \union {None} /\ lost' \subseteq Statuses
    BY <1>3 DEF Peek, Park, Recheck
  <2> QED
    BY <1>3, <2>1, <2>2 DEF Peek, Park, Recheck
<1>4. ASSUME NEW a \in Actors, GetDel(a) PROVE TypeOK'
  <2>1. pc' \in [Parties -> Steps] /\ acked' \subseteq Events
    BY <1>4, Finishing, Going DEF GetDel
  <2>2. carry' \in [Actors -> Statuses \union {None}]
    BY <1>4 DEF GetDel
  <2> QED
    BY <1>4, <2>1, <2>2 DEF GetDel
<1>a. ASSUME NEW a \in Actors, pc[a] = "cas" \/ pc[a] = "read" PROVE Applying(a) \in Statuses
  BY <1>a DEF Applying, Places
<1>5. ASSUME NEW a \in Actors, Reread(a) PROVE TypeOK'
  <2>1. pc' \in [Parties -> Steps] /\ acked' \subseteq Events
    BY <1>5, Finishing, Going DEF Reread
  <2>2. /\ carry' \in [Actors -> Statuses \union {None}]
        /\ pin' \in [Actors -> Statuses \union {None}]
    BY <1>5, Releasing DEF Reread
  <2>3. lost' \subseteq Statuses
    BY <1>5, <1>a DEF Reread
  <2> QED
    BY <1>5, <2>1, <2>2, <2>3 DEF Reread
<1>6. ASSUME NEW a \in Actors, Write(a) PROVE TypeOK'
  <2>1. pc' \in [Parties -> Steps] /\ acked' \subseteq Events
    BY <1>6, Finishing, Going DEF Write
  <2>2. /\ carry' \in [Actors -> Statuses \union {None}]
        /\ pin' \in [Actors -> Statuses \union {None}]
    BY <1>6, Releasing DEF Write
  <2>3. row' \in Statuses \union {None} /\ reports' \subseteq Statuses
    BY <1>6, <1>a DEF Write, Report
  <2> QED
    BY <1>6, <2>1, <2>2, <2>3 DEF Write
<1>7. ASSUME NEW e \in Receipts, LaneFails(e) PROVE TypeOK'
  <2>1. pc' \in [Parties -> Steps]
    BY <1>7, Going DEF LaneFails
  <2>2. faults' \in 0..MaxFaults /\ lost' \subseteq Statuses
    BY <1>7 DEF LaneFails, Fault, Some
  <2> QED
    BY <1>7, <2>1, <2>2, Releasing DEF LaneFails
<1>8. ASSUME NEW e \in Receipts, ParkFails(e) PROVE TypeOK'
  <2>1. pc' \in [Parties -> Steps] /\ acked' \subseteq Events
    BY <1>8, Finishing DEF ParkFails
  <2>2. faults' \in 0..MaxFaults /\ lost' \subseteq Statuses
    BY <1>8 DEF ParkFails, Fault, Some
  <2> QED
    BY <1>8, <2>1, <2>2, Releasing DEF ParkFails
<1>9. ASSUME NEW w \in Watermarks, MarkFind(w) \/ MarkWrite(w) \/ MarkFails(w) PROVE TypeOK'
  <2> w \in Parties /\ w \in Events
    BY DEF Events, Parties
  <2>1. pc' \in [Parties -> Steps] /\ acked' \subseteq Events
    BY <1>9, Finishing, Going DEF MarkFind, MarkWrite, MarkFails
  <2>2. faults' \in 0..MaxFaults /\ repeats' \in 0..MaxRepeats
    BY <1>9 DEF MarkFind, MarkWrite, MarkFails, Fault, Arrives
  <2>3. row' \in Statuses \union {None}
    BY <1>9 DEF MarkFind, MarkWrite, MarkFails
  <2> QED
    BY <1>9, <2>1, <2>2, <2>3 DEF MarkFind, MarkWrite, MarkFails
<1>10. ASSUME CreateRow \/ InsertInTx \/ CommitTx \/ AbortTx PROVE TypeOK'
  <2>1. pc' \in [Parties -> Steps]
    BY <1>10, Going DEF CreateRow, InsertInTx, CommitTx, AbortTx
  <2>2. faults' \in 0..MaxFaults /\ lost' \subseteq Statuses
    BY <1>10 DEF CreateRow, InsertInTx, CommitTx, AbortTx, Fault, Some
  <2> QED
    BY <1>10, <2>1, <2>2 DEF CreateRow, InsertInTx, CommitTx, AbortTx
<1>11. ASSUME Lookup \/ DrainSkipped \/ DrainThrows PROVE TypeOK'
  <2>1. pc' \in [Parties -> Steps]
    BY <1>11, Going DEF Lookup, DrainSkipped, DrainThrows
  <2>2. faults' \in 0..MaxFaults /\ lost' \subseteq Statuses
    BY <1>11 DEF Lookup, DrainSkipped, DrainThrows, Fault, Some, Places
  <2>3. /\ carry' \in [Actors -> Statuses \union {None}]
        /\ pin' \in [Actors -> Statuses \union {None}]
    BY <1>11, Releasing DEF Lookup, DrainSkipped, DrainThrows
  <2> QED
    BY <1>11, <2>1, <2>2, <2>3 DEF Lookup, DrainSkipped, DrainThrows
<1>12. ASSUME Expire \/ Delete PROVE TypeOK'
  <2>1. faults' \in 0..MaxFaults /\ lost' \subseteq Statuses
    BY <1>12 DEF Expire, Delete, Fault
  <2> QED
    BY <1>12, <2>1 DEF Expire, Delete
<1>13. ASSUME NEW s \in reports, ApplyReport(s) \/ DropReport(s) PROVE TypeOK'
  <2>1. recip' \in Deliveries \union {None}
    BY <1>13 DEF ApplyReport, DropReport, Mirrored, Statuses
  <2> QED
    BY <1>13, <2>1 DEF ApplyReport, DropReport
<1>14. ASSUME Sweep PROVE TypeOK'
  <2>1. recip' \in Deliveries \union {None}
    BY <1>14 DEF Sweep, Mirrored
  <2> QED
    BY <1>14, <2>1 DEF Sweep
<1>15. ASSUME UNCHANGED vars PROVE TypeOK'
  BY <1>15 DEF vars
<1> QED
  BY <1>1, <1>2, <1>3, <1>4, <1>5, <1>6, <1>7, <1>8, <1>9, <1>10, <1>11, <1>12, <1>13,
     <1>14, <1>15 DEF Next, Receive, Lane, Drain

\* What the places of an actor other than the moving one have to do with it.
LEMMA Elsewhere ==
  ASSUME TypeOK, Places, NEW a \in Parties,
         \A b \in Parties : b # a => pc'[b] = pc[b],
         \A b \in Actors : b # a => carry'[b] = carry[b] /\ pin'[b] = pin[b],
         a \in Receipts => pc'[a] \in {"idle", "owed", "get", "set", "check", "getdel", "read", "cas"},
         a \in Watermarks => pc'[a] \in {"idle", "owed", "mark"},
         a = Creator => pc'[a] \in {"create", "lookup", "getdel", "read", "cas", "done"},
         a \in Actors =>
           /\ carry'[a] # None => pc'[a] \in {"read", "cas"}
           /\ pc'[a] = "cas" => pin'[a] # None /\ StatusWinsOver(Applying(a)', pin'[a]),
         a = Creator /\ pc'[a] \in {"read", "cas"} => carry'[a] # None
  PROVE  Places'
<1> USE Constants
<1>1. \A e \in Receipts : e \in Parties
  OBVIOUS
<1>2. \A w \in Watermarks : w \in Parties
  BY DEF Events
<1>3. \A b \in Actors : b # a => Applying(b)' = Applying(b)
  BY DEF Applying
<1>4. \A e \in Receipts :
       pc'[e] \in {"idle", "owed", "get", "set", "check", "getdel", "read", "cas"}
  BY <1>1 DEF Places
<1>5. \A w \in Watermarks : pc'[w] \in {"idle", "owed", "mark"}
  BY <1>2 DEF Places
<1>6. pc'[Creator] \in {"create", "lookup", "getdel", "read", "cas", "done"}
  BY DEF Places
<1>7. \A b \in Actors :
       /\ carry'[b] # None => pc'[b] \in {"read", "cas"}
       /\ pc'[b] = "cas" => pin'[b] # None /\ StatusWinsOver(Applying(b)', pin'[b])
  <2> SUFFICES ASSUME NEW b \in Actors
               PROVE  /\ carry'[b] # None => pc'[b] \in {"read", "cas"}
                      /\ pc'[b] = "cas" => pin'[b] # None /\ StatusWinsOver(Applying(b)', pin'[b])
    OBVIOUS
  <2>1. CASE b = a
    BY <2>1
  <2>2. CASE b # a
    <3>1. pc'[b] = pc[b] /\ carry'[b] = carry[b] /\ pin'[b] = pin[b]
      BY <2>2
    <3>2. /\ carry[b] # None => pc[b] \in {"read", "cas"}
          /\ pc[b] = "cas" => pin[b] # None /\ StatusWinsOver(Applying(b), pin[b])
      BY DEF Places
    <3> QED
      BY <2>2, <3>1, <3>2, <1>3
  <2> QED
    BY <2>1, <2>2
<1>8. pc'[Creator] \in {"read", "cas"} => carry'[Creator] # None
  BY DEF Places
<1> QED
  BY <1>4, <1>5, <1>6, <1>7, <1>8 DEF Places

LEMMA NextPlaces == TypeOK /\ Places /\ [Next]_vars => Places'
<1> SUFFICES ASSUME TypeOK, Places, [Next]_vars PROVE Places'
  OBVIOUS
<1> USE Constants, Names
<1>t. /\ pc \in [Parties -> Steps] /\ acked \subseteq Events
      /\ carry \in [Actors -> Statuses \union {None}]
      /\ pin \in [Actors -> Statuses \union {None}]
  BY DEF TypeOK
<1>p. /\ \A a \in Actors : carry[a] # None => pc[a] \in {"read", "cas"}
      /\ pc[Creator] \in {"read", "cas"} => carry[Creator] # None
      /\ \A a \in Actors : pc[a] = "cas" => pin[a] # None /\ StatusWinsOver(Applying(a), pin[a])
  BY DEF Places
<1>r. \A e \in Receipts : e # Creator /\ e \notin Watermarks /\ e \in Actors /\ e \in Parties
  BY ConstantsAssumption DEF Events
<1>w. \A w \in Watermarks : w # Creator /\ w \notin Receipts /\ w \notin Actors /\ w \in Parties
  BY DEF Events
<1>c. Creator \notin Receipts /\ Creator \notin Watermarks
  BY DEF Events
<1>1. ASSUME NEW e \in Receipts, ReceiveKnown(e) PROVE Places'
  <2>1. carry[e] = None
    BY <1>1, <1>p, <1>r DEF ReceiveKnown, Arrives
  <2>2. CASE StatusWinsOver(StatusOf[e], row)
    <3>1. Goto(e, "cas") /\ pin' = [pin EXCEPT ![e] = row] /\ carry' = carry /\ row # None
      BY <1>1, <2>2 DEF ReceiveKnown
    <3>2. pin'[e] = row /\ \A b \in Actors : b # e => pin'[b] = pin[b]
      BY <3>1, <1>t, <1>r
    <3>3. Applying(e)' = StatusOf[e]
      BY <2>1, <3>1 DEF Applying
    <3>4. pc'[e] = "cas" /\ \A b \in Parties : b # e => pc'[b] = pc[b]
      BY <3>1, <1>t, <1>r, Going
    <3> QED
      BY <2>1, <2>2, <3>1, <3>2, <3>3, <3>4, <1>r, Elsewhere
  <2>3. CASE ~StatusWinsOver(StatusOf[e], row)
    <3>1. Finish(e) /\ pin' = pin /\ carry' = carry
      BY <1>1, <2>3 DEF ReceiveKnown
    <3>2. pc'[e] = "idle" /\ \A b \in Parties : b # e => pc'[b] = pc[b]
      BY <3>1, <1>t, <1>r, Finishing
    <3> QED
      BY <2>1, <3>1, <3>2, <1>r, Elsewhere
  <2> QED
    BY <2>2, <2>3
<1>2. ASSUME NEW e \in Receipts, ReceiveUnknown(e) PROVE Places'
  <2>1. carry[e] = None /\ carry' = carry /\ pin' = pin
    BY <1>2, <1>p, <1>r DEF ReceiveUnknown, Arrives
  <2>2. pc'[e] \in {"get", "set"} /\ \A b \in Parties : b # e => pc'[b] = pc[b]
    BY <1>2, <1>t, <1>r, Going DEF ReceiveUnknown
  <2> QED
    BY <2>1, <2>2, <1>r, Elsewhere
<1>3. ASSUME NEW e \in Receipts, Peek(e) \/ Park(e) \/ Recheck(e) PROVE Places'
  <2>1. carry[e] = None /\ carry' = carry /\ pin' = pin
    BY <1>3, <1>p, <1>r DEF Peek, Park, Recheck
  <2>2. /\ pc'[e] \in {"idle", "set", "check", "getdel"}
        /\ \A b \in Parties : b # e => pc'[b] = pc[b]
    BY <1>3, <1>t, <1>r, Going, Finishing DEF Peek, Park, Recheck
  <2> QED
    BY <2>1, <2>2, <1>r, Elsewhere
<1>4. ASSUME NEW a \in Actors, GetDel(a) PROVE Places'
  <2>1. carry' = [carry EXCEPT ![a] = parked] /\ pin' = pin
    BY <1>4 DEF GetDel
  <2>2. carry'[a] = parked /\ \A b \in Actors : b # a => carry'[b] = carry[b]
    BY <2>1, <1>t
  <2>3. CASE parked = None
    <3>1. pc'[a] \in {"idle", "done"} /\ \A b \in Parties : b # a => pc'[b] = pc[b]
      BY <1>4, <2>3, <1>t, Finishing DEF GetDel
    <3>2. a \in Receipts => pc'[a] = "idle"
      BY <1>4, <2>3, <1>t, <1>r, Finishing DEF GetDel
    <3>3. a = Creator => pc'[a] = "done"
      BY <1>4, <2>3, <1>t, Finishing DEF GetDel
    <3> QED
      BY <2>1, <2>2, <2>3, <3>1, <3>2, <3>3, <1>w, Elsewhere
  <2>4. CASE parked # None
    <3>1. pc'[a] = "read" /\ \A b \in Parties : b # a => pc'[b] = pc[b]
      BY <1>4, <2>4, <1>t, Going DEF GetDel
    <3> QED
      BY <2>1, <2>2, <2>4, <3>1, <1>w, Elsewhere
  <2> QED
    BY <2>3, <2>4
<1>5. ASSUME NEW a \in Actors, Reread(a) PROVE Places'
  <2>1. CASE row # None /\ StatusWinsOver(Applying(a), row)
    <3>1. Goto(a, "cas") /\ pin' = [pin EXCEPT ![a] = row] /\ carry' = carry
      BY <1>5, <2>1 DEF Reread
    <3>2. pin'[a] = row /\ \A b \in Actors : b # a => pin'[b] = pin[b]
      BY <3>1, <1>t
    <3>3. Applying(a)' = Applying(a)
      BY <3>1 DEF Applying
    <3>4. pc'[a] = "cas" /\ \A b \in Parties : b # a => pc'[b] = pc[b]
      BY <3>1, <1>t, Going
    <3>5. a = Creator => carry[a] # None
      BY <1>5, <1>p DEF Reread
    <3> QED
      BY <2>1, <3>1, <3>2, <3>3, <3>4, <3>5, <1>w, Elsewhere
  <2>2. CASE ~(row # None /\ StatusWinsOver(Applying(a), row))
    <3>1. Finish(a) /\ Release(a)
      BY <1>5, <2>2 DEF Reread
    <3> QED
      BY <3>1, <1>t, <1>r, <1>w, Finishing, Releasing, Elsewhere
  <2> QED
    BY <2>1, <2>2
<1>6. ASSUME NEW a \in Actors, Write(a) PROVE Places'
  <2>1. CASE row = pin[a]
    <3>1. Finish(a) /\ Release(a)
      BY <1>6, <2>1 DEF Write
    <3> QED
      BY <3>1, <1>t, <1>r, <1>w, Finishing, Releasing, Elsewhere
  <2>2. CASE row # pin[a]
    <3>1. Goto(a, "read") /\ carry' = carry /\ pin' = pin /\ pc[a] = "cas"
      BY <1>6, <2>2 DEF Write
    <3>2. pc'[a] = "read" /\ \A b \in Parties : b # a => pc'[b] = pc[b]
      BY <3>1, <1>t, Going
    <3> QED
      BY <3>1, <3>2, <1>p, <1>w, Elsewhere
  <2> QED
    BY <2>1, <2>2
<1>7. ASSUME NEW e \in Receipts, LaneFails(e) PROVE Places'
  <2>1. Goto(e, "owed") /\ Release(e)
    BY <1>7 DEF LaneFails
  <2>2. pc'[e] = "owed" /\ \A b \in Parties : b # e => pc'[b] = pc[b]
    BY <2>1, <1>t, <1>r, Going
  <2> QED
    BY <2>1, <2>2, <1>t, <1>r, Releasing, Elsewhere
<1>8. ASSUME NEW e \in Receipts, ParkFails(e) PROVE Places'
  <2>1. Finish(e) /\ Release(e)
    BY <1>8 DEF ParkFails
  <2> QED
    BY <2>1, <1>t, <1>r, Finishing, Releasing, Elsewhere
<1>9. ASSUME NEW w \in Watermarks, MarkFind(w) \/ MarkWrite(w) \/ MarkFails(w) PROVE Places'
  <2>1. carry' = carry /\ pin' = pin
    BY <1>9 DEF MarkFind, MarkWrite, MarkFails
  <2>2. /\ pc'[w] \in {"idle", "mark", "owed"}
        /\ \A b \in Parties : b # w => pc'[b] = pc[b]
    BY <1>9, <1>t, <1>w, Finishing, Going DEF MarkFind, MarkWrite, MarkFails
  <2> QED
    BY <2>1, <2>2, <1>w, Elsewhere
<1>10. ASSUME CreateRow \/ InsertInTx \/ Lookup \/ DrainSkipped PROVE Places'
  <2>1. carry' = carry /\ pin' = pin
    BY <1>10 DEF CreateRow, InsertInTx, Lookup, DrainSkipped
  <2>2. /\ pc'[Creator] \in {"lookup", "getdel", "done"}
        /\ \A b \in Parties : b # Creator => pc'[b] = pc[b]
    BY <1>10, <1>t, Going DEF CreateRow, InsertInTx, Lookup, DrainSkipped
  <2>3. carry[Creator] = None
    BY <1>10, <1>p DEF CreateRow, InsertInTx, Lookup, DrainSkipped
  <2> QED
    BY <2>1, <2>2, <2>3, <1>c, Elsewhere
<1>11. ASSUME DrainThrows PROVE Places'
  <2>1. Release(Creator)
    BY <1>11 DEF DrainThrows
  <2>2. /\ pc'[Creator] \in {"getdel", "done"}
        /\ \A b \in Parties : b # Creator => pc'[b] = pc[b]
    BY <1>11, <1>t, Going DEF DrainThrows
  <2> QED
    BY <2>1, <2>2, <1>t, <1>c, Releasing, Elsewhere
<1>12. ASSUME \/ CommitTx \/ AbortTx \/ Expire \/ Delete \/ Sweep \/ UNCHANGED vars
              \/ \E s \in reports : ApplyReport(s) \/ DropReport(s)
       PROVE  Places'
  <2>1. pc' = pc /\ carry' = carry /\ pin' = pin
    BY <1>12 DEF CommitTx, AbortTx, Expire, Delete, Sweep, ApplyReport, DropReport, vars
  <2> QED
    BY <2>1 DEF Places, Applying
<1> QED
  BY <1>1, <1>2, <1>3, <1>4, <1>5, <1>6, <1>7, <1>8, <1>9, <1>10, <1>11, <1>12
  DEF Next, Receive, Lane, Drain

\* A deleted row stays deleted.
LEMMA NextComing == TypeOK /\ Places /\ Coming /\ [Next]_vars => Coming' /\ (Ended => Ended')
<1> SUFFICES ASSUME TypeOK, Places, Coming, [Next]_vars PROVE Coming' /\ (Ended => Ended')
  OBVIOUS
<1> USE Constants, Names
<1>t. /\ pc \in [Parties -> Steps] /\ acked \subseteq Events /\ echo \in BOOLEAN
      /\ row \in Statuses \union {None}
  BY DEF TypeOK
<1>w. \A w \in Watermarks : w # Creator /\ w \notin Receipts /\ w \notin Actors /\ w \in Parties
  BY DEF Events
<1>k. /\ ~echo => tx = "none"
      /\ row # None => (IF echo THEN tx = "closed" ELSE pc[Creator] # "create")
      /\ \A w \in Watermarks : pc[w] = "mark" /\ row = None => Ended
  BY DEF Coming
<1>q. ASSUME echo' = echo, tx' = tx, row' = row,
             pc'[Creator] = pc[Creator] \/ pc'[Creator] # "create",
             \A w \in Watermarks : pc'[w] = "mark" => pc[w] = "mark" \/ row # None
      PROVE  Coming' /\ (Ended => Ended')
  <2>1. Ended => Ended'
    BY <1>q DEF Ended
  <2>2. Coming'
    BY <1>q, <1>k, <2>1 DEF Coming
  <2> QED
    BY <2>1, <2>2
<1>o. ASSUME NEW a \in Actors, \A b \in Parties : b # a => pc'[b] = pc[b]
      PROVE  \A w \in Watermarks : pc'[w] = pc[w]
  BY <1>o, <1>w
<1>1. ASSUME NEW e \in Receipts,
             \/ Receive(e) \/ Peek(e) \/ Park(e) \/ Recheck(e) \/ LaneFails(e) \/ ParkFails(e)
      PROVE  Coming' /\ (Ended => Ended')
  <2>0. e \in Parties /\ e \in Actors /\ e # Creator
    BY DEF Events
  <2>1. echo' = echo /\ tx' = tx /\ row' = row
    BY <1>1 DEF Receive, ReceiveKnown, ReceiveUnknown, Peek, Park, Recheck, LaneFails, ParkFails
  <2>2. \A b \in Parties : b # e => pc'[b] = pc[b]
    BY <1>1, <1>t, <2>0, Going, Finishing
    DEF Receive, ReceiveKnown, ReceiveUnknown, Peek, Park, Recheck, LaneFails, ParkFails
  <2>3. pc'[Creator] = pc[Creator]
    BY <2>0, <2>2
  <2> QED
    BY <2>0, <2>1, <2>2, <2>3, <1>o, <1>q
<1>2. ASSUME NEW a \in Actors, GetDel(a) \/ Reread(a) \/ Write(a)
      PROVE  Coming' /\ (Ended => Ended')
  <2>1. echo' = echo /\ tx' = tx
    BY <1>2 DEF GetDel, Reread, Write
  <2>2. \A b \in Parties : b # a => pc'[b] = pc[b]
    BY <1>2, <1>t, Going, Finishing DEF GetDel, Reread, Write
  <2>3. pc'[a] \in {"idle", "done", "read", "cas"}
    BY <1>2, <1>t, Going, Finishing DEF GetDel, Reread, Write
  <2>4. pc'[Creator] = pc[Creator] \/ pc'[Creator] # "create"
    BY <2>2, <2>3
  <2>5. CASE row' = row
    BY <2>1, <2>2, <2>4, <2>5, <1>o, <1>q
  <2>6. CASE row' # row
    <3>1. Write(a) /\ pc[a] = "cas" /\ row = pin[a] /\ row' = Applying(a)
      BY <1>2, <2>6 DEF GetDel, Reread, Write
    <3>2. row # None
      BY <3>1 DEF Places
    <3>3. row' # None
      <4>1. a = Creator => carry[a] # None
        BY <3>1 DEF Places
      <4> QED
        BY <3>1, <4>1 DEF Applying, TypeOK
    <3>4. IF echo THEN tx = "closed" ELSE pc'[Creator] # "create"
      BY <3>2, <2>4, <1>k
    <3> QED
      BY <3>2, <3>3, <3>4, <2>1, <1>k DEF Coming, Ended
  <2> QED
    BY <2>5, <2>6
<1>3. ASSUME NEW w \in Watermarks, MarkFind(w) \/ MarkWrite(w) \/ MarkFails(w)
      PROVE  Coming' /\ (Ended => Ended')
  <2>1. echo' = echo /\ tx' = tx
    BY <1>3 DEF MarkFind, MarkWrite, MarkFails
  <2>2. \A b \in Parties : b # w => pc'[b] = pc[b]
    BY <1>3, <1>t, <1>w, Going, Finishing DEF MarkFind, MarkWrite, MarkFails
  <2>3. pc'[Creator] = pc[Creator]
    BY <2>2, <1>w
  <2>4. CASE row' = row
    <3>1. pc'[w] = "mark" => row # None
      BY <1>3, <1>t, <1>w, Going, Finishing DEF MarkFind, MarkWrite, MarkFails
    <3>2. \A v \in Watermarks : pc'[v] = "mark" => pc[v] = "mark" \/ row # None
      BY <3>1, <2>2, <1>w
    <3> QED
      BY <3>2, <2>1, <2>3, <2>4, <1>q
  <2>5. CASE row' # row
    <3>1. row \in Below(w) /\ row' = StatusOf[w]
      BY <1>3, <2>5 DEF MarkFind, MarkWrite, MarkFails
    <3>2. row # None /\ row' # None
      BY <3>1, ConstantsAssumption DEF Below, Statuses, Events
    <3> QED
      BY <3>2, <2>1, <2>3, <1>k DEF Coming, Ended
  <2> QED
    BY <2>4, <2>5
<1>4. ASSUME InsertInTx \/ AbortTx \/ CommitTx PROVE Coming' /\ (Ended => Ended')
  <2>1. echo /\ echo' /\ row = None /\ tx # "closed" /\ ~Ended
    BY <1>4, <1>k DEF InsertInTx, AbortTx, CommitTx, Ended
  <2>2. \A w \in Watermarks : pc[w] # "mark"
    BY <2>1, <1>k
  <2>3. \A w \in Watermarks : pc'[w] = pc[w]
    BY <1>4, <1>t, <1>w, Going DEF InsertInTx, AbortTx, CommitTx
  <2>4. row' = None \/ tx' = "closed"
    BY <1>4, <2>1 DEF InsertInTx, AbortTx, CommitTx
  <2> QED
    BY <2>1, <2>2, <2>3, <2>4 DEF Coming
<1>5. ASSUME CreateRow PROVE Coming' /\ (Ended => Ended')
  <2>1. ~echo /\ ~echo' /\ row' # None /\ tx' = tx /\ ~Ended
    BY <1>5, <1>k DEF CreateRow, Ended
  <2>2. pc'[Creator] = "lookup"
    BY <1>5, <1>t, Going DEF CreateRow
  <2> QED
    BY <2>1, <2>2, <1>k DEF Coming
<1>6. ASSUME Lookup \/ DrainSkipped \/ DrainThrows PROVE Coming' /\ (Ended => Ended')
  <2>1. echo' = echo /\ tx' = tx /\ row' = row
    BY <1>6 DEF Lookup, DrainSkipped, DrainThrows
  <2>2. pc'[Creator] \in {"getdel", "done"} /\ \A b \in Parties : b # Creator => pc'[b] = pc[b]
    BY <1>6, <1>t, Going DEF Lookup, DrainSkipped, DrainThrows
  <2> QED
    BY <2>1, <2>2, <1>o, <1>q
<1>7. ASSUME Delete PROVE Coming' /\ (Ended => Ended')
  <2>1. Ended'
    BY <1>7, <1>k DEF Delete, Ended
  <2> QED
    BY <2>1, <1>7, <1>k DEF Coming, Delete
<1>8. ASSUME \/ Expire \/ Sweep \/ UNCHANGED vars
             \/ \E s \in reports : ApplyReport(s) \/ DropReport(s)
      PROVE  Coming' /\ (Ended => Ended')
  <2>1. echo' = echo /\ tx' = tx /\ row' = row /\ pc' = pc
    BY <1>8 DEF Expire, Sweep, ApplyReport, DropReport, vars
  <2> QED
    BY <2>1, <1>q
<1> QED
  BY <1>1, <1>2, <1>3, <1>4, <1>5, <1>6, <1>7, <1>8 DEF Next, Receive, Lane, Drain

-----------------------------------------------------------------------------
(* Nothing that must not be lost is.                                       *)

\* What a step must do with each status for what is trusted to stay safe.
LEMMA StaysSafe ==
  ASSUME TypeOK, Guarded, Ended => Ended',
         \A t \in Statuses : Kept(t) \/ OnItsWay(t) => Safe(t)',
         \A e \in Receipts \union Watermarks : e \in Trusted' => e \in Trusted \/ Safe(StatusOf[e])'
  PROVE  \A e \in Receipts \union Watermarks : e \in Trusted' => Safe(StatusOf[e])'
<1> SUFFICES ASSUME NEW e \in Receipts \union Watermarks, e \in Trusted, ~Ended'
             PROVE  Safe(StatusOf[e])'
  BY DEF Safe
<1>1. StatusOf[e] \in Statuses
  BY ConstantsAssumption DEF Events
<1>2. PICK t \in Statuses : (Kept(t) \/ OnItsWay(t)) /\ Covers(t, StatusOf[e])
  BY DEF Guarded, Safe
<1>3. PICK u \in Statuses : (Kept(u) \/ OnItsWay(u))' /\ Covers(u, t)
  BY <1>2 DEF Safe
<1>4. Covers(u, StatusOf[e])
  BY <1>1, <1>2, <1>3, CoversMore
<1> QED
  BY <1>3, <1>4 DEF Safe

LEMMA StaysHeld ==
  ASSUME TypeOK, Ended => Ended', \A t \in Statuses : Kept(t) => Held(t)'
  PROVE  \A s \in Statuses : Held(s) => Held(s)'
<1> SUFFICES ASSUME NEW s \in Statuses, Held(s), ~Ended' PROVE Held(s)'
  BY DEF Held
<1>1. PICK t \in Statuses : Kept(t) /\ Covers(t, s)
  BY DEF Held
<1>2. PICK u \in Statuses : Kept(u)' /\ Covers(u, t)
  BY <1>1 DEF Held
<1>3. Covers(u, s)
  BY <1>1, <1>2, CoversMore
<1> QED
  BY <1>2, <1>3 DEF Held

LEMMA KeptIsHeld ==
  /\ \A s \in Statuses : Kept(s) => Held(s)
  /\ \A s \in Statuses : Kept(s)' => Held(s)'
  /\ \A s \in Statuses : Held(s)' => Safe(s)'
  /\ \A s \in Statuses : Kept(s)' \/ OnItsWay(s)' => Safe(s)'
  /\ \A s, t \in Statuses : (Kept(t)' \/ OnItsWay(t)') /\ Covers(t, s) => Safe(s)'
  /\ \A s, t \in Statuses : Kept(t)' /\ Covers(t, s) => Held(s)'
BY CoversSelf DEF Held, Safe

\* A step that keeps what is kept, tells of what is on its way, and leaves no
\* parked status unwatched keeps the guard.
LEMMA StaysGuarded ==
  ASSUME TypeOK, TypeOK', Guarded, Ended => Ended',
         \A t \in Statuses : Kept(t) => Held(t)',
         \A t \in Statuses : OnItsWay(t) => Safe(t)',
         \A s \in Statuses : parked' = s => Watched' \/ Held(s)' \/ (parked = s /\ ~Watched),
         \A e \in Receipts \union Watermarks : e \in Trusted' => e \in Trusted \/ Safe(StatusOf[e])'
  PROVE  Guarded'
<1>1. \A s \in Statuses : Held(s) => Held(s)'
  BY StaysHeld
<1>2. \A s \in Statuses : parked' = s => Watched' \/ Held(s)'
  BY <1>1 DEF Guarded
<1>3. \A e \in Receipts \union Watermarks : e \in Trusted' => Safe(StatusOf[e])'
  BY StaysSafe, KeptIsHeld
<1>4. \A e \in Trusted' : e \in Receipts \union Watermarks
  BY DEF TypeOK, Trusted, Events
<1> QED
  BY <1>2, <1>3, <1>4 DEF Guarded

\* Steps of an actor on the park.
LEMMA ParkSteps ==
  ASSUME TypeOK, Places, Coming, Guarded, TypeOK', Ended => Ended', NEW e \in Receipts,
         Peek(e) \/ Park(e) \/ Recheck(e)
  PROVE  Guarded'
<1> USE Constants, Names
<1>t. /\ pc \in [Parties -> Steps] /\ acked \subseteq Events
      /\ e \in Parties /\ e \in Actors /\ e # Creator /\ StatusOf[e] \in Statuses
  BY DEF TypeOK
<1>1. carry' = carry /\ row' = row /\ carry[e] = None /\ ~Live(e)
  BY <1>t DEF Peek, Park, Recheck, Live, Places
<1>2. \A b \in Parties : b # e => pc'[b] = pc[b]
  BY <1>t, Going, Finishing DEF Peek, Park, Recheck
<1>3. \A b \in Receipts : b # e => pc'[b] = pc[b] /\ (Live(b) => Live(b)')
  BY <1>1, <1>2 DEF Live
<1>4. lost \subseteq lost'
  BY DEF Peek, Park, Recheck
<1>5. \A t \in Statuses : Kept(t) => Held(t)'
  <2>1. \A t \in Statuses : Kept(t) => Kept(t)'
    BY <1>1, <1>3, <1>4 DEF Kept
  <2> QED
    BY <2>1, KeptIsHeld
<1>6. CASE Peek(e)
  <2>1. parked' = parked /\ pc[e] = "get"
    BY <1>6 DEF Peek
  <2>2. CASE parked # None /\ Covers(parked, StatusOf[e])
    <3>1. Finish(e) /\ pc'[e] = "idle" /\ \A b \in acked' : b \in acked \/ b = e
      BY <1>6, <2>2, <1>t, Finishing DEF Peek
    <3>2. parked \in Statuses
      BY <2>2 DEF TypeOK
    <3>3. OnItsWay(parked)'
      BY <2>1 DEF OnItsWay
    <3>4. Safe(StatusOf[e])'
      BY <3>2, <2>1, <2>2, <1>t, KeptIsHeld DEF OnItsWay
    <3>5. \A t \in Statuses : OnItsWay(t) => Safe(t)'
      <4>1. \A t \in Statuses : OnItsWay(t) => OnItsWay(t)' \/ t = StatusOf[e]
        BY <1>3, <2>1 DEF OnItsWay
      <4> QED
        BY <4>1, <3>4, KeptIsHeld
    <3>6. Watched => Watched'
      <4>1. pc'[Creator] = pc[Creator]
        BY <1>2, <1>t
      <4> QED
        BY <1>1, <1>3, <2>1, <4>1 DEF Watched
    <3>7. \A b \in Receipts \union Watermarks : b \in Trusted' => b \in Trusted \/ Safe(StatusOf[b])'
      BY <1>1, <1>3, <3>1, <3>4 DEF Trusted
    <3> QED
      BY <1>5, <2>1, <3>5, <3>6, <3>7, StaysGuarded
  <2>3. CASE ~(parked # None /\ Covers(parked, StatusOf[e]))
    <3>1. Goto(e, "set") /\ pc'[e] = "set" /\ acked' = acked
      BY <1>6, <2>3, <1>t, Going DEF Peek
    <3>2. \A t \in Statuses : OnItsWay(t) => OnItsWay(t)'
      BY <1>3, <2>1, <3>1 DEF OnItsWay
    <3>3. Watched => Watched'
      <4>1. pc'[Creator] = pc[Creator]
        BY <1>2, <1>t
      <4> QED
        BY <1>1, <1>3, <2>1, <4>1 DEF Watched
    <3>4. \A b \in Receipts \union Watermarks : b \in Trusted' => b \in Trusted
      BY <1>1, <1>3, <3>1 DEF Trusted
    <3> QED
      BY <1>5, <2>1, <3>2, <3>3, <3>4, KeptIsHeld, StaysGuarded
  <2> QED
    BY <2>2, <2>3
<1>7. CASE Park(e)
  <2>1. parked' = StatusOf[e] /\ acked' = acked /\ pc'[e] = "check"
    BY <1>7, <1>t, Going DEF Park
  <2>2. Watched'
    BY <2>1 DEF Watched
  <2>3. Safe(StatusOf[e])'
    BY <2>1, <1>t, KeptIsHeld DEF OnItsWay
  <2>4. \A t \in Statuses : OnItsWay(t) => Safe(t)'
    <3>1. ASSUME NEW t \in Statuses, parked = t PROVE Safe(t)'
      <4>1. CASE Covers(StatusOf[e], t)
        BY <4>1, <2>1, <1>t, KeptIsHeld DEF OnItsWay
      <4>2. CASE ~Covers(StatusOf[e], t)
        <5>1. t \in lost'
          BY <1>7, <3>1, <4>2 DEF Park
        <5>2. Kept(t)'
          BY <5>1 DEF Kept
        <5> QED
          BY <5>2, KeptIsHeld
      <4> QED
        BY <4>1, <4>2
    <3>2. \A t \in Statuses : OnItsWay(t) => parked = t \/ OnItsWay(t)' \/ t = StatusOf[e]
      BY <1>3, <2>1 DEF OnItsWay
    <3> QED
      BY <3>1, <3>2, <2>3, KeptIsHeld
  <2>5. \A b \in Receipts \union Watermarks : b \in Trusted' => b \in Trusted \/ Safe(StatusOf[b])'
    BY <1>1, <1>3, <2>1, <2>3 DEF Trusted
  <2> QED
    BY <1>5, <2>2, <2>4, <2>5, StaysGuarded
<1>8. CASE Recheck(e)
  <2>1. parked' = parked /\ pc[e] = "check"
    BY <1>8 DEF Recheck
  <2>2. \A t \in Statuses : OnItsWay(t) => OnItsWay(t)'
    BY <1>3, <2>1 DEF OnItsWay
  <2>3. Watched => Watched'
    <3>1. pc'[Creator] = pc[Creator]
      BY <1>2, <1>t
    <3>2. row = None \/ pc'[e] = "getdel"
      BY <1>8, <1>t, Going DEF Recheck
    <3> QED
      BY <1>1, <1>3, <2>1, <3>1, <3>2 DEF Watched
  <2>4. acked' \subseteq acked \union {e}
    BY <1>8, <1>t, Finishing DEF Recheck
  <2>5. \A b \in Receipts \union Watermarks : b \in Trusted' => b \in Trusted
    BY <1>1, <1>3, <2>1, <2>4 DEF Trusted
  <2> QED
    BY <1>5, <2>1, <2>2, <2>3, <2>5, KeptIsHeld, StaysGuarded
<1> QED
  BY <1>6, <1>7, <1>8

\* Arrivals of a receipt.
LEMMA ReceiveSteps ==
  ASSUME TypeOK, Places, Coming, Guarded, TypeOK', Ended => Ended', NEW e \in Receipts,
         Receive(e)
  PROVE  Guarded'
<1> USE Constants, Names
<1>t. /\ pc \in [Parties -> Steps] /\ acked \subseteq Events
      /\ e \in Parties /\ e \in Actors /\ e # Creator /\ StatusOf[e] \in Statuses
      /\ pc[e] \in {"idle", "owed"}
  BY DEF TypeOK, Receive, ReceiveKnown, ReceiveUnknown, Arrives
<1>1. /\ carry' = carry /\ row' = row /\ parked' = parked /\ lost' = lost
      /\ carry[e] = None
  BY <1>t DEF Receive, ReceiveKnown, ReceiveUnknown, Places
<1>2. \A b \in Parties : b # e => pc'[b] = pc[b]
  BY <1>t, Going, Finishing DEF Receive, ReceiveKnown, ReceiveUnknown
<1>3. \A b \in Receipts : b # e => pc'[b] = pc[b] /\ (Live(b) => Live(b)')
  BY <1>1, <1>2 DEF Live
<1>4. \A t \in Statuses : OnItsWay(t) => OnItsWay(t)'
  BY <1>1, <1>3, <1>t DEF OnItsWay
<1>5. Watched => Watched'
  <2>1. pc'[Creator] = pc[Creator]
    BY <1>2, <1>t
  <2> QED
    BY <1>1, <1>3, <1>t, <2>1 DEF Watched
<1>6. \A t \in Statuses : Kept(t) => Kept(t)' \/ t = StatusOf[e]
  BY <1>1, <1>3 DEF Kept
<1>7. CASE ReceiveKnown(e)
  <2>1. CASE StatusWinsOver(StatusOf[e], row)
    <3>1. pc'[e] = "cas" /\ acked' = acked
      BY <1>7, <2>1, <1>t, Going DEF ReceiveKnown
    <3>2. Kept(StatusOf[e])'
      BY <1>1, <3>1 DEF Kept, Live
    <3>3. \A b \in Receipts \union Watermarks : b \in Trusted' => b \in Trusted
      BY <1>1, <1>3, <3>1 DEF Trusted
    <3> QED
      BY <1>1, <1>4, <1>5, <1>6, <3>2, <3>3, KeptIsHeld, StaysGuarded
  <2>2. CASE ~StatusWinsOver(StatusOf[e], row)
    <3>1. pc'[e] = "idle" /\ \A b \in acked' : b \in acked \/ b = e
      BY <1>7, <2>2, <1>t, Finishing DEF ReceiveKnown
    <3>2. row \in Statuses /\ Covers(row, StatusOf[e])
      BY <1>7, <2>2 DEF ReceiveKnown, TypeOK, Covers
    <3>3. Kept(row)'
      BY <1>1 DEF Kept
    <3>4. Held(StatusOf[e])' /\ Safe(StatusOf[e])'
      <4>1. \A s \in Statuses : row = s => Kept(s)'
        BY <1>1 DEF Kept
      <4> QED
        BY <4>1, <3>2, <1>t, KeptIsHeld
    <3>5. \A t \in Statuses : Kept(t) => Held(t)'
      BY <1>6, <3>4, KeptIsHeld
    <3>6. \A b \in Receipts \union Watermarks : b \in Trusted' => b \in Trusted \/ Safe(StatusOf[b])'
      BY <1>1, <1>3, <3>1, <3>4 DEF Trusted
    <3> QED
      BY <1>1, <1>4, <1>5, <3>5, <3>6, KeptIsHeld, StaysGuarded
  <2> QED
    BY <2>1, <2>2
<1>8. CASE ReceiveUnknown(e)
  <2>1. pc'[e] \in {"get", "set"} /\ acked' = acked /\ row' = None
    BY <1>8, <1>t, Going DEF ReceiveUnknown
  <2>2. Watched'
    BY <2>1 DEF Watched
  <2>3. OnItsWay(StatusOf[e])'
    BY <2>1 DEF OnItsWay
  <2>4. \A t \in Statuses : Kept(t) \/ OnItsWay(t) => Safe(t)'
    BY <1>4, <1>6, <2>3, KeptIsHeld
  <2>5. \A b \in Receipts \union Watermarks : b \in Trusted' => b \in Trusted
    BY <1>1, <1>3, <2>1 DEF Trusted
  <2>6. \A b \in Receipts \union Watermarks : b \in Trusted' => Safe(StatusOf[b])'
    BY <2>4, <2>5, StaysSafe
  <2>7. \A b \in Trusted' : b \in Receipts \union Watermarks
    BY DEF TypeOK, Trusted, Events
  <2> QED
    BY <2>2, <2>6, <2>7 DEF Guarded
<1> QED
  BY <1>7, <1>8 DEF Receive

\* The drain and the pinned write.
LEMMA DrainSteps ==
  ASSUME TypeOK, Places, Coming, Guarded, TypeOK', Ended => Ended', NEW a \in Actors,
         Drain(a)
  PROVE  Guarded'
<1> USE Constants, Names
<1>t. /\ pc \in [Parties -> Steps] /\ acked \subseteq Events /\ a \in Parties
      /\ carry \in [Actors -> Statuses \union {None}]
      /\ pin \in [Actors -> Statuses \union {None}]
      /\ row \in Statuses \union {None} /\ parked \in Statuses \union {None}
  BY DEF TypeOK
<1>1. \A b \in Parties : b # a => pc'[b] = pc[b]
  BY <1>t, Going, Finishing DEF Drain, GetDel, Reread, Write
<1>2. \A b \in Actors : b # a => carry'[b] = carry[b]
  BY <1>t, Releasing DEF Drain, GetDel, Reread, Write
<1>3. \A b \in Receipts : b # a => pc'[b] = pc[b] /\ (Live(b) => Live(b)')
  BY <1>1, <1>2 DEF Live
<1>4. lost \subseteq lost'
  BY DEF Drain, GetDel, Reread, Write
<1>c. a \notin Receipts => a = Creator
  OBVIOUS
<1>5. CASE GetDel(a)
  <2>1. /\ parked' = None /\ carry' = [carry EXCEPT ![a] = parked] /\ row' = row
        /\ pc[a] = "getdel"
    BY <1>5 DEF GetDel
  <2>2. carry'[a] = parked /\ carry[a] = None
    <3>1. carry[a] = None
      BY <2>1 DEF Places
    <3> QED
      BY <2>1, <3>1, <1>t
  <2>3. \A t \in Statuses : Kept(t) => Kept(t)'
    <3>1. a \in Receipts => ~Live(a)
      BY <2>1 DEF Live
    <3> QED
      BY <1>2, <1>3, <1>4, <2>1, <2>2, <3>1 DEF Kept
  <2>4. \A t \in Statuses : OnItsWay(t) => Kept(t)' \/ OnItsWay(t)'
    BY <1>3, <2>1, <2>2 DEF OnItsWay, Kept
  <2>5. a \in Receipts => a \in Trusted
    BY <2>1 DEF Trusted
  <2>6. \A b \in acked' : b \in acked \/ b = a
    BY <1>5, <1>t, Finishing DEF GetDel
  <2>7. \A b \in Receipts \union Watermarks : b \in Trusted' => b \in Trusted
    <3>1. Creator \notin Receipts \union Watermarks
      BY DEF Events
    <3> QED
      BY <1>2, <1>3, <2>5, <2>6, <3>1, <1>c DEF Trusted
  <2> QED
    BY <2>1, <2>3, <2>4, <2>7, KeptIsHeld, StaysGuarded
<1>6. CASE Reread(a) \/ Write(a)
  <2>1. parked' = parked /\ pc[a] \in {"read", "cas"}
    BY <1>6 DEF Reread, Write
  <2>2. Applying(a) \in Statuses
    BY <2>1, <1>t DEF Applying, Places
  <2>3. Watched => Watched'
    <3>1. row # None => row' # None
      BY <1>6, <2>2 DEF Reread, Write
    <3>2. row' # None => row # None
      BY <1>6, <2>2 DEF Reread, Write, Places
    <3>3. a = Creator \/ pc'[Creator] = pc[Creator]
      BY <1>1
    <3> QED
      BY <1>3, <2>1, <3>2, <3>3 DEF Watched
  <2>4. \A t \in Statuses : OnItsWay(t) => OnItsWay(t)'
    BY <1>3, <2>1 DEF OnItsWay
  <2>5. ASSUME row' = row, carry' = carry, acked' = acked, pc'[a] \in {"read", "cas"}
        PROVE  Guarded'
    <3>1. a \in Receipts => (Live(a) => Live(a)')
      BY <2>1, <2>5 DEF Live
    <3>2. \A t \in Statuses : Kept(t) => Kept(t)'
      BY <1>3, <1>4, <2>5, <3>1 DEF Kept
    <3>3. \A b \in Receipts \union Watermarks : b \in Trusted' => b \in Trusted
      BY <1>3, <2>1, <2>5 DEF Trusted
    <3> QED
      BY <2>1, <2>3, <2>4, <3>2, <3>3, KeptIsHeld, StaysGuarded
  <2>6. ASSUME NEW s \in Statuses, s = Applying(a), Finish(a), Release(a), Held(s)',
               \A t \in Statuses : t = row => Held(t)'
        PROVE  Guarded'
    <3>1. carry'[a] = None
      BY <2>6, <1>t, Releasing
    <3>2. Safe(s)'
      BY <2>6, KeptIsHeld
    <3>3. carry[a] # None => carry[a] = s
      BY <2>6 DEF Applying
    <3>4. carry[a] = None => StatusOf[a] = s
      BY <2>6 DEF Applying
    <3>5. a \in Receipts /\ Live(a) => StatusOf[a] = s
      BY <2>1, <3>4 DEF Live
    <3>6. \A t \in Statuses : Kept(t) => Held(t)'
      <4>1. \A t \in Statuses : Kept(t) => Kept(t)' \/ t = row \/ t = s
        BY <1>2, <1>3, <1>4, <3>3, <3>5 DEF Kept
      <4> QED
        BY <4>1, <2>6, KeptIsHeld
    <3>7. /\ pc'[a] \in {"idle", "done"}
          /\ \A b \in acked' : b \in acked \/ b = a
      BY <2>6, <1>t, Finishing
    <3>8. \A b \in Receipts \union Watermarks : b \in Trusted' => b \in Trusted \/ Safe(StatusOf[b])'
      <4>1. Creator \notin Receipts \union Watermarks
        BY DEF Events
      <4>2. a \in Receipts => a \in Trusted \/ StatusOf[a] = s
        BY <3>4 DEF Trusted
      <4>3. \A b \in Receipts \union Watermarks : b # a /\ b \in Trusted' => b \in Trusted
        BY <1>2, <1>3, <3>7 DEF Trusted
      <4> QED
        BY <4>1, <4>2, <4>3, <3>2, <1>c
    <3> QED
      BY <2>1, <2>3, <2>4, <3>6, <3>8, KeptIsHeld, StaysGuarded
  <2>7. CASE Reread(a)
    <3>1. CASE row # None /\ StatusWinsOver(Applying(a), row)
      <4>1. row' = row /\ carry' = carry /\ acked' = acked /\ pc'[a] = "cas"
        BY <2>7, <3>1, <1>t, Going DEF Reread
      <4> QED
        BY <4>1, <2>5
    <3>2. CASE ~(row # None /\ StatusWinsOver(Applying(a), row))
      <4>1. PICK s \in Statuses : s = Applying(a)
        BY <2>2
      <4>2. Finish(a) /\ Release(a) /\ row' = row
        BY <2>7, <3>2 DEF Reread
      <4>3. \A t \in Statuses : t = row => Kept(t)'
        BY <4>2 DEF Kept
      <4>4. Held(s)'
        <5>1. CASE row = None
          <6>1. s \in lost'
            BY <5>1, <4>1, <2>7 DEF Reread
          <6> QED
            BY <6>1, KeptIsHeld DEF Kept
        <5>2. CASE row # None
          <6>1. row \in Statuses /\ Covers(row, s)
            BY <5>2, <3>2, <4>1, <1>t DEF Covers
          <6> QED
            BY <6>1, <4>3, KeptIsHeld
        <5> QED
          BY <5>1, <5>2
      <4> QED
        BY <4>1, <4>2, <4>3, <4>4, <2>6, KeptIsHeld
    <3> QED
      BY <3>1, <3>2
  <2>8. CASE Write(a)
    <3>1. CASE row = pin[a]
      <4>1. PICK s \in Statuses : s = Applying(a)
        BY <2>2
      <4>2. Finish(a) /\ Release(a) /\ row' = s
        BY <2>8, <3>1, <4>1 DEF Write
      <4>3. row \in Statuses /\ Covers(s, row)
        <5>1. pin[a] # None /\ StatusWinsOver(s, pin[a])
          BY <2>8, <4>1 DEF Write, Places
        <5> QED
          BY <5>1, <3>1, <1>t, WinsCovers
      <4>4. Kept(s)'
        BY <4>2 DEF Kept
      <4>5. \A t \in Statuses : t = row => Held(t)'
        BY <4>3, <4>4, KeptIsHeld
      <4> QED
        BY <4>1, <4>2, <4>4, <4>5, <2>6, KeptIsHeld
    <3>2. CASE row # pin[a]
      <4>1. row' = row /\ carry' = carry /\ acked' = acked /\ pc'[a] = "read"
        BY <2>8, <3>2, <1>t, Going DEF Write
      <4> QED
        BY <4>1, <2>5
    <3> QED
      BY <3>1, <3>2
  <2> QED
    BY <1>6, <2>7, <2>8
<1> QED
  BY <1>5, <1>6 DEF Drain

\* Failures of a lane.
LEMMA FailSteps ==
  ASSUME TypeOK, Places, Coming, Guarded, TypeOK', Ended => Ended', NEW e \in Receipts,
         LaneFails(e) \/ ParkFails(e)
  PROVE  Guarded'
<1> USE Constants, Names
<1>t. /\ pc \in [Parties -> Steps] /\ acked \subseteq Events
      /\ e \in Parties /\ e \in Actors /\ e # Creator /\ StatusOf[e] \in Statuses
      /\ carry \in [Actors -> Statuses \union {None}]
      /\ pin \in [Actors -> Statuses \union {None}]
  BY DEF TypeOK
<1>1. /\ row' = row /\ parked' = parked /\ lost \subseteq lost' /\ carry'[e] = None
      /\ \A b \in Actors : b # e => carry'[b] = carry[b]
  BY <1>t, Releasing DEF LaneFails, ParkFails
<1>2. \A b \in Parties : b # e => pc'[b] = pc[b]
  BY <1>t, Going, Finishing DEF LaneFails, ParkFails
<1>3. \A b \in Receipts : b # e => pc'[b] = pc[b] /\ (Live(b) => Live(b)')
  BY <1>1, <1>2 DEF Live
<1>4. pc'[Creator] = pc[Creator]
  BY <1>2, <1>t
<1>5. \A t \in Statuses : carry[e] = t => Kept(t)'
  <2>1. carry[e] \in Statuses => carry[e] \in lost'
    <3>1. CASE LaneFails(e)
      BY <3>1 DEF LaneFails, Some
    <3>2. CASE ParkFails(e)
      <4>1. carry[e] # None => pc[e] \in {"read", "cas"}
        BY <1>t DEF Places
      <4> QED
        BY <3>2, <4>1 DEF ParkFails, Some
    <3> QED
      BY <3>1, <3>2
  <2> QED
    BY <2>1 DEF Kept
<1>6. \A t \in Statuses : Kept(t) => Kept(t)' \/ (Live(e) /\ t = StatusOf[e])
  BY <1>1, <1>3, <1>5 DEF Kept
<1>7. CASE LaneFails(e)
  <2>1. pc'[e] = "owed" /\ acked' = acked
    BY <1>7, <1>t, Going DEF LaneFails
  <2>2. Kept(StatusOf[e])'
    BY <2>1 DEF Kept, Live
  <2>3. \A t \in Statuses : OnItsWay(t) => OnItsWay(t)' \/ t = StatusOf[e]
    BY <1>1, <1>3 DEF OnItsWay
  <2>4. \A s \in Statuses : parked' = s => Watched' \/ Held(s)' \/ (parked = s /\ ~Watched)
    <3>1. Watched => Watched' \/ parked = StatusOf[e]
      BY <1>1, <1>3, <1>4 DEF Watched
    <3> QED
      BY <1>1, <2>2, <3>1, KeptIsHeld
  <2>5. \A b \in Receipts \union Watermarks : b \in Trusted' => b \in Trusted
    BY <1>1, <1>3, <2>1 DEF Trusted
  <2> QED
    BY <1>6, <2>2, <2>3, <2>4, <2>5, KeptIsHeld, StaysGuarded
<1>8. CASE ParkFails(e)
  <2>1. pc'[e] = "idle" /\ \A b \in acked' : b \in acked \/ b = e
    BY <1>8, <1>t, Finishing DEF ParkFails
  <2>2. ~Live(e)
    <3>1. carry[e] # None => pc[e] \in {"read", "cas"}
      BY <1>t DEF Places
    <3> QED
      BY <1>8, <3>1 DEF ParkFails, Live
  <2>3. pc[e] \in {"get", "set"} => Kept(StatusOf[e])'
    BY <1>8 DEF ParkFails, Kept
  <2>4. pc[e] \in {"check", "getdel"} => \A s \in Statuses : parked = s => Kept(s)'
    BY <1>8 DEF ParkFails, Kept, Some
  <2>5. \A t \in Statuses : OnItsWay(t) => OnItsWay(t)' \/ Kept(t)'
    BY <1>1, <1>3, <2>3 DEF OnItsWay
  <2>6. \A s \in Statuses : parked' = s => Watched' \/ Held(s)' \/ (parked = s /\ ~Watched)
    <3>1. Watched => Watched' \/ pc[e] \in {"check", "getdel"}
      BY <1>1, <1>3, <1>4 DEF Watched
    <3> QED
      BY <1>1, <2>4, <3>1, KeptIsHeld
  <2>7. e \in Trusted \/ Safe(StatusOf[e])'
    BY <1>8, <2>3, KeptIsHeld DEF ParkFails, Trusted
  <2>8. \A b \in Receipts \union Watermarks : b \in Trusted' => b \in Trusted \/ Safe(StatusOf[b])'
    BY <1>1, <1>3, <2>1, <2>7 DEF Trusted
  <2> QED
    BY <1>6, <2>2, <2>5, <2>6, <2>8, KeptIsHeld, StaysGuarded
<1> QED
  BY <1>7, <1>8

\* Watermarks.
LEMMA BelowCovers ==
  ASSUME NEW w \in Watermarks, NEW s \in Statuses
  PROVE  /\ s \notin Below(w) => Covers(s, StatusOf[w])
         /\ s \in Below(w) => Covers(StatusOf[w], s)
BY Constants, Ranks DEF Below, Covers, StatusWinsOver, Statuses

LEMMA MarkSteps ==
  ASSUME TypeOK, Places, Coming, Guarded, TypeOK', Ended => Ended', NEW w \in Watermarks,
         MarkFind(w) \/ MarkWrite(w) \/ MarkFails(w)
  PROVE  Guarded'
<1> USE Constants, Names
<1>t. /\ pc \in [Parties -> Steps] /\ acked \subseteq Events
      /\ row \in Statuses \union {None} /\ StatusOf[w] \in Statuses
      /\ w \in Parties /\ w \in Events /\ w # Creator /\ w \notin Receipts
  BY DEF TypeOK, Events, Parties
<1>1. carry' = carry /\ parked' = parked /\ lost' = lost
  BY DEF MarkFind, MarkWrite, MarkFails
<1>2. /\ \A b \in Parties : b # w => pc'[b] = pc[b]
      /\ \A b \in acked' : b \in acked \/ b = w
  BY <1>t, Going, Finishing DEF MarkFind, MarkWrite, MarkFails
<1>3. \A b \in Receipts : pc'[b] = pc[b] /\ (Live(b) => Live(b)')
  BY <1>1, <1>2, <1>t DEF Live
<1>4. pc'[Creator] = pc[Creator]
  BY <1>2, <1>t
<1>5. \A t \in Statuses : OnItsWay(t) => OnItsWay(t)'
  BY <1>1, <1>3 DEF OnItsWay
<1>6. \A t \in Statuses : Kept(t) => Kept(t)' \/ t = row
  BY <1>1, <1>3 DEF Kept
<1>7. CASE row = None /\ MarkWrite(w)
  <2>1. Ended'
    BY <1>7 DEF Coming, MarkWrite
  <2> QED
    BY <2>1 DEF Guarded, Held, Safe
<1>8. CASE row # None /\ (MarkFind(w) \/ MarkWrite(w))
  <2>1. row' # None /\ row' \in Statuses
    BY <1>8, <1>t DEF MarkFind, MarkWrite
  <2>3. Covers(row', row)
    BY <1>8, <1>t, CoversSelf, BelowCovers DEF MarkFind, MarkWrite
  <2>4. w \in acked' => w \in acked \/ Covers(row', StatusOf[w])
    <3>1. CASE MarkFind(w)
      BY <1>8, <1>t, <3>1, BelowCovers DEF MarkFind
    <3>2. CASE MarkWrite(w)
      BY <1>8, <1>t, <3>2, CoversSelf, BelowCovers DEF MarkWrite
    <3> QED
      BY <1>8, <3>1, <3>2
  <2>5. \A s \in Statuses : Covers(row', s) => Held(s)' /\ Safe(s)'
    <3>1. PICK r \in Statuses : r = row'
      BY <2>1
    <3>2. Kept(r)'
      BY <3>1 DEF Kept
    <3> QED
      BY <3>1, <3>2, KeptIsHeld
  <2>6. \A t \in Statuses : Kept(t) => Held(t)'
    BY <1>6, <2>3, <2>5, KeptIsHeld
  <2>7. Watched => Watched'
    BY <1>1, <1>3, <1>4, <1>8 DEF Watched
  <2>8. \A b \in Receipts \union Watermarks : b \in Trusted' => b \in Trusted \/ Safe(StatusOf[b])'
    <3>1. w \in Trusted' => w \in acked'
      BY <1>t DEF Trusted
    <3>2. \A b \in Receipts \union Watermarks : b # w /\ b \in Trusted' => b \in Trusted
      BY <1>1, <1>2, <1>3 DEF Trusted
    <3> QED
      BY <1>t, <2>4, <2>5, <3>1, <3>2 DEF Trusted
  <2> QED
    BY <1>1, <1>5, <2>6, <2>7, <2>8, KeptIsHeld, StaysGuarded
<1>9. CASE MarkFails(w)
  <2>1. row' = row /\ acked' = acked
    BY <1>9 DEF MarkFails
  <2>2. \A t \in Statuses : Kept(t) => Held(t)'
    <3>1. \A t \in Statuses : Kept(t) => Kept(t)'
      BY <1>1, <1>3, <2>1 DEF Kept
    <3> QED
      BY <3>1, KeptIsHeld
  <2>3. Watched => Watched'
    BY <1>1, <1>3, <1>4, <2>1 DEF Watched
  <2>4. \A b \in Receipts \union Watermarks : b \in Trusted' => b \in Trusted
    BY <1>1, <1>3, <1>t, <2>1 DEF Trusted
  <2> QED
    BY <1>1, <1>5, <2>2, <2>3, <2>4, KeptIsHeld, StaysGuarded
<1> QED
  BY <1>7, <1>8, <1>9 DEF MarkFind

\* The create path and its drain, up to the write.
LEMMA CreatorSteps ==
  ASSUME TypeOK, Places, Coming, Guarded, TypeOK', Ended => Ended',
         \/ CreateRow \/ InsertInTx \/ CommitTx \/ AbortTx
         \/ Lookup \/ DrainSkipped \/ DrainThrows \/ Expire
  PROVE  Guarded'
<1> USE Constants, Names
<1>t. /\ pc \in [Parties -> Steps] /\ Creator \in Parties /\ Creator \in Actors
      /\ carry \in [Actors -> Statuses \union {None}]
      /\ pin \in [Actors -> Statuses \union {None}]
      /\ parked \in Statuses \union {None}
  BY DEF TypeOK
<1>1. acked' = acked /\ lost \subseteq lost'
  BY DEF CreateRow, InsertInTx, CommitTx, AbortTx, Lookup, DrainSkipped, DrainThrows, Expire
<1>2. \A b \in Actors : b # Creator => carry'[b] = carry[b]
  BY <1>t, Releasing
  DEF CreateRow, InsertInTx, CommitTx, AbortTx, Lookup, DrainSkipped, DrainThrows, Expire
<1>3. \A b \in Parties : b # Creator => pc'[b] = pc[b]
  BY <1>t, Going
  DEF CreateRow, InsertInTx, CommitTx, AbortTx, Lookup, DrainSkipped, DrainThrows, Expire
<1>4. \A b \in Receipts : pc'[b] = pc[b] /\ carry'[b] = carry[b] /\ (Live(b) => Live(b)')
  <2>1. \A b \in Receipts : b # Creator /\ b \in Parties /\ b \in Actors
    BY DEF Events
  <2> QED
    BY <1>2, <1>3, <2>1 DEF Live
<1>5. row' = row \/ row = None
  BY DEF Coming, CreateRow, InsertInTx, CommitTx, AbortTx, Lookup, DrainSkipped, DrainThrows, Expire
<1>6. \A t \in Statuses : carry[Creator] = t => Kept(t)'
  <2>1. carry'[Creator] = carry[Creator] \/ carry[Creator] \in lost'
    BY DEF CreateRow, InsertInTx, CommitTx, AbortTx, Lookup, DrainSkipped, DrainThrows, Expire
  <2> QED
    BY <1>t, <2>1 DEF Kept
<1>7. \A t \in Statuses : Kept(t) => Held(t)'
  <2>1. \A t \in Statuses : Kept(t) => Kept(t)'
    BY <1>1, <1>2, <1>4, <1>5, <1>6 DEF Kept
  <2> QED
    BY <2>1, KeptIsHeld
<1>8. parked' = parked \/ (parked' = None /\ parked \in lost')
  BY DEF CreateRow, InsertInTx, CommitTx, AbortTx, Lookup, DrainSkipped, DrainThrows, Expire
<1>9. \A t \in Statuses : OnItsWay(t) => Safe(t)'
  <2>1. \A t \in Statuses : OnItsWay(t) => OnItsWay(t)' \/ Kept(t)'
    BY <1>4, <1>8 DEF OnItsWay, Kept
  <2> QED
    BY <2>1, KeptIsHeld
<1>10. \A b \in Receipts \union Watermarks : b \in Trusted' => b \in Trusted
  BY <1>1, <1>4 DEF Trusted
<1>11. \A s \in Statuses : parked' = s => Watched' \/ Held(s)' \/ (parked = s /\ ~Watched)
  <2>1. CASE parked' # parked
    BY <1>8, <2>1
  <2>2. CASE parked \in lost'
    <3>1. \A s \in Statuses : parked = s => Kept(s)'
      BY <2>2 DEF Kept
    <3> QED
      BY <1>8, <3>1, KeptIsHeld
  <2>3. CASE parked' = parked /\ pc'[Creator] \in {"lookup", "getdel"}
    BY <2>3 DEF Watched
  <2>4. CASE /\ parked' = parked /\ parked \notin lost' /\ parked # None
             /\ pc'[Creator] \notin {"lookup", "getdel"}
    <3>1. pc[Creator] \notin {"lookup", "getdel"}
      BY <2>4, <1>t, Going
      DEF CreateRow, InsertInTx, CommitTx, AbortTx, Lookup, DrainSkipped, DrainThrows, Expire, Some
    <3>2. row' = row
      BY <2>4, <3>1, <1>t, Going
      DEF CreateRow, InsertInTx, CommitTx, AbortTx, Lookup, DrainSkipped, DrainThrows, Expire, Some
    <3>3. Watched => Watched'
      BY <1>4, <2>4, <3>1, <3>2 DEF Watched
    <3> QED
      BY <2>4, <3>3
  <2> QED
    BY <1>8, <2>1, <2>2, <2>3, <2>4
<1> QED
  BY <1>7, <1>9, <1>10, <1>11, StaysGuarded

LEMMA NextGuarded == IInv /\ [Next]_vars => Guarded'
<1> SUFFICES ASSUME IInv, [Next]_vars PROVE Guarded'
  OBVIOUS
<1>1. /\ TypeOK /\ Places /\ Coming /\ Guarded
      /\ TypeOK' /\ (Ended => Ended')
  BY NextTypes, NextComing DEF IInv
<1>2. ASSUME NEW e \in Receipts, Receive(e) PROVE Guarded'
  BY <1>1, <1>2, ReceiveSteps
<1>3. ASSUME NEW e \in Receipts, Lane(e) PROVE Guarded'
  BY <1>1, <1>3, ParkSteps, DrainSteps, Constants DEF Lane
<1>4. ASSUME NEW e \in Receipts, LaneFails(e) \/ ParkFails(e) PROVE Guarded'
  BY <1>1, <1>4, FailSteps
<1>5. ASSUME NEW w \in Watermarks, MarkFind(w) \/ MarkWrite(w) \/ MarkFails(w) PROVE Guarded'
  BY <1>1, <1>5, MarkSteps
<1>6. ASSUME \/ CreateRow \/ InsertInTx \/ CommitTx \/ AbortTx
             \/ Lookup \/ DrainSkipped \/ DrainThrows \/ Expire
      PROVE  Guarded'
  BY <1>1, <1>6, CreatorSteps
<1>7. ASSUME Drain(Creator) PROVE Guarded'
  BY <1>1, <1>7, DrainSteps, Constants
<1>8. ASSUME Delete PROVE Guarded'
  <2>1. Ended'
    BY <1>1, <1>8 DEF Coming, Delete, Ended
  <2> QED
    BY <2>1 DEF Guarded, Held, Safe
<1>9. ASSUME \/ \E s \in reports : ApplyReport(s) \/ DropReport(s)
             \/ Sweep \/ UNCHANGED vars
      PROVE  Guarded'
  <2>1. /\ row' = row /\ parked' = parked /\ echo' = echo /\ tx' = tx /\ pc' = pc
        /\ carry' = carry /\ acked' = acked /\ lost' = lost
    BY <1>9 DEF ApplyReport, DropReport, Sweep, vars
  <2> QED
    BY <1>1, <2>1 DEF Guarded, Held, Safe, Kept, OnItsWay, Live, Watched, Trusted, Ended
<1> QED
  BY <1>2, <1>3, <1>4, <1>5, <1>6, <1>7, <1>8, <1>9 DEF Next

LEMMA InitIInv == Init => IInv
<1> SUFFICES ASSUME Init PROVE IInv
  OBVIOUS
<1>1. TypeOK /\ Places /\ Coming
  BY InitTypes
<1>2. parked = None /\ acked = {}
  BY DEF Init
<1>3. \A e \in Receipts : e \in Actors /\ e \in Events /\ pc[e] = "idle" /\ carry[e] = None
  BY Constants DEF Init, Events, Parties
<1>4. Trusted = {}
  BY <1>2, <1>3 DEF Trusted
<1> QED
  BY <1>1, <1>2, <1>4, Constants DEF IInv, Guarded

LEMMA NextIInv == IInv /\ [Next]_vars => IInv'
BY NextTypes, NextPlaces, NextComing, NextGuarded DEF IInv

-----------------------------------------------------------------------------
(* The theorems.                                                           *)

\* The variables keep their types, whatever lanes, creator, watermarks and
\* sweep do (ingest.ts, idempotent-create.ts, broadcast-delivery-drift.ts).
THEOREM TypeCorrect == Spec => []TypeOK
<1>1. Init => TypeOK /\ Places
  BY InitTypes
<1>2. TypeOK /\ Places /\ [Next]_vars => (TypeOK /\ Places)'
  BY NextTypes, NextPlaces
<1> QED
  BY <1>1, <1>2, PTL DEF Spec

\* For any number of receipts, watermarks, failures and repeats: once all is
\* quiet, no event answered with a 200 is above both the row and what was
\* dropped in the ways the specification lists (parkUnknownWamidStatus,
\* drainParkIfRowCommitted, drainParkedStatus and the pinned writes).
THEOREM ReceiptsKept == Spec => []ReceiptKept
<1>1. Init => IInv
  BY InitIInv
<1>2. IInv /\ [Next]_vars => IInv'
  BY NextIInv
<1>3. IInv => ReceiptKept
  <2> SUFFICES ASSUME IInv, Quiet, row # None, NEW e \in acked
               PROVE  \E s \in lost \union {row} : Covers(s, StatusOf[e])
    BY DEF ReceiptKept
  <2> USE Constants
  <2>t. /\ TypeOK /\ Places /\ Guarded /\ e \in Events /\ StatusOf[e] \in Statuses
        /\ row \in Statuses /\ lost \subseteq Statuses
    BY DEF IInv, TypeOK
  <2>1. \A b \in Receipts : pc[b] = "idle" /\ b \in Actors
    BY DEF Quiet
  <2>2. \A a \in Actors : carry[a] = None
    BY <2>t, <2>1 DEF Quiet, Places
  <2>3. \A t \in Statuses : Kept(t) => t \in lost \union {row}
    BY <2>1, <2>2 DEF Kept, Live
  <2>4. ~Ended /\ ~Watched
    BY <2>1 DEF Ended, Watched, Quiet
  <2>5. \A t \in Statuses : OnItsWay(t) => parked = t
    BY <2>1 DEF OnItsWay
  <2>6. Safe(StatusOf[e])
    BY <2>t DEF Guarded, Trusted
  <2>7. PICK t \in Statuses : (Kept(t) \/ OnItsWay(t)) /\ Covers(t, StatusOf[e])
    BY <2>4, <2>6 DEF Safe
  <2>8. CASE Kept(t)
    BY <2>3, <2>7, <2>8
  <2>9. CASE OnItsWay(t)
    <3>1. Held(t)
      BY <2>4, <2>5, <2>9, <2>t DEF Guarded
    <3>2. PICK u \in Statuses : Kept(u) /\ Covers(u, t)
      BY <2>4, <3>1 DEF Held
    <3>3. Covers(u, StatusOf[e])
      BY <2>t, <2>7, <3>2, CoversMore
    <3> QED
      BY <2>3, <3>2, <3>3
  <2> QED
    BY <2>7, <2>8, <2>9
<1> QED
  BY <1>1, <1>2, <1>3, PTL DEF Spec

\* For any number of receipts and watermarks, the message and the recipient of
\* the campaign only climb: nothing replaces a failure, nothing takes back a
\* confirmed delivery (statusWinsOver, deliveryWinsOver, the pinned writes).
THEOREM ForwardAlways == Spec => StatusForward
<1> DEFINE Forward ==
      /\ row' # row /\ None \notin {row, row'} => StatusWinsOver(row', row)
      /\ recip' # recip => DeliveryWinsOver(recip', recip)
<1>1. Init => TypeOK /\ Places /\ Coming
  BY InitTypes
<1>2. TypeOK /\ Places /\ Coming /\ [Next]_vars => (TypeOK /\ Places /\ Coming)'
  BY NextTypes, NextPlaces, NextComing
<1>3. TypeOK /\ Places /\ Coming /\ [Next]_vars => [Forward]_<<row, recip>>
  <2> SUFFICES ASSUME TypeOK, Places, Coming, [Next]_vars PROVE Forward
    OBVIOUS
  <2> USE Constants, Names
  <2>1. recip' # recip => DeliveryWinsOver(recip', recip)
    <3>1. CASE Sweep
      <4>1. recip \in Deliveries
        BY <3>1 DEF Sweep, TypeOK
      <4> QED
        BY <3>1, <4>1 DEF Sweep, Mirrored, DeliveryWinsOver, DeliveryRank, Deliveries
    <3>2. CASE \E s \in reports : ApplyReport(s)
      BY <3>2 DEF ApplyReport
    <3>3. CASE ~Sweep /\ ~(\E s \in reports : ApplyReport(s))
      BY <3>3 DEF Next, Receive, Lane, Drain, vars, ReceiveKnown, ReceiveUnknown, Peek, Park,
         Recheck, GetDel, Reread, Write, LaneFails, ParkFails, Expire, CreateRow, InsertInTx,
         CommitTx, AbortTx, Lookup, DrainSkipped, DrainThrows, Delete, MarkFind, MarkWrite,
         MarkFails, DropReport
    <3> QED
      BY <3>1, <3>2, <3>3
  <2>2. row' # row /\ None \notin {row, row'} => StatusWinsOver(row', row)
    <3> SUFFICES ASSUME row' # row, row # None, row' # None PROVE StatusWinsOver(row', row)
      OBVIOUS
    <3>1. CASE \E a \in Actors : Write(a)
      BY <3>1 DEF Write, Places
    <3>2. CASE \E w \in Watermarks : MarkWrite(w)
      BY <3>2, Ranks DEF MarkWrite, Below, StatusWinsOver
    <3>3. CASE CreateRow \/ CommitTx
      BY <3>3 DEF CreateRow, CommitTx, Coming
    <3>4. CASE /\ \A a \in Actors : ~Write(a)
               /\ \A w \in Watermarks : ~MarkWrite(w)
               /\ ~CreateRow /\ ~CommitTx
      BY <3>4 DEF Next, Receive, Lane, Drain, vars, ReceiveKnown, ReceiveUnknown, Peek, Park,
         Recheck, GetDel, Reread, LaneFails, ParkFails, Expire, InsertInTx, AbortTx, Lookup,
         DrainSkipped, DrainThrows, Delete, MarkFind, MarkFails, ApplyReport, DropReport, Sweep
    <3> QED
      BY <3>1, <3>2, <3>3, <3>4
  <2> QED
    BY <2>1, <2>2
<1> QED
  BY <1>1, <1>2, <1>3, PTL DEF Spec, StatusForward
=============================================================================
