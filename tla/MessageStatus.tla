---------------------------- MODULE MessageStatus ----------------------------
(***************************************************************************)
(* The delivery status of one outbound message: receipts of the provider   *)
(* ingested on parallel lanes, the park in Redis for a receipt that comes  *)
(* before the Message row, its drain by the create path, watermarks, and   *)
(* the mirror on the campaign's recipient with its drift sweep             *)
(* (src/apps/api/src/lib/providers/ingest.ts,                              *)
(*  src/apps/api/src/lib/messages/idempotent-create.ts,                    *)
(*  src/apps/api/src/lib/sweepers/broadcast-delivery-drift.ts).            *)
(*                                                                         *)
(* The provider has accepted the message; what follows is the race of its  *)
(* receipts with the creation of the row.  Redis, the database and Meta    *)
(* are external: single commands are atomic, any of them may fail, and     *)
(* Meta delivers again what was not answered with a 200.  Events on the    *)
(* bus, failure diagnostics, pricing, identity backfills and the guard  *)
(* against inbound rows are left out.                                      *)
(***************************************************************************)
EXTENDS Integers, FiniteSets

CONSTANTS
  Receipts,     \* status events of the message
  Watermarks,   \* delivered and read watermarks that reach it
  StatusOf,     \* the status each of them carries
  Creator,      \* the path that inserts the row
  None,         \* no row, no parked status, nothing carried
  MaxFaults,    \* bound on crashes, failed calls, expiries and deletions
  MaxRepeats    \* bound on events delivered again after a 200

Statuses == {"sent", "delivered", "read", "failed"}
Deliveries == {"pending", "sent", "held", "delivered", "read",
               "failed_at_send", "undelivered"}
Events == Receipts \union Watermarks
Actors == Receipts \union {Creator}
Parties == Events \union {Creator}

ASSUME ConstantsAssumption ==
  /\ Receipts \intersect Watermarks = {} /\ Creator \notin Events
  /\ StatusOf \in [Events -> Statuses]
  /\ \A w \in Watermarks : StatusOf[w] \in {"delivered", "read"}
  /\ None \notin Statuses \union Deliveries
  /\ MaxFaults \in Nat /\ MaxRepeats \in Nat

VARIABLES
  row,       \* Message.status, None while no row is visible
  recip,     \* BroadcastRecipient.deliveryState, None outside a campaign
  parked,    \* the status under the Redis key of the message
  echo,      \* the row is that of an echo, inserted in a transaction
  tx,        \* that transaction: "none", "open" or "closed"
  pc,        \* what each event and the creator do next
  carry,     \* the parked status an actor took and is applying
  pin,       \* the status an actor read, which its write is pinned to
  retried,   \* drainWithRetry is on its second attempt
  reports,   \* detached writes to the recipient still to run
  acked,     \* events that were answered with a 200
  faults, repeats,
  lost       \* history: statuses that were dropped and that nobody applies

vars == <<row, recip, parked, echo, tx, pc, carry, pin, retried, reports,
          acked, faults, repeats, lost>>

-----------------------------------------------------------------------------
(* The two ladders. *)

Rank(s) == CASE s = "failed" -> -1 [] s = "sent" -> 0
             [] s = "delivered" -> 1 [] s = "read" -> 2

\* A failure is final and beats all else; otherwise only a higher rank wins.
StatusWinsOver(incoming, current) ==
  /\ current # "failed"
  /\ incoming = "failed" \/ Rank(incoming) > Rank(current)

DeliveryRank(d) ==
  CASE d = "pending" -> 0 [] d \in {"sent", "held"} -> 1 [] d = "delivered" -> 2
    [] d = "read" -> 3 [] d \in {"failed_at_send", "undelivered"} -> -1

\* A failure is final here too, but no longer beats what the handset confirmed.
DeliveryWinsOver(next, current) ==
  /\ DeliveryRank(current) >= 0
  /\ IF DeliveryRank(next) < 0 THEN current \notin {"delivered", "read"}
                               ELSE DeliveryRank(next) > DeliveryRank(current)

\* A row at s has nothing to learn from a receipt of t.
Covers(s, t) == ~StatusWinsOver(t, s)

Some(s) == {s} \ {None}

-----------------------------------------------------------------------------
Init ==
  /\ row = None /\ parked = None
  /\ \/ echo = TRUE /\ recip = None
     \/ echo = FALSE /\ recip \in {None, "sent", "held"}
  /\ tx = "none"
  /\ pc = [a \in Parties |-> IF a = Creator THEN "create" ELSE "idle"]
  /\ carry = [a \in Actors |-> None] /\ pin = [a \in Actors |-> None]
  /\ retried = FALSE
  /\ reports = {} /\ acked = {} /\ lost = {}
  /\ faults = 0 /\ repeats = 0

Goto(a, step) == pc' = [pc EXCEPT ![a] = step]

\* The actor is through: a lane answers 200, the creator has drained.
Finish(a) ==
  /\ Goto(a, IF a = Creator THEN "done" ELSE "idle")
  /\ acked' = acked \union ({a} \intersect Events)

\* What the actor is writing: the status it drained, else that of its event.
Applying(a) == IF carry[a] # None THEN carry[a] ELSE StatusOf[a]

Release(a) ==
  /\ carry' = [carry EXCEPT ![a] = None]
  /\ pin' = [pin EXCEPT ![a] = None]

\* The detached mirror of a status to the recipient.  A plain "sent" is not sent on.
Report(s) ==
  reports' = IF recip # None /\ s # "sent" THEN reports \union {s} ELSE reports

Fault == faults < MaxFaults /\ faults' = faults + 1

-----------------------------------------------------------------------------
(* A receipt. *)

\* An event comes for the first time, is owed since the last try was not
\* answered with a 200, or is repeated.
Arrives(e) ==
  /\ pc[e] \in {"idle", "owed"}
  /\ IF pc[e] = "idle" /\ e \in acked
     THEN repeats < MaxRepeats /\ repeats' = repeats + 1
     ELSE UNCHANGED repeats

\* The row is there: mirror the status, then write it if it wins.
ReceiveKnown(e) ==
  /\ Arrives(e)
  /\ row # None
  /\ Report(StatusOf[e])
  /\ IF StatusWinsOver(StatusOf[e], row)
     THEN Goto(e, "cas") /\ pin' = [pin EXCEPT ![e] = row] /\ UNCHANGED acked
     ELSE Finish(e) /\ UNCHANGED pin
  /\ UNCHANGED <<row, recip, parked, echo, tx, carry, retried, faults, lost>>

\* No row yet: park.  A failure is set without looking.
ReceiveUnknown(e) ==
  /\ Arrives(e)
  /\ row = None
  /\ Goto(e, IF StatusOf[e] = "failed" THEN "set" ELSE "get")
  /\ UNCHANGED <<row, recip, parked, echo, tx, carry, pin, retried, reports,
                 acked, faults, lost>>

\* GET: what is parked already stands against a lower status.
Peek(e) ==
  /\ pc[e] = "get"
  /\ IF parked # None /\ Covers(parked, StatusOf[e])
     THEN Finish(e) ELSE Goto(e, "set") /\ UNCHANGED acked
  /\ UNCHANGED <<row, recip, parked, echo, tx, carry, pin, retried, reports,
                 faults, repeats, lost>>

\* SET: between the GET and here another lane may have parked more.
Park(e) ==
  /\ pc[e] = "set"
  /\ parked' = StatusOf[e]
  /\ lost' = IF parked # None /\ ~Covers(StatusOf[e], parked)
             THEN lost \union {parked} ELSE lost
  /\ Goto(e, "check")
  /\ UNCHANGED <<row, recip, echo, tx, carry, pin, retried, reports, acked,
                 faults, repeats>>

\* Mutant: the lane relies on the create path alone.
RecheckNever(e) ==
  /\ pc[e] = "check"
  /\ Finish(e)
  /\ UNCHANGED <<row, recip, parked, echo, tx, carry, pin, retried, reports,
                 faults, repeats, lost>>

\* drainParkIfRowCommitted: the row came while we parked, drain ourselves.
Recheck(e) ==
  /\ pc[e] = "check"
  /\ IF row = None THEN Finish(e) ELSE Goto(e, "getdel") /\ UNCHANGED acked
  /\ UNCHANGED <<row, recip, parked, echo, tx, carry, pin, retried, reports,
                 faults, repeats, lost>>

-----------------------------------------------------------------------------
(* drainParkedStatus, run by a lane or by the creator, and the pinned write  *)
(* it shares with a live receipt.  The loop gives up after four misses; each *)
(* is a status climbed, so a fourth finds a row nothing wins over.           *)

GetDel(a) ==
  /\ pc[a] = "getdel"
  /\ parked' = None
  /\ carry' = [carry EXCEPT ![a] = parked]
  /\ IF parked = None THEN Finish(a) ELSE Goto(a, "read") /\ UNCHANGED acked
  /\ UNCHANGED <<row, recip, echo, tx, pin, retried, reports, faults, repeats, lost>>

\* Read the row before the write, or again after a miss.
Reread(a) ==
  /\ pc[a] = "read"
  /\ IF row # None /\ StatusWinsOver(Applying(a), row)
     THEN /\ Goto(a, "cas")
          /\ pin' = [pin EXCEPT ![a] = row]
          /\ UNCHANGED <<carry, acked, lost>>
     ELSE /\ Finish(a) /\ Release(a)
          /\ lost' = IF row = None THEN lost \union {Applying(a)} ELSE lost
  /\ UNCHANGED <<row, recip, parked, echo, tx, retried, reports, faults, repeats>>

\* Mutant: update by id alone.
WriteUnpinned(a) ==
  /\ pc[a] = "cas"
  /\ row' = Applying(a)
  /\ IF carry[a] # None THEN Report(carry[a]) ELSE UNCHANGED reports
  /\ Finish(a) /\ Release(a)
  /\ UNCHANGED <<recip, parked, echo, tx, retried, faults, repeats, lost>>

\* updateMany pinned to the status read; a miss reads again.
Write(a) ==
  /\ pc[a] = "cas"
  /\ IF row = pin[a]
     THEN /\ row' = Applying(a)
          /\ IF carry[a] # None THEN Report(carry[a]) ELSE UNCHANGED reports
          /\ Finish(a) /\ Release(a)
     ELSE Goto(a, "read") /\ UNCHANGED <<row, carry, pin, reports, acked>>
  /\ UNCHANGED <<recip, parked, echo, tx, retried, faults, repeats, lost>>

-----------------------------------------------------------------------------
(* Faults of a lane. *)

\* A database error or a crash outside the park: no 200, the event is owed.
\* What a crashed drain had taken off the key is gone.
LaneFails(e) ==
  /\ pc[e] \notin {"idle", "owed"}
  /\ Fault
  /\ Goto(e, "owed") /\ Release(e)
  /\ lost' = lost \union Some(carry[e])
  /\ UNCHANGED <<row, recip, parked, echo, tx, retried, reports, acked, repeats>>

\* An error inside the park is swallowed and answered with a 200: lost are the
\* receipt, the parked status nobody drains, or the status just taken.
ParkFails(e) ==
  /\ pc[e] \in {"get", "set", "check", "getdel"} \/ carry[e] # None
  /\ Fault
  /\ Finish(e) /\ Release(e)
  /\ lost' = lost \union (CASE pc[e] \in {"get", "set"} -> {StatusOf[e]}
                            [] pc[e] \in {"check", "getdel"} -> Some(parked)
                            [] OTHER -> Some(carry[e]))
  /\ UNCHANGED <<row, recip, parked, echo, tx, retried, reports, repeats>>

\* The key lives fifteen minutes.
Expire ==
  /\ parked # None
  /\ Fault
  /\ parked' = None
  /\ lost' = lost \union {parked}
  /\ UNCHANGED <<row, recip, echo, tx, pc, carry, pin, retried, reports, acked, repeats>>

-----------------------------------------------------------------------------
(* The create path. *)

\* The insert of a send commits on its own; the drain follows.
CreateRow ==
  /\ ~echo
  /\ pc[Creator] = "create"
  /\ row' = "sent"
  /\ Goto(Creator, "lookup")
  /\ UNCHANGED <<recip, parked, echo, tx, carry, pin, retried, reports, acked,
                 faults, repeats, lost>>

\* The insert of an echo is part of a transaction, and the drain a timer of
\* zero milliseconds that does not wait for its commit.
InsertInTx ==
  /\ echo
  /\ tx = "none" /\ pc[Creator] \in {"create", "done"}
  /\ tx' = "open"
  /\ Goto(Creator, "lookup")
  /\ retried' = FALSE
  /\ UNCHANGED <<row, recip, parked, echo, carry, pin, reports, acked, faults,
                 repeats, lost>>

\* A live echo is "sent", one of the history has the status it earned.  What is
\* parked when the row comes into sight after the timer's GETDEL stays there.
CommitTx ==
  /\ tx = "open"
  /\ tx' = "closed"
  /\ row' \in Statuses
  /\ lost' = IF pc[Creator] \in {"lookup", "getdel"} THEN lost
             ELSE lost \union Some(parked)
  /\ UNCHANGED <<recip, parked, echo, pc, carry, pin, retried, reports, acked,
                 faults, repeats>>

\* The transaction rolls back; the echo is ingested again.
AbortTx ==
  /\ tx = "open"
  /\ Fault
  /\ tx' = "none"
  /\ UNCHANGED <<row, recip, parked, echo, pc, carry, pin, retried, reports,
                 acked, repeats, lost>>

\* The conversation's contact is looked up for the event of the drain.
Lookup ==
  /\ pc[Creator] = "lookup"
  /\ Goto(Creator, "getdel")
  /\ UNCHANGED <<row, recip, parked, echo, tx, carry, pin, retried, reports,
                 acked, faults, repeats, lost>>

\* The drain is skipped: the insert or the lookup failed after the commit and
\* its retry meets the unique index (P2002), which returns the row undrained;
\* or the process crashes; or GETDEL fails, an error drainParkedStatus keeps
\* from drainWithRetry.
DrainSkipped ==
  /\ pc[Creator] \in {"lookup", "getdel"}
  /\ Fault
  /\ Goto(Creator, "done")
  /\ lost' = lost \union Some(parked)
  /\ UNCHANGED <<row, recip, parked, echo, tx, carry, pin, retried, reports,
                 acked, repeats>>

\* The database fails after the GETDEL: one more attempt, which finds the key
\* empty, or nothing more at the second error or in a crash.
DrainThrows ==
  /\ pc[Creator] \in {"read", "cas"}
  /\ Fault
  /\ \/ ~retried /\ retried' = TRUE /\ Goto(Creator, "getdel")
     \/ UNCHANGED retried /\ Goto(Creator, "done")
  /\ Release(Creator)
  /\ lost' = lost \union {carry[Creator]}
  /\ UNCHANGED <<row, recip, parked, echo, tx, reports, acked, repeats>>

\* The conversation is deleted with its messages.
Delete ==
  /\ row # None
  /\ Fault
  /\ row' = None
  /\ UNCHANGED <<recip, parked, echo, tx, pc, carry, pin, retried, reports,
                 acked, repeats, lost>>

-----------------------------------------------------------------------------
(* Watermarks: every message up to a moment is delivered or read. *)

Below(w) == IF StatusOf[w] = "read" THEN {"sent", "delivered"} ELSE {"sent"}

\* Messages below the mark are looked for; one whose row is still to come is
\* not among them, and nothing is kept for it.
MarkFind(w) ==
  /\ Arrives(w)
  /\ row # None
  /\ IF row \in Below(w) THEN Goto(w, "mark") /\ UNCHANGED acked ELSE Finish(w)
  /\ UNCHANGED <<row, recip, parked, echo, tx, carry, pin, retried, reports,
                 faults, lost>>

\* The update repeats the predicate, for what moved since.
MarkWrite(w) ==
  /\ pc[w] = "mark"
  /\ row' = IF row \in Below(w) THEN StatusOf[w] ELSE row
  /\ Finish(w)
  /\ UNCHANGED <<recip, parked, echo, tx, carry, pin, retried, reports, faults,
                 repeats, lost>>

MarkFails(w) ==
  /\ pc[w] = "mark"
  /\ Fault
  /\ Goto(w, "owed")
  /\ UNCHANGED <<row, recip, parked, echo, tx, carry, pin, retried, reports,
                 acked, repeats, lost>>

-----------------------------------------------------------------------------
(* The recipient of the campaign. *)

Mirrored(s) == IF s = "failed" THEN "undelivered" ELSE s

\* The detached read and pinned write, retried after a miss.  States only climb,
\* so the outcome is that of the last read and one step stands for the loop.
ApplyReport(s) ==
  /\ s \in reports
  /\ reports' = reports \ {s}
  /\ recip' = IF DeliveryWinsOver(Mirrored(s), recip) THEN Mirrored(s) ELSE recip
  /\ UNCHANGED <<row, parked, echo, tx, pc, carry, pin, retried, acked, faults,
                 repeats, lost>>

\* A detached write fails or dies with its process: it is logged at most.
DropReport(s) ==
  /\ s \in reports
  /\ reports' = reports \ {s}
  /\ UNCHANGED <<row, recip, parked, echo, tx, pc, carry, pin, retried, acked,
                 faults, repeats, lost>>

\* Mutant: the states a failure may replace are those of a plain send.
SweepIgnoresHeld ==
  /\ \/ row = "read" /\ recip # "read"
     \/ row = "delivered" /\ recip \notin {"delivered", "read"}
     \/ row = "failed" /\ recip \in {"pending", "sent"}
  /\ recip \notin {None, "failed_at_send", "undelivered"}
  /\ recip' = Mirrored(row)
  /\ UNCHANGED <<row, parked, echo, tx, pc, carry, pin, retried, reports, acked,
                 faults, repeats, lost>>

\* The drift sweep promotes the recipient to its Message row's status.
Sweep ==
  /\ \/ row = "read" /\ recip # "read"
     \/ row = "delivered" /\ recip \notin {"delivered", "read"}
     \/ row = "failed" /\ recip \in {"pending", "sent", "held"}
  /\ recip \notin {None, "failed_at_send", "undelivered"}
  /\ recip' = Mirrored(row)
  /\ UNCHANGED <<row, parked, echo, tx, pc, carry, pin, retried, reports, acked,
                 faults, repeats, lost>>

-----------------------------------------------------------------------------
Drain(a) == GetDel(a) \/ Reread(a) \/ Write(a)
Receive(e) == ReceiveKnown(e) \/ ReceiveUnknown(e)
Lane(e) == Peek(e) \/ Park(e) \/ Recheck(e) \/ Drain(e)

Next ==
  \/ \E e \in Receipts : Receive(e) \/ Lane(e) \/ LaneFails(e) \/ ParkFails(e)
  \/ \E w \in Watermarks : MarkFind(w) \/ MarkWrite(w) \/ MarkFails(w)
  \/ CreateRow \/ InsertInTx \/ CommitTx \/ AbortTx
  \/ Lookup \/ Drain(Creator) \/ DrainSkipped \/ DrainThrows
  \/ Expire \/ Delete
  \/ \E s \in reports : ApplyReport(s) \/ DropReport(s)
  \/ Sweep

Spec == Init /\ [][Next]_vars

\* A process runs its lanes, Meta delivers again what it is owed, and the drift
\* sweep runs every six hours; a detached write need not ever run.
Fairness ==
  /\ \A e \in Receipts : WF_vars(Lane(e)) /\ WF_vars(pc[e] = "owed" /\ Receive(e))
  /\ WF_vars(Sweep)

FairSpec == Spec /\ Fairness

-----------------------------------------------------------------------------
Steps == {"idle", "owed", "get", "set", "check", "getdel", "read", "cas", "mark",
          "create", "lookup", "done"}

TypeOK ==
  /\ row \in Statuses \union {None} /\ recip \in Deliveries \union {None}
  /\ parked \in Statuses \union {None}
  /\ echo \in BOOLEAN /\ tx \in {"none", "open", "closed"}
  /\ pc \in [Parties -> Steps]
  /\ carry \in [Actors -> Statuses \union {None}]
  /\ pin \in [Actors -> Statuses \union {None}]
  /\ retried \in BOOLEAN
  /\ reports \subseteq Statuses /\ acked \subseteq Events /\ lost \subseteq Statuses
  /\ faults \in 0..MaxFaults /\ repeats \in 0..MaxRepeats

\* However receipts, drains, watermarks and sweeps interleave, the message and
\* the recipient only climb their ladders: nothing replaces a failure, and
\* nothing takes a delivery the handset confirmed for undelivered
\* (statusWinsOver, deliveryWinsOver, the pinned writes and the sweep's SQL).
StatusForward ==
  [][/\ row' # row /\ None \notin {row, row'} => StatusWinsOver(row', row)
     /\ recip' # recip => DeliveryWinsOver(recip', recip)]_<<row, recip>>

Quiet ==
  /\ pc[Creator] = "done" /\ tx # "open"
  /\ \A e \in Events : pc[e] = "idle"

\* Once all is quiet, the row is at least at the status of every event that was
\* answered with a 200, or at what was dropped with it in one of the ways
\* "lost" lists: an error the park swallows, an expired key, parks that
\* overlap, a drain skipped by a failure or run before its row was committed
\* (parkUnknownWamidStatus, drainParkIfRowCommitted, drainParkedStatus).
ReceiptKept ==
  Quiet /\ row # None =>
    \A e \in acked : \E s \in lost \union {row} : Covers(s, StatusOf[e])

\* In the end the recipient tells what its message does, though the mirror
\* of a status may be lost and may overtake it: read and delivered are shown,
\* and a failure unless the handset had confirmed the delivery (the sweep of
\* broadcast-delivery-drift.ts behind applyBroadcastDeliveryStatus).
DeliveryAgrees ==
  <>[](None \notin {row, recip} =>
         CASE row = "sent" -> recip \in {"sent", "held"}
           [] row \in {"delivered", "read"} -> recip = row
           [] row = "failed" -> recip \in {"undelivered", "delivered", "read"})
=============================================================================
