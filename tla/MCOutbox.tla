------------------------------ MODULE MCOutbox ------------------------------
(***************************************************************************)
(* Instances of Outbox for TLC, and the selection of claimBatch over every *)
(* backlog of five rows and every assignment of them to three workspaces.  *)
(***************************************************************************)
EXTENDS Outbox

OneTeam == [r \in Rows |-> "a"]

Backlogs == SUBSET (1..5)
Assignments == [1..5 -> {"a", "b", "c"}]

Of(S, teamOf, w) == {r \in S : teamOf[r] = w}

Fair(batch, backlog, teamOf) ==
  LET got(w) == Of(batch, teamOf, w)
  IN /\ \A r \in batch, s \in backlog :
          teamOf[s] = teamOf[r] /\ s < r => s \in batch
     /\ \A v, w \in TeamsInWindow(backlog, teamOf) :
          Cardinality(got(v)) + 1 < Cardinality(got(w))
            => Of(backlog, teamOf, v) \subseteq batch

Full(batch, backlog, teamOf) ==
  /\ Cardinality(batch) <= BatchSize
  /\ Cardinality(batch) < BatchSize =>
       \A w \in TeamsInWindow(backlog, teamOf) :
         \/ Of(backlog, teamOf, w) \subseteq batch
         \/ Cardinality(Of(batch, teamOf, w)) = PerTeamCap
  /\ backlog # {} => batch # {}

Cases == Backlogs \X Assignments

\* The backlogs whose claim is unfair, or wasteful, for some owners of their rows.
Unfair == {c[1] : c \in {d \in Cases : ~Fair(ClaimBatch(d[1], d[2]), d[1], d[2])}}
Wasteful == {c[1] : c \in {d \in Cases : ~Full(ClaimBatch(d[1], d[2]), d[1], d[2])}}

\* Whatever is pending beside the claimable rows, and whichever workspaces the
\* rows belong to: a claim takes the rows of a workspace oldest first (the order
\* consumers rely on), and two workspaces seen in its window share it evenly: one
\* gets two rows less than the other only when it has nothing more to give
\* (claimBatch).
FairShare == \A more \in Backlogs : Claimable \union more \notin Unfair

\* Under the same quantifiers: a claim that is not full leaves rows behind only
\* for the cap or the window, and a pending backlog always yields a claim: the
\* loop of a tick, which goes on until a claim is empty, cannot stop early
\* (claimBatch, tick).
WorkConserving == \A more \in Backlogs : Claimable \union more \notin Wasteful
=============================================================================
