---------------------------- MODULE OutboxClaim ----------------------------
(***************************************************************************)
(* The selection made by claimBatch (lib/events/outbox.ts): which pending  *)
(* outbox rows one UPDATE ... RETURNING leases.  A row is named by a       *)
(* natural number that stands for its createdAt, so r < s means that r was *)
(* created before s.                                                       *)
(***************************************************************************)
EXTENDS Naturals, FiniteSets

CONSTANTS
  PerTeamCap,   \* PER_TEAM_BATCH_CAP: rows of one workspace per claim
  BatchSize,    \* the limit the drainer passes
  WindowSize    \* limit * 8: rows looked at to find the workspaces present

ASSUME ClaimAssumption ==
  /\ PerTeamCap \in Nat \ {0}
  /\ BatchSize \in Nat \ {0}
  /\ WindowSize \in Nat \ {0}

Older(S, r) == {s \in S : s < r}

\* The CTE "teams": the workspaces of the WindowSize oldest claimable rows.
TeamsInWindow(C, teamOf) ==
  {teamOf[r] : r \in {s \in C : Cardinality(Older(C, s)) < WindowSize}}

Mates(C, teamOf, r) == {s \in C : teamOf[s] = teamOf[r]}

\* Mutant: one cap for all workspaces together.
CandidatesUnpartitioned(C, teamOf) ==
  {r \in C : /\ teamOf[r] \in TeamsInWindow(C, teamOf)
             /\ Cardinality(Older(C, r)) < PerTeamCap}

\* The CTE "candidates": the PerTeamCap oldest claimable rows of each of them.
Candidates(C, teamOf) ==
  {r \in C : /\ teamOf[r] \in TeamsInWindow(C, teamOf)
             /\ Cardinality(Older(Mates(C, teamOf, r), r)) < PerTeamCap}

\* Mutant: the youngest row ranks first.
TeamRankNewest(C, teamOf, r) == Cardinality({s \in Mates(C, teamOf, r) : s > r})

\* The CTE "ranked": position of a candidate in its own workspace (team_rn).
TeamRank(C, teamOf, r) == Cardinality(Older(Mates(C, teamOf, r), r))

\* Mutant: ORDER BY "createdAt" alone.
RanksBeforeByAge(C, teamOf, s, r) == s < r

\* The row order of the batch: position first, age second.
RanksBefore(C, teamOf, s, r) ==
  \/ TeamRank(C, teamOf, s) < TeamRank(C, teamOf, r)
  \/ TeamRank(C, teamOf, s) = TeamRank(C, teamOf, r) /\ s < r

\* ORDER BY team_rn, "createdAt" LIMIT limit: the rows the claim leases.
ClaimBatch(C, teamOf) ==
  {r \in Candidates(C, teamOf) :
     Cardinality({s \in Candidates(C, teamOf) : RanksBefore(C, teamOf, s, r)})
       < BatchSize}
=============================================================================
