--------------------------- MODULE OutboxContract ---------------------------
(***************************************************************************)
(* What the outbox promises of one event, whatever the process does: once  *)
(* written it is owed until it is closed; it is closed as good only after  *)
(* its subscribers were run; a failure is final; and a row disappears only *)
(* after it was closed as good.  How often subscribers run is not bounded: *)
(* delivery is at least once.                                              *)
(***************************************************************************)
CONSTANT Rows

VARIABLES
  status,   \* [Rows -> Statuses]
  ran       \* the events whose subscriber chain ran to its end at least once

Statuses == {"none", "owed", "open", "good", "failed", "gone"}

ContractInit ==
  /\ status = [r \in Rows |-> "none"]
  /\ ran = {}

\* "open": published with the dispatched stamp missing (the loss-window signal).
Allowed == {
  <<"none", "owed">>, <<"none", "open">>, <<"none", "failed">>,
  <<"owed", "open">>, <<"owed", "failed">>,
  <<"open", "good">>, <<"open", "failed">>,
  <<"good", "failed">>, <<"good", "gone">>}

ContractStep ==
  /\ ran \subseteq ran'
  /\ \A r \in Rows :
       \/ status'[r] = status[r]
       \/ /\ <<status[r], status'[r]>> \in Allowed
          /\ status'[r] = "good" => r \in ran'

Contract == ContractInit /\ [][ContractStep]_<<status, ran>>
=============================================================================
