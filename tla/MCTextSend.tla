----------------------------- MODULE MCTextSend -----------------------------
(* Instances of TextSend for TLC. *)
EXTENDS TextSend

OneWorkspace == [j \in Jobs |-> CHOOSE w \in Workspaces : TRUE]
=============================================================================
