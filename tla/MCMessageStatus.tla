--------------------------- MODULE MCMessageStatus ---------------------------
(* An instance of MessageStatus for TLC: a read receipt, a failure and a     *)
(* delivered watermark.                                                      *)
EXTENDS MessageStatus

Carries == [e \in Events |-> CASE e = "r" -> "read" [] e = "f" -> "failed" [] OTHER -> "delivered"]
=============================================================================
