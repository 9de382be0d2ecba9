------------------------------ MODULE MCSession ------------------------------
(* Small instances of Session for TLC. *)
EXTENDS Session

MCDataLen == [d \in Data |-> IF d = "a" THEN 1 ELSE 2]
=============================================================================
