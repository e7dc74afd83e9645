----------------------------- MODULE MCLogQueue -----------------------------
(* A small instance of LogQueue.  Size 5 is larger than the whole byte      *)
(* budget and than one export, sizes 1 and 2 mix under both.                *)
EXTENDS LogQueue
MCSizes == {1, 2, 5}
=============================================================================
