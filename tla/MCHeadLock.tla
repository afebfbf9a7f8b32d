----------------------------- MODULE MCHeadLock -----------------------------
(* HeadLock on three processes: two hosts that may create the head, and the *)
(* FAM, whose id is -2.                                                     *)
EXTENDS HeadLock

MCIdOf == [p \in Procs |-> CASE p = "h0" -> 0 [] p = "h1" -> 1 [] OTHER -> -2]
=============================================================================
