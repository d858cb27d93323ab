---------------------------- MODULE MCLocalLocks ----------------------------
(* Small instances of LocalLocks.  MCHome puts every server into namespace  *)
(* n1, except "b1", which is in n2.                                         *)
EXTENDS LocalLocks, TLC

MCHome == [s \in Server |-> IF s = "b1" THEN "n2" ELSE "n1"]

(* Commands are interchangeable. *)
Symmetry == Permutations(Proc)
=============================================================================
