-------------------------- MODULE MCServerLifecycle --------------------------
(***************************************************************************)
(* Instances of ServerLifecycle for TLC.  One process stands for an        *)
(* operator who runs one command after another, two for two operators.     *)
(***************************************************************************)
EXTENDS ServerLifecycle, TLC

Symmetry == Permutations(Proc)
=============================================================================
