---------------------------- MODULE MCServerState ----------------------------
(***************************************************************************)
(* Instances of ServerState for TLC: three commands at a time on one       *)
(* server, two routes.                                                     *)
(***************************************************************************)
EXTENDS ServerState, TLC

All == Kind

Symmetry == Permutations(Proc) \union Permutations(Hostname)
=============================================================================
