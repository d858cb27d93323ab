-------------------------- MODULE MCLocalArtifacts --------------------------
(* LocalArtifacts with small constants.  Servers and vendors are            *)
(* interchangeable, and so are the processes.                               *)
EXTENDS LocalArtifacts, TLC

MCSymmetry == Permutations(Proc) \union Permutations(Server) \union Permutations(Vendor)
=============================================================================
