--------------------------- MODULE MCRemoteDoctor ---------------------------
(* RemoteDoctor with the two configurations that differ most: lockdown and  *)
(* tunnel both on, and both off.                                            *)
EXTENDS RemoteDoctor

MCConfigs == {[lockdown |-> TRUE, tunnel |-> TRUE], [lockdown |-> FALSE, tunnel |-> FALSE]}
=============================================================================
