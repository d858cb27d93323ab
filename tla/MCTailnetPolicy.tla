-------------------------- MODULE MCTailnetPolicy --------------------------
EXTENDS TailnetPolicy, TLC

CONSTANTS s1, s2, shared, own

Symmetry == Permutations(Proc)

(* Two servers of one namespace; s1 has a tag of its own beside the shared  *)
(* one and may narrow its rules to the shared one.                          *)
MCTagsOf == [s \in Server |-> IF s = s1 THEN {shared, own} ELSE {shared}]

MCConfig(ssh, auto, human) == [ssh |-> ssh, auto |-> auto, human |-> human]
MCChoices ==
    [s \in Server |->
        IF s = s1
        THEN {MCConfig({shared}, TRUE, "check"), MCConfig({shared, own}, FALSE, "check")}
        ELSE {MCConfig({shared}, TRUE, "accept"), MCConfig({shared}, FALSE, "check")}]
MCDefault ==
    [s \in Server |-> IF s = s1 THEN MCConfig({shared, own}, FALSE, "check")
                                ELSE MCConfig({shared}, FALSE, "check")]
=============================================================================
