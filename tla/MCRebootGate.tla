---------------------------- MODULE MCRebootGate ----------------------------
(* Two services, of which "app" may be pulled in by "base", a container and *)
(* a process that somebody left in a session.                               *)
EXTENDS RebootGate

MCWanter == [u \in Units |-> "base"]
MCDeclared ==
    {[base |-> "boot", app |-> a, web |-> p] : <<a, p>> \in
        {<<"wanted", "unless-stopped">>, <<"demand", "on-failure">>}}
=============================================================================
