---------------------------- MODULE MCHostAccess ----------------------------
(* Small instances of HostAccess for TLC. *)
EXTENDS HostAccess

Both == {[tunnel |-> TRUE, restricted |-> TRUE, reboot |-> TRUE, off |-> TRUE],
         [tunnel |-> FALSE, restricted |-> FALSE, reboot |-> FALSE, off |-> FALSE]}
Rules == {<<"main", "own">>, <<"extra", "list">>, <<"extra", "uid">>, <<"extra", "free">>,
          <<"elsewhere", "own">>}
Uses == {[at |-> "sshd", scheme |-> "session", port |-> "22", mode |-> "plain"],
         [at |-> "cloud", scheme |-> "tcp", port |-> "0022", mode |-> "plain"],
         [at |-> "cloud", scheme |-> "http", port |-> "8080", mode |-> "network"],
         [at |-> "host", scheme |-> "http", port |-> "0022", mode |-> "plain"],
         [at |-> "host", scheme |-> "http", port |-> "8080", mode |-> "plain"],
         [at |-> "outside", scheme |-> "odd", port |-> "", mode |-> "plain"]}
=============================================================================
