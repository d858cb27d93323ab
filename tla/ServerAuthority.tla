-------------------------- MODULE ServerAuthority --------------------------
(***************************************************************************)
(* What the local locks of serverpro promise, with no lock file in sight.  *)
(*                                                                         *)
(* One operator runs several serverpro commands at once.  A command either *)
(* SHARES a namespace (create, import, and every command that may publish  *)
(* an artifact of an existing server) or has it to itself (server delete,  *)
(* namespace create, namespace delete), and create, import and delete      *)
(* further OWN one server of a namespace they share or have to themselves. *)
(* internal/state/registry_lock.go states the promise in the comments of   *)
(* LockServerOperation, LockServerWorkflow and the two namespace lockers;  *)
(* module LocalLocks models the lock files that must keep it.              *)
(***************************************************************************)
CONSTANTS Proc, Namespace, Server,
          Home            \* the namespace each server belongs to

VARIABLES shared,     \* shared[n]: commands that share namespace n
          exclusive,  \* exclusive[n]: commands that have n to themselves
          owned       \* owned[s]: commands that own server s

authority == <<shared, exclusive, owned>>

AuthorityTypeOK ==
    /\ shared \in [Namespace -> SUBSET Proc]
    /\ exclusive \in [Namespace -> SUBSET Proc]
    /\ owned \in [Server -> SUBSET Proc]

AuthorityInit ==
    /\ shared = [n \in Namespace |-> {}]
    /\ exclusive = [n \in Namespace |-> {}]
    /\ owned = [s \in Server |-> {}]

(* LockNamespaceOperation: any number of sharers, no exclusive holder. *)
Share(p, n) ==
    /\ exclusive[n] = {}
    /\ shared' = [shared EXCEPT ![n] = @ \union {p}]
    /\ UNCHANGED <<exclusive, owned>>

(* LockNamespaceOperationExclusive: nobody else in the namespace. *)
Exclude(p, n) ==
    /\ exclusive[n] = {}
    /\ shared[n] = {}
    /\ exclusive' = [exclusive EXCEPT ![n] = {p}]
    /\ UNCHANGED <<shared, owned>>

(* LockServerOperation, always inside the namespace of the server. *)
Own(p, s) ==
    /\ owned[s] = {}
    /\ p \in shared[Home[s]] \union exclusive[Home[s]]
    /\ owned' = [owned EXCEPT ![s] = {p}]
    /\ UNCHANGED <<shared, exclusive>>

Disown(p, s) ==
    /\ p \in owned[s]
    /\ owned' = [owned EXCEPT ![s] = @ \ {p}]
    /\ UNCHANGED <<shared, exclusive>>

(* The namespace is released last: the command owns no server any more. *)
LeaveNamespace(p, n) ==
    /\ \A s \in Server : p \notin owned[s]
    /\ shared' = [shared EXCEPT ![n] = @ \ {p}]
    /\ exclusive' = [exclusive EXCEPT ![n] = @ \ {p}]
    /\ UNCHANGED owned

(* The process dies and the kernel drops everything it held at once. *)
Die(p) ==
    /\ shared' = [n \in Namespace |-> shared[n] \ {p}]
    /\ exclusive' = [n \in Namespace |-> exclusive[n] \ {p}]
    /\ owned' = [s \in Server |-> owned[s] \ {p}]

AuthorityNext ==
    \E p \in Proc :
        \/ \E n \in Namespace : Share(p, n) \/ Exclude(p, n) \/ LeaveNamespace(p, n)
        \/ \E s \in Server : Own(p, s) \/ Disown(p, s)
        \/ Die(p)

AuthoritySpec == AuthorityInit /\ [][AuthorityNext]_authority
=============================================================================
