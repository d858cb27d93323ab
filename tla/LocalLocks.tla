----------------------------- MODULE LocalLocks -----------------------------
(***************************************************************************)
(* The advisory lock files under ~/.local/state/serverpro and              *)
(* ~/.config/serverpro, and the order in which every serverpro command     *)
(* takes them (internal/privatefile, internal/state/registry_lock.go and   *)
(* their callers in internal/cli and internal/importsync).                 *)
(*                                                                         *)
(* Each command is a process with its own table of open lock descriptors.  *)
(* flock(2) locks the INODE behind a descriptor, not the path: deleting a  *)
(* server unlinks its lock files, a later command creates new ones at the  *)
(* same paths, and a lock on the unlinked inode would protect nothing.     *)
(* That is why every holder and every waiter of a file that a delete may   *)
(* unlink first takes the local-artifact guard shared, and the deleter     *)
(* takes it exclusively.                                                   *)
(*                                                                         *)
(* A command is described by what it WANTS to hold in its present phase.   *)
(* It closes what it no longer wants, innermost first, then opens and      *)
(* locks what it lacks, outermost first; when the two agree it is Settled  *)
(* and does the work of the phase.                                         *)
(*                                                                         *)
(* Abstracted: the contents of the artifacts (module ServerState), the      *)
(* order of the unlinks inside one cleanup, failures of system calls other *)
(* than a refused lock.  The path of a lock file and the inode behind it   *)
(* are a pair <<path, generation>>: a generation may be used again once it *)
(* is neither linked nor open, as inode numbers are.                       *)
(***************************************************************************)
EXTENDS Naturals, FiniteSets

CONSTANTS Proc,           \* commands running at the same time
          Namespace,
          Server,
          Home,           \* the namespace each server belongs to
          Tailnet,        \* tailnet identities of the configs
          TokenRelative,  \* the identity "-": whatever tailnet the token has
          Artifact,       \* the lock files a short write takes (see LeafSlots)
          Generation,     \* inodes one path may have; bounds the model
          Commands,       \* the kinds of command the operator runs
          NoServer, NoTailnet, NoGeneration

Registry == "registry"

ASSUME HomeAssumption == Home \in [Server -> Namespace]
ASSUME NoServerAssumption == NoServer \notin Server
ASSUME NoTailnetAssumption == NoTailnet \notin Tailnet
ASSUME NoGenerationAssumption == NoGeneration \notin Generation
ASSUME ArtifactAssumption ==
    Artifact \subseteq {"config", "credentials", "state", Registry}

Kind == {"create", "artifact", "reconcile", "delete",
         "namespaceDelete", "namespaceCreate", "approval"}

ASSUME CommandsAssumption == Commands \subseteq Kind

Phase == {"idle", "work", "policy", "update", "cleanup", "record", "unwind"}

VARIABLES link,    \* link[path]: generation the path leads to, if any
          fd,      \* fd[p][slot]: generation the descriptor has open, if any
          mode,    \* mode[p][slot]: flock held through it
          phase,   \* phase[p]: what the command is doing
          job,     \* job[p]: its kind and its namespace
          target,  \* target[p]: the server it works on, if any
          leaf,    \* leaf[p]: the artifact of its present short write
          tail,    \* tail[p]: the tailnet whose policy it locks, if any
          todo     \* todo[p]: servers a namespace delete has left

command == <<phase, job, target, leaf, tail, todo>>
vars == <<link, fd, mode, command>>
-----------------------------------------------------------------------------
(* Lock files and descriptors *)

(* A slot is one descriptor a command may have open.  A command that holds *)
(* the server-operation lock and writes the state has the guard open twice.*)
Slot == {"namespace", "opGuard", "op", "tailnetGlobal", "tailnet",
         "cleanup", "leafGuard", "leaf"}

Mode == {"none", "SH", "EX"}

(* The order in which one command takes its locks; released in reverse. *)
Rank == [namespace |-> 1, opGuard |-> 2, op |-> 3, tailnetGlobal |-> 4,
         tailnet |-> 5, cleanup |-> 6, leafGuard |-> 7, leaf |-> 8]

Guard == <<"guard", NoServer>>

(* The files a delete may unlink; the others stay for good. *)
ServerFiles(s) == {<<"op", s>>} \union {<<a, s>> : a \in Artifact \ {Registry}}

Lasting == {Guard, <<Registry, NoServer>>, <<"tailnetGlobal", NoServer>>}
               \union {<<"namespace", n>> : n \in Namespace}
               \union {<<"tailnet", t>> : t \in Tailnet}

Path == Lasting \union UNION {ServerFiles(s) : s \in Server}

PathOf(p, slot) ==
    CASE slot = "namespace"     -> <<"namespace", job[p].ns>>
      [] slot = "op"            -> <<"op", target[p]>>
      [] slot = "tailnetGlobal" -> <<"tailnetGlobal", NoServer>>
      [] slot = "tailnet"       -> <<"tailnet", tail[p]>>
      [] slot = "leaf"          -> IF leaf[p] = Registry
                                   THEN <<Registry, NoServer>>
                                   ELSE <<leaf[p], target[p]>>
      [] OTHER                  -> Guard

Deleting(p) == job[p].kind \in {"delete", "namespaceDelete"}

ModeOf(p, slot) ==
    CASE slot = "namespace" ->
            IF Deleting(p) \/ job[p].kind = "namespaceCreate" THEN "EX" ELSE "SH"
      [] slot = "tailnetGlobal" ->
            IF tail[p] = TokenRelative THEN "EX" ELSE "SH"
      [] slot \in {"opGuard", "leafGuard"} -> "SH"
      [] OTHER -> "EX"

(* flock(2) refuses a lock that conflicts with one held through any other  *)
(* description of the same inode, the command's own descriptors included.  *)
Grantable(p, slot) ==
    \A q \in Proc, t \in Slot :
        /\ <<q, t>> # <<p, slot>>
        /\ mode[q][t] # "none"
        /\ PathOf(q, t) = PathOf(p, slot)
        /\ fd[q][t] = fd[p][slot]
        => ModeOf(p, slot) = "SH" /\ mode[q][t] = "SH"

(* A generation of this path that no name and no descriptor refers to. *)
Unused(path, g) ==
    /\ link[path] # g
    /\ \A q \in Proc, t \in Slot : fd[q][t] = g => PathOf(q, t) # path
-----------------------------------------------------------------------------
(* What a command wants to hold *)

(* The locks a workflow holds from its start to its end. *)
Workflow(p) ==
    CASE job[p].kind \in {"create", "delete"} -> {"namespace", "opGuard", "op"}
      [] job[p].kind = "namespaceDelete" ->
            IF target[p] = NoServer THEN {"namespace"}
            ELSE {"namespace", "opGuard", "op"}
      [] job[p].kind \in {"artifact", "namespaceCreate"} -> {"namespace"}
      [] OTHER -> {}

PolicySlotsWithoutGlobal(p) ==
    IF tail[p] = TokenRelative THEN {"tailnetGlobal"} ELSE {"tailnet"}
PolicySlots(p) ==
    IF tail[p] = TokenRelative THEN {"tailnetGlobal"}
    ELSE {"tailnetGlobal", "tailnet"}

(* state.Update, config.Update and credentials.Update hold the guard shared *)
(* around their lock file; the registry lock stands outside the guard.      *)
UnguardedLeafSlots(p) == {"leaf"}
LeafSlots(p) == IF leaf[p] = Registry THEN {"leaf"} ELSE {"leafGuard", "leaf"}

UnguardedCleanupSlots(p) == {"namespace"}
CleanupSlotsKeepingGuard(p) == {"namespace", "opGuard", "cleanup"}
CleanupSlots(p) == {"namespace", "cleanup"}

Held(p) == {slot \in Slot : mode[p][slot] # "none"}

Wanted(p) ==
    CASE phase[p] = "work"    -> Workflow(p)
      [] phase[p] = "policy"  -> Workflow(p) \union PolicySlots(p)
      [] phase[p] = "update"  ->
            Workflow(p) \union LeafSlots(p)
                \union (PolicySlots(p) \intersect Held(p))
      [] phase[p] = "cleanup" -> CleanupSlots(p)
      [] phase[p] = "record"  -> CleanupSlots(p) \union {"leaf"}
      [] OTHER                -> {}

Extra(p) == {slot \in Slot : fd[p][slot] # NoGeneration} \ Wanted(p)

Missing(p) == {slot \in Wanted(p) : mode[p][slot] = "none"}

Settled(p) == Extra(p) = {} /\ Missing(p) = {}

(* The lock the command is about to take. *)
IsNext(p, slot) ==
    /\ mode[p][slot] = "none"
    /\ Extra(p) = {}
    /\ slot \in Missing(p)
    /\ \A other \in Missing(p) : Rank[slot] <= Rank[other]
-----------------------------------------------------------------------------
Idle == [kind |-> "idle", ns |-> NoServer]

(* The files outside the server directories exist since the first command. *)
Init ==
    /\ link = [path \in Path |->
                  IF path \in Lasting THEN CHOOSE g \in Generation : TRUE
                                       ELSE NoGeneration]
    /\ fd = [p \in Proc |-> [slot \in Slot |-> NoGeneration]]
    /\ mode = [p \in Proc |-> [slot \in Slot |-> "none"]]
    /\ phase = [p \in Proc |-> "idle"]
    /\ job = [p \in Proc |-> Idle]
    /\ target = [p \in Proc |-> NoServer]
    /\ leaf = [p \in Proc |-> Registry]
    /\ tail = [p \in Proc |-> NoTailnet]
    /\ todo = [p \in Proc |-> {}]
-----------------------------------------------------------------------------
(* Lock operations (internal/privatefile) *)

(* openLockFile: O_CREAT, so a missing file comes back under a new inode. *)
Open(p, slot) ==
    /\ fd[p][slot] = NoGeneration
    /\ IsNext(p, slot)
    /\ \E g \in Generation :
        LET path == PathOf(p, slot) IN
        /\ IF link[path] # NoGeneration
             THEN g = link[path]
             ELSE g = CHOOSE free \in Generation : Unused(path, free)
        /\ link' = [link EXCEPT ![path] = g]
        /\ fd' = [fd EXCEPT ![p][slot] = g]
    /\ UNCHANGED <<mode, command>>

(* lockContext and Lock: flock succeeds on the inode opened before. *)
Flock(p, slot) ==
    /\ fd[p][slot] # NoGeneration
    /\ IsNext(p, slot)
    /\ Grantable(p, slot)
    /\ mode' = [mode EXCEPT ![p][slot] = ModeOf(p, slot)]
    /\ UNCHANGED <<link, fd, command>>

(* The release functions: unlock and close, innermost first. *)
ReleaseOutermost(p, slot) ==
    /\ fd[p][slot] # NoGeneration
    /\ slot \in Extra(p)
    /\ \A other \in Extra(p) : Rank[slot] <= Rank[other]
    /\ fd' = [fd EXCEPT ![p][slot] = NoGeneration]
    /\ mode' = [mode EXCEPT ![p][slot] = "none"]
    /\ UNCHANGED <<link, command>>
ReleaseWithoutUnlock(p, slot) ==
    /\ fd[p][slot] # NoGeneration
    /\ slot \in Extra(p)
    /\ \A other \in Extra(p) : Rank[other] <= Rank[slot]
    /\ fd' = [fd EXCEPT ![p][slot] = NoGeneration]
    /\ UNCHANGED <<link, mode, command>>
Release(p, slot) ==
    /\ fd[p][slot] # NoGeneration
    /\ slot \in Extra(p)
    /\ \A other \in Extra(p) : Rank[other] <= Rank[slot]
    /\ fd' = [fd EXCEPT ![p][slot] = NoGeneration]
    /\ mode' = [mode EXCEPT ![p][slot] = "none"]
    /\ UNCHANGED <<link, command>>

(* The context of a polling wait ends (signal or deadline).  Writers of     *)
(* state, config, credentials and registry wait on no context.             *)
GiveUp(p) ==
    /\ \E slot \in Slot \ {"leafGuard", "leaf"} :
        fd[p][slot] # NoGeneration /\ IsNext(p, slot)
    /\ phase' = [phase EXCEPT ![p] = "unwind"]
    /\ UNCHANGED <<link, fd, mode, job, target, leaf, tail, todo>>
-----------------------------------------------------------------------------
(* Commands *)

Updates(kind) ==
    CASE kind = "approval"        -> Artifact \intersect {"credentials"}
      [] kind = "reconcile"       -> {}
      [] kind \in {"namespaceCreate"} -> Artifact \intersect {Registry}
      [] kind = "artifact"        -> Artifact \ {Registry}
      [] OTHER                    -> Artifact

(* server create, import and delete act on one server; namespace delete    *)
(* starts with the servers its registry entries name.                      *)
Start(p) ==
    /\ phase[p] = "idle"
    /\ \E kind \in Commands, s \in Server, rest \in SUBSET Server :
        /\ job' = [job EXCEPT ![p] = [kind |-> kind, ns |-> Home[s]]]
        /\ target' = [target EXCEPT ![p] =
               IF kind \in {"namespaceDelete", "namespaceCreate", "reconcile"}
               THEN NoServer ELSE s]
        /\ IF kind = "namespaceDelete"
             THEN \A other \in rest : Home[other] = Home[s]
             ELSE rest = {}
        /\ todo' = [todo EXCEPT ![p] = rest]
    /\ phase' = [phase EXCEPT ![p] = "work"]
    /\ UNCHANGED <<link, fd, mode, leaf, tail>>

(* One locked write of an artifact. *)
BeginUpdate(p) ==
    /\ phase[p] \in {"work", "policy"}
    /\ Settled(p)
    /\ \E a \in Updates(job[p].kind) :
        /\ target[p] = NoServer => a = Registry
        /\ leaf' = [leaf EXCEPT ![p] = a]
    /\ phase' = [phase EXCEPT ![p] = "update"]
    /\ UNCHANGED <<link, fd, mode, job, target, tail, todo>>

EndUpdate(p) ==
    /\ phase[p] = "update"
    /\ Settled(p)
    /\ phase' = [phase EXCEPT ![p] = IF PolicySlots(p) \subseteq Held(p) THEN "policy" ELSE "work"]
    /\ UNCHANGED <<link, fd, mode, job, target, leaf, tail, todo>>

(* LockTailnetPolicy inside create, import, ssh-policy and tailnet reconcile. *)
EnterPolicy(p) ==
    /\ phase[p] = "work"
    /\ Settled(p)
    /\ job[p].kind \in {"create", "artifact", "reconcile"}
    /\ phase' = [phase EXCEPT ![p] = "policy"]
    /\ \E t \in Tailnet : tail' = [tail EXCEPT ![p] = t]
    /\ UNCHANGED <<link, fd, mode, job, target, leaf, todo>>

LeavePolicy(p) ==
    /\ phase[p] = "policy"
    /\ Settled(p)
    /\ phase' = [phase EXCEPT ![p] = "work"]
    /\ UNCHANGED <<link, fd, mode, job, target, leaf, tail, todo>>

(* executeNamespaceDelete turns to the next server of the namespace. *)
NextServer(p) ==
    /\ phase[p] = "work"
    /\ Settled(p)
    /\ job[p].kind = "namespaceDelete"
    /\ target[p] = NoServer
    /\ \E s \in todo[p] :
        /\ target' = [target EXCEPT ![p] = s]
        /\ todo' = [todo EXCEPT ![p] = @ \ {s}]
    /\ UNCHANGED <<link, fd, mode, phase, job, leaf, tail>>

(* The remote part of a delete is done: drop the server lock, whose own     *)
(* shared guard would block the exclusive one, and take the guard.          *)
BeginCleanup(p) ==
    /\ phase[p] = "work"
    /\ Settled(p)
    /\ Deleting(p)
    /\ target[p] = NoServer => todo[p] = {}
    /\ phase' = [phase EXCEPT ![p] = "cleanup"]
    /\ UNCHANGED <<link, fd, mode, job, target, leaf, tail, todo>>

(* The lock files this cleanup removes: those of one server, or the tree of *)
(* the namespace once all its registered servers are gone.                  *)
Doomed(p) ==
    IF target[p] # NoServer THEN ServerFiles(target[p])
    ELSE UNION {ServerFiles(s) : s \in {s \in Server : Home[s] = job[p].ns}}

Unlink(p) ==
    /\ phase[p] = "cleanup"
    /\ Settled(p)
    /\ \E path \in Doomed(p) :
        /\ link[path] # NoGeneration
        /\ link' = [link EXCEPT ![path] = NoGeneration]
    /\ UNCHANGED <<fd, mode, command>>

(* The registry entry goes last, still inside the exclusive guard. *)
BeginRecord(p) ==
    /\ phase[p] = "cleanup"
    /\ Settled(p)
    /\ \A path \in Doomed(p) : link[path] = NoGeneration
    /\ phase' = [phase EXCEPT ![p] = "record"]
    /\ leaf' = [leaf EXCEPT ![p] = Registry]
    /\ UNCHANGED <<link, fd, mode, job, target, tail, todo>>

EndRecord(p) ==
    /\ phase[p] = "record"
    /\ Settled(p)
    /\ IF job[p].kind = "namespaceDelete" /\ target[p] # NoServer
         THEN phase' = [phase EXCEPT ![p] = "work"]
         ELSE phase' = [phase EXCEPT ![p] = "unwind"]
    /\ target' = [target EXCEPT ![p] = NoServer]
    /\ UNCHANGED <<link, fd, mode, job, leaf, tail, todo>>

(* The command returns, with success or an error, and its deferred          *)
(* releases run.                                                            *)
Finish(p) ==
    /\ phase[p] \notin {"idle", "unwind"}
    /\ Settled(p)
    /\ phase' = [phase EXCEPT ![p] = "unwind"]
    /\ UNCHANGED <<link, fd, mode, job, target, leaf, tail, todo>>

Forget(p) ==
    /\ phase' = [phase EXCEPT ![p] = "idle"]
    /\ job' = [job EXCEPT ![p] = Idle]
    /\ target' = [target EXCEPT ![p] = NoServer]
    /\ leaf' = [leaf EXCEPT ![p] = Registry]
    /\ tail' = [tail EXCEPT ![p] = NoTailnet]
    /\ todo' = [todo EXCEPT ![p] = {}]

Exit(p) ==
    /\ phase[p] = "unwind"
    /\ Settled(p)
    /\ Forget(p)
    /\ UNCHANGED <<link, fd, mode>>

(* The process dies: the kernel closes its descriptors, the files stay. *)
Crash(p) ==
    /\ phase[p] # "idle"
    /\ fd' = [fd EXCEPT ![p] = [slot \in Slot |-> NoGeneration]]
    /\ mode' = [mode EXCEPT ![p] = [slot \in Slot |-> "none"]]
    /\ Forget(p)
    /\ UNCHANGED link
-----------------------------------------------------------------------------
Step(p) ==
    \/ \E slot \in Slot : Open(p, slot) \/ Flock(p, slot) \/ Release(p, slot)
    \/ GiveUp(p)
    \/ Start(p)
    \/ BeginUpdate(p) \/ EndUpdate(p)
    \/ EnterPolicy(p) \/ LeavePolicy(p)
    \/ NextServer(p) \/ BeginCleanup(p) \/ Unlink(p)
    \/ BeginRecord(p) \/ EndRecord(p)
    \/ Finish(p) \/ Exit(p) \/ Crash(p)

Next == \E p \in Proc : Step(p)

Spec == Init /\ [][Next]_vars
-----------------------------------------------------------------------------
(* Properties *)

Holds(p, slot) == mode[p][slot] # "none"

(* The lock state is well formed, and a lock is held only through an open   *)
(* descriptor: the release functions unlock before they close.              *)
TypeOK ==
    /\ link \in [Path -> Generation \union {NoGeneration}]
    /\ fd \in [Proc -> [Slot -> Generation \union {NoGeneration}]]
    /\ mode \in [Proc -> [Slot -> Mode]]
    /\ phase \in [Proc -> Phase]
    /\ job \in [Proc -> {Idle} \union
                        [kind : Commands, ns : Namespace]]
    /\ target \in [Proc -> Server \union {NoServer}]
    /\ leaf \in [Proc -> Artifact \union {Registry}]
    /\ tail \in [Proc -> Tailnet \union {NoTailnet}]
    /\ todo \in [Proc -> SUBSET Server]
    /\ \A p \in Proc, slot \in Slot : Holds(p, slot) => fd[p][slot] # NoGeneration

(* No command ever holds, or waits on, a lock file that has been unlinked:  *)
(* whoever opens the path now would get another inode and both would go on. *)
(* lockLocalArtifact and lockConfig take the guard before they open the     *)
(* file, and executeApprovedServerDelete unlinks under the exclusive guard. *)
NoStrandedDescriptor ==
    \A p \in Proc, slot \in Slot :
        fd[p][slot] # NoGeneration => link[PathOf(p, slot)] = fd[p][slot]

(* "LockServerOperation serializes create, import, and delete workflows":   *)
(* two commands never work on one server together, nor write one artifact,  *)
(* whatever was deleted and created again in between.                       *)
ServerExclusion ==
    \A p, q \in Proc :
        \/ Holds(p, "op") /\ Holds(q, "op") /\ target[p] = target[q]
        \/ Holds(p, "leaf") /\ Holds(q, "leaf") /\ PathOf(p, "leaf") = PathOf(q, "leaf")
        => p = q

(* LockTailnetPolicy: two commands that hold the policy lock are on two     *)
(* different explicit tailnets, and a token-relative one is alone.          *)
PolicyExclusion ==
    \A p, q \in Proc :
        /\ p # q
        /\ phase[p] = "policy" /\ Settled(p)
        /\ phase[q] = "policy" /\ Settled(q)
        => tail[p] # tail[q] /\ TokenRelative \notin {tail[p], tail[q]}

(* A lock file leaves its path only while no other command has it open, so  *)
(* an unlink never splits the commands of one path over two inodes.         *)
UnlinkOnlyClosed ==
    [][\A path \in Path :
          link[path] # NoGeneration /\ link'[path] = NoGeneration
          => \A q \in Proc, t \in Slot :
                ~(fd[q][t] # NoGeneration /\ PathOf(q, t) = path)]_vars

(* The lock files keep the promise of module ServerAuthority. *)
Authority == INSTANCE ServerAuthority WITH
    shared <- [n \in Namespace |->
        {p \in Proc : mode[p]["namespace"] = "SH" /\ job[p].ns = n}],
    exclusive <- [n \in Namespace |->
        {p \in Proc : mode[p]["namespace"] = "EX" /\ job[p].ns = n}],
    owned <- [s \in Server |->
        {p \in Proc : Holds(p, "op") /\ target[p] = s}]

(* LockServerWorkflow, LockNamespaceOperationExclusive and the deletes      *)
(* implement sharing, exclusion and ownership with lock files.              *)
KeepsAuthority == Authority!AuthoritySpec

(* A command whose lock is free again and again gets it (it polls every     *)
(* 10 ms, and the kernel queues the blocking writers), and a command that   *)
(* holds its locks does not work, or wait for its operator, for ever.       *)
Fairness ==
    \A p \in Proc :
        /\ WF_vars((\E slot \in Slot : Open(p, slot) \/ Release(p, slot)) \/ Exit(p))
        /\ SF_vars(\E slot \in Slot : Flock(p, slot))
        /\ SF_vars(Finish(p))

FairSpec == Spec /\ Fairness

(* No set of commands waits in a cycle, and no command waits for itself:    *)
(* whoever lacks a lock gets it, or gives up and lets go of the others.     *)
EveryWaitEnds == \A p \in Proc : ~Settled(p) ~> Settled(p)
=============================================================================
