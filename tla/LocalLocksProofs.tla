-------------------------- MODULE LocalLocksProofs --------------------------
(***************************************************************************)
(* What holds of module LocalLocks for any number of commands, namespaces, *)
(* servers, tailnets and inodes: lock files never strand a command on an   *)
(* unlinked inode, and two commands never work on one server together.     *)
(*                                                                         *)
(* The argument.  Exclusion by flock is exclusion per inode (Compatible),  *)
(* so two commands on one path exclude each other exactly when both have   *)
(* the inode open that the path leads to (NoStrandedDescriptor).  Only     *)
(* Unlink can break that, and it runs with the guard held exclusively,     *)
(* while whoever has a server's lock file open holds the guard shared      *)
(* (Guarded).  The guard itself is never unlinked, so both have the same   *)
(* guard inode open, and Compatible refuses the two modes.                 *)
(***************************************************************************)
EXTENDS LocalLocks, TLAPS

(* Locks held through two descriptors of one inode are both shared. *)
Compatible ==
    \A p, q \in Proc : \A s, t \in Slot :
        /\ <<p, s>> # <<q, t>>
        /\ Holds(p, s) /\ Holds(q, t)
        /\ PathOf(p, s) = PathOf(q, t)
        /\ fd[p][s] = fd[q][t]
        => mode[p][s] = "SH" /\ mode[q][t] = "SH"

ModesRight ==
    \A p \in Proc, slot \in Slot : Holds(p, slot) => mode[p][slot] = ModeOf(p, slot)

(* A lock file that a cleanup may unlink is open only under the guard. *)
Guarded ==
    \A p \in Proc :
        /\ fd[p]["op"] # NoGeneration => Holds(p, "opGuard")
        /\ fd[p]["leaf"] # NoGeneration /\ leaf[p] # Registry => Holds(p, "leafGuard")

(* What a command knows about its own work in each phase. *)
Phases ==
    \A p \in Proc :
        /\ phase[p] = "idle" => \A slot \in Slot : fd[p][slot] = NoGeneration
        /\ phase[p] # "idle" => job[p].kind \in Commands /\ job[p].ns \in Namespace
        /\ phase[p] \in {"work", "policy", "update"}
             /\ job[p].kind \in {"create", "delete", "artifact", "approval"}
             => target[p] \in Server
        /\ phase[p] = "policy" \/ fd[p]["tailnetGlobal"] # NoGeneration => tail[p] \in Tailnet
        /\ phase[p] = "update" /\ leaf[p] # Registry => target[p] \in Server
        /\ phase[p] = "record" => leaf[p] = Registry

LockInv == TypeOK /\ Compatible /\ ModesRight /\ Guarded /\ Phases /\ NoStrandedDescriptor
-----------------------------------------------------------------------------
(* Every variable keeps its shape, and releases unlock before they close    *)
(* (privatefile.lockRelease), in every run of any number of commands.       *)
THEOREM TypeCorrect == Spec => []TypeOK
<1>1. Init => TypeOK
  BY DEF Init, TypeOK, Idle, Mode, Phase, Holds
<1>2. TypeOK /\ [Next]_vars => TypeOK'
  <2> SUFFICES ASSUME TypeOK, [Next]_vars
               PROVE  TypeOK'
    OBVIOUS
  <2>1. CASE UNCHANGED vars
    BY <2>1 DEF TypeOK, vars, command, Holds
  <2>2. ASSUME NEW p \in Proc, NEW slot \in Slot, Open(p, slot)
        PROVE  TypeOK'
    <3>1. PICK g \in Generation :
             /\ link' = [link EXCEPT ![PathOf(p, slot)] = g]
             /\ fd' = [fd EXCEPT ![p][slot] = g]
      BY <2>2 DEF Open
    <3>2. UNCHANGED <<mode, phase, job, target, leaf, tail, todo>>
      BY <2>2 DEF Open, command
    <3>3. /\ link' \in [Path -> Generation \union {NoGeneration}]
          /\ fd' \in [Proc -> [Slot -> Generation \union {NoGeneration}]]
      BY <3>1 DEF TypeOK
    <3>4. \A q \in Proc, t \in Slot : mode'[q][t] # "none" => fd'[q][t] # NoGeneration
      BY <3>1, <3>2, NoGenerationAssumption DEF TypeOK, Holds
    <3>5. QED
      BY <3>2, <3>3, <3>4 DEF TypeOK, Holds
  <2>3. ASSUME NEW p \in Proc, NEW slot \in Slot, Flock(p, slot)
        PROVE  TypeOK'
    <3>1. ModeOf(p, slot) \in Mode
      BY DEF ModeOf, Mode
    <3>2. QED
      BY <2>3, <3>1 DEF TypeOK, Flock, command, Holds
  <2>4. ASSUME NEW p \in Proc, NEW slot \in Slot, Release(p, slot)
        PROVE  TypeOK'
    BY <2>4 DEF TypeOK, Release, command, Holds, Mode
  <2>5. ASSUME NEW p \in Proc, Start(p)
        PROVE  TypeOK'
    BY <2>5, HomeAssumption DEF TypeOK, Start, Holds, Phase
  <2>6. ASSUME NEW p \in Proc, BeginUpdate(p)
        PROVE  TypeOK'
    <3>1. PICK a \in Updates(job[p].kind) : leaf' = [leaf EXCEPT ![p] = a]
      BY <2>6 DEF BeginUpdate
    <3>2. a \in Artifact \union {Registry}
      BY <3>1 DEF Updates
    <3>3. QED
      BY <2>6, <3>1, <3>2 DEF TypeOK, BeginUpdate, Holds, Phase
  <2>7. ASSUME NEW p \in Proc, GiveUp(p) \/ EndUpdate(p) \/ EnterPolicy(p) \/ LeavePolicy(p)
        PROVE  TypeOK'
    BY <2>7, ZenonT(60) DEF TypeOK, GiveUp, EndUpdate, EnterPolicy, LeavePolicy, Holds, Phase
  <2>8. ASSUME NEW p \in Proc, NextServer(p) \/ BeginCleanup(p) \/ Unlink(p)
        PROVE  TypeOK'
    <3>1. CASE NextServer(p)
      <4>1. PICK s \in todo[p] : /\ target' = [target EXCEPT ![p] = s]
                                 /\ todo' = [todo EXCEPT ![p] = @ \ {s}]
        BY <3>1 DEF NextServer
      <4>2. s \in Server /\ todo[p] \ {s} \in SUBSET Server
        BY <4>1 DEF TypeOK
      <4>3. target' \in [Proc -> Server \union {NoServer}] /\ todo' \in [Proc -> SUBSET Server]
        BY <4>1, <4>2 DEF TypeOK
      <4>4. QED
        BY <3>1, <4>3 DEF TypeOK, NextServer, Holds
    <3>2. CASE BeginCleanup(p)
      BY <3>2 DEF TypeOK, BeginCleanup, Holds, Phase
    <3>3. CASE Unlink(p)
      BY <3>3 DEF TypeOK, Unlink, command, Holds
    <3>4. QED
      BY <2>8, <3>1, <3>2, <3>3
  <2>9. ASSUME NEW p \in Proc, BeginRecord(p) \/ EndRecord(p) \/ Finish(p)
        PROVE  TypeOK'
    BY <2>9 DEF TypeOK, BeginRecord, EndRecord, Finish, Holds, Phase
  <2>10. ASSUME NEW p \in Proc, Exit(p) \/ Crash(p)
         PROVE  TypeOK'
    <3>1. CASE Exit(p)
      BY <3>1 DEF TypeOK, Exit, Forget, Holds, Phase
    <3>2. CASE Crash(p)
      <4>1. /\ fd' \in [Proc -> [Slot -> Generation \union {NoGeneration}]]
            /\ mode' \in [Proc -> [Slot -> Mode]]
            /\ link' = link
        BY <3>2 DEF TypeOK, Crash, Mode
      <4>2. /\ phase' \in [Proc -> Phase]
            /\ job' \in [Proc -> {Idle} \union [kind : Commands, ns : Namespace]]
            /\ target' \in [Proc -> Server \union {NoServer}]
            /\ leaf' \in [Proc -> Artifact \union {Registry}]
            /\ tail' \in [Proc -> Tailnet \union {NoTailnet}]
            /\ todo' \in [Proc -> SUBSET Server]
        BY <3>2 DEF TypeOK, Crash, Forget, Phase
      <4>3. \A q \in Proc, t \in Slot : mode'[q][t] # "none" => fd'[q][t] # NoGeneration
        BY <3>2 DEF TypeOK, Crash, Holds
      <4>4. QED
        BY <4>1, <4>2, <4>3 DEF TypeOK, Holds
    <3>3. QED
      BY <2>10, <3>1, <3>2
  <2>11. QED
    BY <2>1, <2>2, <2>3, <2>4, <2>5, <2>6, <2>7, <2>8, <2>9, <2>10 DEF Next, Step
<1>3. QED
  BY <1>1, <1>2, PTL DEF Spec
-----------------------------------------------------------------------------
(* Facts about the lock order *)

LEMMA SlotOrder ==
    ASSUME NEW p \in Proc, Phases
    PROVE  /\ "op" \in Wanted(p) <=> "opGuard" \in Wanted(p)
           /\ "leaf" \in Wanted(p) /\ leaf[p] # Registry => "leafGuard" \in Wanted(p)
           /\ "leafGuard" \in Wanted(p) => "leaf" \in Wanted(p)
<1>1. \A slot \in PolicySlots(p) : slot \notin {"op", "opGuard", "leaf", "leafGuard"}
  BY DEF PolicySlots
<1>2. \A slot \in Workflow(p) : slot \notin {"leaf", "leafGuard"}
  BY DEF Workflow
<1>3. "op" \in Workflow(p) <=> "opGuard" \in Workflow(p)
  BY DEF Workflow
<1>4. QED
  BY <1>1, <1>2, <1>3 DEF Wanted, LeafSlots, CleanupSlots, Phases

(* A step that moves no descriptor, and no path under an open descriptor,   *)
(* keeps what the descriptors guarantee.                                    *)
LEMMA QuietStep ==
    ASSUME TypeOK, Compatible, ModesRight, NoStrandedDescriptor,
           UNCHANGED <<link, fd, mode>>,
           \A q \in Proc, t \in Slot : fd[q][t] # NoGeneration =>
               PathOf(q, t)' = PathOf(q, t) /\ ModeOf(q, t)' = ModeOf(q, t)
    PROVE  Compatible' /\ ModesRight' /\ NoStrandedDescriptor'
<1>1. \A q \in Proc, t \in Slot : Holds(q, t)' = Holds(q, t)
  BY DEF Holds
<1>2. \A q \in Proc, t \in Slot : Holds(q, t) => fd[q][t] # NoGeneration
  BY DEF TypeOK
<1>3. Compatible'
  BY <1>1, <1>2 DEF Compatible
<1>4. ModesRight'
  BY <1>1, <1>2 DEF ModesRight
<1>5. NoStrandedDescriptor'
  BY DEF NoStrandedDescriptor
<1>6. QED
  BY <1>3, <1>4, <1>5

(* The next lock file a command opens is one of the lock files. *)
LEMMA NextPath ==
    ASSUME TypeOK, Phases, NEW p \in Proc, NEW slot \in Slot, IsNext(p, slot)
    PROVE  PathOf(p, slot) \in Path
<1>1. slot \in Wanted(p) /\ mode[p][slot] = "none"
  BY DEF IsNext, Missing
<1>2. phase[p] \notin {"idle", "unwind"}
  BY <1>1 DEF Wanted
<1>3. job[p].ns \in Namespace /\ job[p].kind \in Kind
  BY <1>2, CommandsAssumption DEF Phases
<1>4. CASE slot \in {"opGuard", "leafGuard", "cleanup", "tailnetGlobal", "namespace"}
  BY <1>3, <1>4 DEF PathOf, Path, Lasting, Guard
<1>5. CASE slot = "op"
  <2>1. /\ phase[p] \in {"work", "policy", "update"}
        /\ "op" \in Workflow(p)
    BY <1>1, <1>5 DEF Wanted, CleanupSlots, PolicySlots, LeafSlots
  <2>2. target[p] \in Server
    BY <2>1 DEF Workflow, Phases, TypeOK
  <2>3. QED
    BY <1>5, <2>2 DEF PathOf, Path, ServerFiles
<1>6. CASE slot = "tailnet"
  <2>1. phase[p] = "policy"
    BY <1>1, <1>6 DEF Wanted, Workflow, LeafSlots, CleanupSlots, Held
  <2>2. QED
    BY <1>6, <2>1 DEF Phases, PathOf, Path, Lasting
<1>7. CASE slot = "leaf"
  <2>1. phase[p] \in {"update", "record"}
    BY <1>1, <1>7 DEF Wanted, Workflow, PolicySlots, CleanupSlots
  <2>2. CASE leaf[p] = Registry
    BY <1>7, <2>2 DEF PathOf, Path, Lasting
  <2>3. CASE leaf[p] # Registry
    <3>1. target[p] \in Server /\ leaf[p] \in Artifact \ {Registry}
      BY <2>1, <2>3 DEF Phases, TypeOK
    <3>2. QED
      BY <1>7, <2>3, <3>1 DEF PathOf, Path, ServerFiles
  <2>4. QED
    BY <2>2, <2>3
<1>8. QED
  BY <1>4, <1>5, <1>6, <1>7 DEF Slot

LEMMA OpenKeeps ==
    ASSUME LockInv, NEW p \in Proc, NEW slot \in Slot, Open(p, slot)
    PROVE  Compatible' /\ ModesRight' /\ Guarded' /\ Phases' /\ NoStrandedDescriptor'
<1> DEFINE path == PathOf(p, slot)
<1> USE DEF LockInv
<1>1. PICK g \in Generation :
         /\ link[path] # NoGeneration => g = link[path]
         /\ link' = [link EXCEPT ![path] = g]
         /\ fd' = [fd EXCEPT ![p][slot] = g]
  BY DEF Open
<1>2. /\ UNCHANGED <<mode, phase, job, target, leaf, tail, todo>>
      /\ IsNext(p, slot) /\ fd[p][slot] = NoGeneration
  BY DEF Open, command
<1>3. \A q \in Proc, t \in Slot : /\ PathOf(q, t)' = PathOf(q, t)
                                  /\ ModeOf(q, t)' = ModeOf(q, t)
                                  /\ Holds(q, t)' = Holds(q, t)
  BY <1>2 DEF PathOf, ModeOf, Deleting, Holds
<1>4. \A q \in Proc, t \in Slot : <<q, t>> # <<p, slot>> => fd'[q][t] = fd[q][t]
  BY <1>1 DEF TypeOK
<1>5. fd'[p][slot] = g /\ link'[path] = g
  BY <1>1, <1>2, NextPath DEF TypeOK
<1>6. ~Holds(p, slot)
  BY <1>2 DEF IsNext, Missing, Holds
<1>7. Compatible'
  <2> SUFFICES ASSUME NEW q \in Proc, NEW r \in Proc, NEW t \in Slot, NEW u \in Slot,
                      <<q, t>> # <<r, u>>, Holds(q, t)', Holds(r, u)',
                      PathOf(q, t)' = PathOf(r, u)', fd'[q][t] = fd'[r][u]
               PROVE  mode'[q][t] = "SH" /\ mode'[r][u] = "SH"
    BY DEF Compatible
  <2>1. <<q, t>> # <<p, slot>> /\ <<r, u>> # <<p, slot>>
    BY <1>3, <1>6
  <2>2. QED
    BY <1>2, <1>3, <1>4, <2>1 DEF Compatible
<1>8. ModesRight'
  BY <1>2, <1>3 DEF ModesRight
<1>9. NoStrandedDescriptor'
  <2> SUFFICES ASSUME NEW q \in Proc, NEW t \in Slot, fd'[q][t] # NoGeneration
               PROVE  link'[PathOf(q, t)] = fd'[q][t]
    BY <1>3 DEF NoStrandedDescriptor
  <2>1. CASE <<q, t>> = <<p, slot>>
    BY <1>5, <2>1
  <2>2. CASE <<q, t>> # <<p, slot>>
    <3>1. fd'[q][t] = fd[q][t] /\ link[PathOf(q, t)] = fd[q][t]
      BY <1>4, <2>2 DEF NoStrandedDescriptor
    <3>2. CASE PathOf(q, t) = path
      BY <1>1, <1>5, <3>1, <3>2
    <3>3. CASE PathOf(q, t) # path
      BY <1>1, <3>1, <3>3 DEF TypeOK
    <3>4. QED
      BY <3>2, <3>3
  <2>3. QED
    BY <2>1, <2>2
<1>10. Guarded'
  <2>1. slot = "op" => Holds(p, "opGuard")
    BY <1>2, SlotOrder DEF IsNext, Missing, Holds, Rank
  <2>2. slot = "leaf" /\ leaf[p] # Registry => Holds(p, "leafGuard")
    BY <1>2, SlotOrder DEF IsNext, Missing, Holds, Rank
  <2>3. QED
    BY <1>2, <1>3, <1>4, <2>1, <2>2 DEF Guarded, Slot
<1>11. Phases'
  <2>1. phase[p] # "idle"
    BY <1>2 DEF IsNext, Missing, Wanted
  <2>2. slot = "tailnetGlobal" => phase[p] = "policy"
    BY <1>2 DEF IsNext, Missing, Wanted, Workflow, LeafSlots, CleanupSlots, Held
  <2>3. QED
    BY <1>2, <1>4, <2>1, <2>2 DEF Phases, Slot
<1>12. QED
  BY <1>7, <1>8, <1>9, <1>10, <1>11

LEMMA FlockKeeps ==
    ASSUME LockInv, NEW p \in Proc, NEW slot \in Slot, Flock(p, slot)
    PROVE  Compatible' /\ ModesRight' /\ Guarded' /\ Phases' /\ NoStrandedDescriptor'
<1> USE DEF LockInv
<1>1. /\ mode' = [mode EXCEPT ![p][slot] = ModeOf(p, slot)]
      /\ UNCHANGED <<link, fd, phase, job, target, leaf, tail, todo>>
      /\ Grantable(p, slot)
  BY DEF Flock, command
<1>2. \A q \in Proc, t \in Slot : /\ PathOf(q, t)' = PathOf(q, t)
                                  /\ ModeOf(q, t)' = ModeOf(q, t)
  BY <1>1 DEF PathOf, ModeOf, Deleting
<1>3. /\ mode'[p][slot] = ModeOf(p, slot)
      /\ \A q \in Proc, t \in Slot : <<q, t>> # <<p, slot>> => mode'[q][t] = mode[q][t]
  BY <1>1 DEF TypeOK
<1>4. ModeOf(p, slot) # "none"
  BY DEF ModeOf
<1>5. Compatible'
  <2> SUFFICES ASSUME NEW q \in Proc, NEW r \in Proc, NEW t \in Slot, NEW u \in Slot,
                      <<q, t>> # <<r, u>>, Holds(q, t)', Holds(r, u)',
                      PathOf(q, t) = PathOf(r, u), fd[q][t] = fd[r][u]
               PROVE  mode'[q][t] = "SH" /\ mode'[r][u] = "SH"
    BY <1>1, <1>2 DEF Compatible
  <2>1. CASE <<q, t>> = <<p, slot>>
    BY <1>1, <1>3, <2>1 DEF Grantable, Holds
  <2>2. CASE <<r, u>> = <<p, slot>>
    BY <1>1, <1>3, <2>2 DEF Grantable, Holds
  <2>3. CASE <<q, t>> # <<p, slot>> /\ <<r, u>> # <<p, slot>>
    BY <1>3, <2>3 DEF Compatible, Holds
  <2>4. QED
    BY <2>1, <2>2, <2>3
<1>6. ModesRight'
  BY <1>2, <1>3 DEF ModesRight, Holds
<1>7. Guarded'
  BY <1>1, <1>3, <1>4 DEF Guarded, Holds, Slot
<1>8. Phases' /\ NoStrandedDescriptor'
  BY <1>1, <1>2 DEF Phases, NoStrandedDescriptor
<1>9. QED
  BY <1>5, <1>6, <1>7, <1>8

(* Closing descriptors never hurts the others; the guard is closed last. *)
LEMMA CloseKeeps ==
    ASSUME LockInv, TypeOK', NEW p \in Proc, link' = link,
           \A q \in Proc, t \in Slot :
              \/ fd'[q][t] = fd[q][t] /\ mode'[q][t] = mode[q][t]
              \/ q = p /\ fd'[q][t] = NoGeneration /\ mode'[q][t] = "none",
           \A q \in Proc, t \in Slot : fd'[q][t] # NoGeneration =>
              PathOf(q, t)' = PathOf(q, t) /\ ModeOf(q, t)' = ModeOf(q, t)
    PROVE  Compatible' /\ ModesRight' /\ NoStrandedDescriptor'
<1> USE DEF LockInv
<1>1. \A q \in Proc, t \in Slot : Holds(q, t)' =>
         /\ Holds(q, t)
         /\ fd'[q][t] = fd[q][t] /\ mode'[q][t] = mode[q][t]
         /\ fd'[q][t] # NoGeneration
  BY DEF Holds, TypeOK
<1>2. Compatible'
  BY <1>1 DEF Compatible
<1>3. ModesRight'
  BY <1>1 DEF ModesRight
<1>4. NoStrandedDescriptor'
  BY DEF NoStrandedDescriptor
<1>5. QED
  BY <1>2, <1>3, <1>4

LEMMA ReleaseKeeps ==
    ASSUME LockInv, TypeOK', NEW p \in Proc, NEW slot \in Slot, Release(p, slot)
    PROVE  Compatible' /\ ModesRight' /\ Guarded' /\ Phases' /\ NoStrandedDescriptor'
<1> USE DEF LockInv
<1>1. /\ fd' = [fd EXCEPT ![p][slot] = NoGeneration]
      /\ mode' = [mode EXCEPT ![p][slot] = "none"]
      /\ UNCHANGED <<link, phase, job, target, leaf, tail, todo>>
  BY DEF Release, command
<1>2. \A q \in Proc, t \in Slot : /\ PathOf(q, t)' = PathOf(q, t)
                                  /\ ModeOf(q, t)' = ModeOf(q, t)
  BY <1>1 DEF PathOf, ModeOf, Deleting
<1>3. /\ fd'[p][slot] = NoGeneration /\ mode'[p][slot] = "none"
      /\ \A q \in Proc, t \in Slot : <<q, t>> # <<p, slot>> =>
            fd'[q][t] = fd[q][t] /\ mode'[q][t] = mode[q][t]
  BY <1>1 DEF TypeOK
<1>4. Compatible' /\ ModesRight' /\ NoStrandedDescriptor'
  <2>1. \A q \in Proc, t \in Slot :
           \/ fd'[q][t] = fd[q][t] /\ mode'[q][t] = mode[q][t]
           \/ q = p /\ fd'[q][t] = NoGeneration /\ mode'[q][t] = "none"
    BY <1>3
  <2>2. QED
    BY <1>1, <1>2, <2>1, CloseKeeps
<1>5. Guarded'
  <2>1. slot = "opGuard" => fd[p]["op"] = NoGeneration
    BY SlotOrder DEF Release, Extra, Rank, Slot
  <2>2. slot = "leafGuard" => fd[p]["leaf"] = NoGeneration \/ leaf[p] = Registry
    BY SlotOrder DEF Release, Extra, Rank, Slot
  <2>3. QED
    BY <1>1, <1>3, <2>1, <2>2 DEF Guarded, Holds, Slot
<1>6. Phases'
  BY <1>1, <1>3 DEF Phases
<1>7. QED
  BY <1>4, <1>5, <1>6

LEMMA CrashKeeps ==
    ASSUME LockInv, TypeOK', NEW p \in Proc, Crash(p)
    PROVE  Compatible' /\ ModesRight' /\ Guarded' /\ Phases' /\ NoStrandedDescriptor'
<1> USE DEF LockInv
<1>1. \A t \in Slot : fd'[p][t] = NoGeneration /\ mode'[p][t] = "none"
  BY DEF Crash, TypeOK
<1>2. \A q \in Proc : q # p =>
         /\ phase'[q] = phase[q] /\ job'[q] = job[q] /\ target'[q] = target[q]
         /\ leaf'[q] = leaf[q] /\ tail'[q] = tail[q]
         /\ \A t \in Slot : fd'[q][t] = fd[q][t] /\ mode'[q][t] = mode[q][t]
  BY DEF Crash, Forget, TypeOK
<1>3. phase'[p] = "idle"
  BY DEF Crash, Forget, TypeOK
<1>4. \A q \in Proc, t \in Slot : q # p =>
         PathOf(q, t)' = PathOf(q, t) /\ ModeOf(q, t)' = ModeOf(q, t)
  BY <1>2 DEF PathOf, ModeOf, Deleting
<1>5. Compatible' /\ ModesRight' /\ NoStrandedDescriptor'
  <2>1. link' = link
    BY DEF Crash
  <2>2. QED
    BY <1>1, <1>2, <1>4, <2>1, CloseKeeps
<1>6. Guarded'
  BY <1>1, <1>2 DEF Guarded, Holds, Slot
<1>7. Phases'
  BY <1>1, <1>2, <1>3 DEF Phases, Slot
<1>8. QED
  BY <1>5, <1>6, <1>7

(* Nobody has a lock file open that a command is about to unlink: it would  *)
(* hold the guard shared, through the inode the command holds exclusively.  *)
LEMMA DoomedClosed ==
    ASSUME LockInv, NEW p \in Proc, phase[p] = "cleanup", Settled(p),
           NEW path \in Doomed(p), NEW q \in Proc, NEW t \in Slot,
           fd[q][t] # NoGeneration
    PROVE  PathOf(q, t) # path
<1> USE DEF LockInv
<1> SUFFICES ASSUME PathOf(q, t) = path
             PROVE  FALSE
  OBVIOUS
<1>1. \E s \in Server \union {NoServer} :
         path \in {<<"op", s>>} \union {<<a, s>> : a \in Artifact \ {Registry}}
  BY DEF Doomed, ServerFiles, TypeOK
<1>2. t = "op" \/ (t = "leaf" /\ leaf[q] # Registry)
  <2>1. path[1] \in {"op", "config", "credentials", "state"}
    BY <1>1, ArtifactAssumption DEF Registry
  <2>2. t = "leaf" /\ leaf[q] = Registry => path[1] = "registry"
    BY DEF PathOf, Registry
  <2>3. t # "op" /\ t # "leaf" =>
           path[1] \in {"namespace", "tailnetGlobal", "tailnet", "guard"}
    BY DEF PathOf, Guard, Slot
  <2>4. QED
    BY <2>1, <2>2, <2>3
<1>3. PICK g \in {"opGuard", "leafGuard"} : Holds(q, g)
  BY <1>2 DEF Guarded
<1>4. Holds(p, "cleanup")
  BY DEF Settled, Missing, Wanted, CleanupSlots, Holds, Slot
<1>5. /\ PathOf(q, g) = Guard /\ PathOf(p, "cleanup") = Guard
      /\ g \in Slot /\ "cleanup" \in Slot
  BY DEF PathOf, Slot
<1>6. fd[q][g] = fd[p]["cleanup"]
  BY <1>3, <1>4, <1>5 DEF NoStrandedDescriptor, TypeOK
<1>7. mode[p]["cleanup"] = "SH"
  BY <1>3, <1>4, <1>5, <1>6 DEF Compatible
<1>8. mode[p]["cleanup"] = "EX"
  BY <1>4, <1>5 DEF ModesRight, ModeOf
<1>9. QED
  BY <1>7, <1>8

LEMMA UnlinkKeeps ==
    ASSUME LockInv, NEW p \in Proc, Unlink(p)
    PROVE  Compatible' /\ ModesRight' /\ Guarded' /\ Phases' /\ NoStrandedDescriptor'
<1> USE DEF LockInv
<1>1. PICK path \in Doomed(p) : link' = [link EXCEPT ![path] = NoGeneration]
  BY DEF Unlink
<1>2. /\ UNCHANGED <<fd, mode, phase, job, target, leaf, tail, todo>>
      /\ phase[p] = "cleanup" /\ Settled(p)
  BY DEF Unlink, command
<1>3. \A q \in Proc, t \in Slot : /\ PathOf(q, t)' = PathOf(q, t)
                                  /\ ModeOf(q, t)' = ModeOf(q, t)
  BY <1>2 DEF PathOf, ModeOf, Deleting
<1>4. NoStrandedDescriptor'
  <2> SUFFICES ASSUME NEW q \in Proc, NEW t \in Slot, fd[q][t] # NoGeneration
               PROVE  link'[PathOf(q, t)] = fd[q][t]
    BY <1>2, <1>3 DEF NoStrandedDescriptor
  <2>1. PathOf(q, t) # path
    BY <1>2, DoomedClosed
  <2>2. link[PathOf(q, t)] = fd[q][t]
    BY DEF NoStrandedDescriptor
  <2>3. QED
    BY <1>1, <2>1, <2>2 DEF TypeOK
<1>5. Compatible' /\ ModesRight'
  BY <1>2, <1>3 DEF Compatible, ModesRight, Holds
<1>6. Guarded' /\ Phases'
  BY <1>2 DEF Guarded, Phases, Holds
<1>7. QED
  BY <1>4, <1>5, <1>6

(* Steps that only decide what to do next. *)
LEMMA DecisionKeeps ==
    ASSUME LockInv, NEW p \in Proc,
           \/ GiveUp(p) \/ Start(p) \/ BeginUpdate(p) \/ EndUpdate(p)
           \/ EnterPolicy(p) \/ LeavePolicy(p) \/ NextServer(p)
           \/ BeginCleanup(p) \/ BeginRecord(p) \/ EndRecord(p)
           \/ Finish(p) \/ Exit(p)
    PROVE  Compatible' /\ ModesRight' /\ Guarded' /\ Phases' /\ NoStrandedDescriptor'
<1> USE DEF LockInv
<1>1. UNCHANGED <<link, fd, mode>>
  BY DEF GiveUp, Start, BeginUpdate, EndUpdate, EnterPolicy, LeavePolicy,
         NextServer, BeginCleanup, BeginRecord, EndRecord, Finish, Exit
<1>2. \A q \in Proc : q # p =>
         /\ phase'[q] = phase[q] /\ job'[q] = job[q] /\ target'[q] = target[q]
         /\ leaf'[q] = leaf[q] /\ tail'[q] = tail[q]
  BY DEF GiveUp, Start, BeginUpdate, EndUpdate, EnterPolicy, LeavePolicy,
         NextServer, BeginCleanup, BeginRecord, EndRecord, Finish, Exit, Forget, TypeOK
<1>3. \A t \in Slot : fd[p][t] # NoGeneration =>
         PathOf(p, t)' = PathOf(p, t) /\ ModeOf(p, t)' = ModeOf(p, t)
  <2>1. CASE GiveUp(p) \/ EndUpdate(p) \/ LeavePolicy(p) \/ BeginCleanup(p) \/ Finish(p)
    BY <2>1 DEF GiveUp, EndUpdate, LeavePolicy, BeginCleanup, Finish, PathOf, ModeOf, Deleting
  <2>2. CASE Start(p)
    BY <2>2 DEF Start, Phases
  <2>3. CASE BeginUpdate(p)
    <3>1. fd[p]["leaf"] = NoGeneration
      BY <2>3, SMTT(60) DEF BeginUpdate, Settled, Extra, Wanted, Workflow, PolicySlots, Slot
    <3>2. UNCHANGED <<job, target, tail>>
      BY <2>3 DEF BeginUpdate
    <3>3. QED
      BY <3>1, <3>2 DEF PathOf, ModeOf, Deleting
  <2>4. CASE EnterPolicy(p)
    <3>1. fd[p]["tailnet"] = NoGeneration /\ fd[p]["tailnetGlobal"] = NoGeneration
      BY <2>4 DEF EnterPolicy, Settled, Extra, Wanted, Workflow, Slot
    <3>2. UNCHANGED <<job, target, leaf>>
      BY <2>4 DEF EnterPolicy
    <3>3. QED
      BY <3>1, <3>2 DEF PathOf, ModeOf, Deleting
  <2>5. CASE NextServer(p)
    <3>1. fd[p]["op"] = NoGeneration /\ fd[p]["leaf"] = NoGeneration
      BY <2>5 DEF NextServer, Settled, Extra, Wanted, Workflow, Slot
    <3>2. UNCHANGED <<job, leaf, tail>>
      BY <2>5 DEF NextServer
    <3>3. QED
      BY <3>1, <3>2 DEF PathOf, ModeOf, Deleting
  <2>6. CASE BeginRecord(p)
    <3>1. fd[p]["leaf"] = NoGeneration
      BY <2>6 DEF BeginRecord, Settled, Extra, Wanted, CleanupSlots, Slot
    <3>2. UNCHANGED <<job, target, tail>>
      BY <2>6 DEF BeginRecord
    <3>3. QED
      BY <3>1, <3>2 DEF PathOf, ModeOf, Deleting
  <2>7. CASE EndRecord(p)
    <3>1. fd[p]["op"] = NoGeneration
      BY <2>7 DEF EndRecord, Settled, Extra, Wanted, CleanupSlots, Slot
    <3>2. UNCHANGED <<job, leaf, tail>> /\ leaf[p] = Registry
      BY <2>7 DEF EndRecord, Phases
    <3>3. QED
      BY <3>1, <3>2 DEF PathOf, ModeOf, Deleting
  <2>8. CASE Exit(p)
    BY <2>8 DEF Exit, Settled, Extra, Wanted
  <2>9. QED
    BY <2>1, <2>2, <2>3, <2>4, <2>5, <2>6, <2>7, <2>8
<1>4. \A q \in Proc, t \in Slot : q # p =>
         PathOf(q, t)' = PathOf(q, t) /\ ModeOf(q, t)' = ModeOf(q, t)
  BY <1>2 DEF PathOf, ModeOf, Deleting
<1>5. Compatible' /\ ModesRight' /\ NoStrandedDescriptor'
  BY <1>1, <1>3, <1>4, QuietStep
<1>6. Guarded'
  <2>1. fd[p]["leaf"] # NoGeneration /\ leaf'[p] # Registry => leaf'[p] = leaf[p]
    <3>1. CASE BeginUpdate(p)
      BY <3>1, SMTT(60) DEF BeginUpdate, Settled, Extra, Wanted, Workflow, PolicySlots, Slot
    <3>2. CASE BeginRecord(p) \/ Exit(p)
      BY <3>2 DEF BeginRecord, Exit, Forget, TypeOK
    <3>3. CASE \/ GiveUp(p) \/ Start(p) \/ EndUpdate(p) \/ EnterPolicy(p) \/ LeavePolicy(p)
               \/ NextServer(p) \/ BeginCleanup(p) \/ EndRecord(p) \/ Finish(p)
      BY <3>3 DEF GiveUp, Start, EndUpdate, EnterPolicy, LeavePolicy,
                  NextServer, BeginCleanup, EndRecord, Finish
    <3>4. QED
      BY <3>1, <3>2, <3>3
  <2>2. QED
    BY <1>1, <1>2, <2>1 DEF Guarded, Holds
<1>7. Phases'
  <2> SUFFICES /\ phase'[p] = "idle" => \A slot \in Slot : fd[p][slot] = NoGeneration
               /\ phase'[p] # "idle" => job'[p].kind \in Commands /\ job'[p].ns \in Namespace
               /\ phase'[p] \in {"work", "policy", "update"}
                    /\ job'[p].kind \in {"create", "delete", "artifact", "approval"}
                    => target'[p] \in Server
               /\ phase'[p] = "policy" \/ fd[p]["tailnetGlobal"] # NoGeneration
                    => tail'[p] \in Tailnet
               /\ phase'[p] = "update" /\ leaf'[p] # Registry => target'[p] \in Server
               /\ phase'[p] = "record" => leaf'[p] = Registry
    BY <1>1, <1>2 DEF Phases
  <2>1. CASE Start(p)
    BY <2>1, HomeAssumption DEF Start, Phases, TypeOK, Idle, Slot
  <2>2. CASE BeginUpdate(p)
    BY <2>2 DEF BeginUpdate, Phases, TypeOK
  <2>3. CASE EndUpdate(p)
    <3>1. PolicySlots(p) \subseteq Held(p) => tail[p] \in Tailnet
      BY DEF PolicySlots, Held, Phases, TypeOK, Holds, Slot
    <3>2. QED
      BY <2>3, <3>1 DEF EndUpdate, Phases, TypeOK
  <2>4. CASE EnterPolicy(p)
    BY <2>4 DEF EnterPolicy, Phases, TypeOK
  <2>5. CASE GiveUp(p) \/ LeavePolicy(p) \/ BeginCleanup(p) \/ Finish(p)
    BY <2>5 DEF GiveUp, LeavePolicy, BeginCleanup, Finish, Phases, TypeOK
  <2>6. CASE NextServer(p)
    BY <2>6 DEF NextServer, Phases, TypeOK
  <2>7. CASE BeginRecord(p) \/ EndRecord(p)
    BY <2>7 DEF BeginRecord, EndRecord, Phases, TypeOK
  <2>8. CASE Exit(p)
    BY <2>8 DEF Exit, Forget, Settled, Extra, Wanted, TypeOK, Slot
  <2>9. QED
    BY <2>1, <2>2, <2>3, <2>4, <2>5, <2>6, <2>7, <2>8
<1>8. QED
  BY <1>5, <1>6, <1>7
-----------------------------------------------------------------------------
LEMMA LockStep ==
    ASSUME LockInv, TypeOK', [Next]_vars
    PROVE  LockInv'
<1>1. CASE UNCHANGED vars
  <2>1. UNCHANGED <<link, fd, mode, phase, job, target, leaf, tail, todo>>
    BY <1>1 DEF vars, command
  <2>2. \A q \in Proc, t \in Slot : /\ PathOf(q, t)' = PathOf(q, t)
                                    /\ ModeOf(q, t)' = ModeOf(q, t)
                                    /\ Holds(q, t)' = Holds(q, t)
    BY <2>1 DEF PathOf, ModeOf, Deleting, Holds
  <2>3. Compatible' /\ ModesRight' /\ NoStrandedDescriptor'
    BY <2>1, <2>2, QuietStep DEF LockInv
  <2>4. Guarded' /\ Phases'
    BY <2>1 DEF LockInv, Guarded, Phases, Holds
  <2>5. QED
    BY <2>3, <2>4 DEF LockInv
<1>2. ASSUME NEW p \in Proc, NEW slot \in Slot,
             Open(p, slot) \/ Flock(p, slot) \/ Release(p, slot)
      PROVE  LockInv'
  BY <1>2, OpenKeeps, FlockKeeps, ReleaseKeeps DEF LockInv
<1>3. ASSUME NEW p \in Proc, Unlink(p) \/ Crash(p)
      PROVE  LockInv'
  BY <1>3, UnlinkKeeps, CrashKeeps DEF LockInv
<1>4. ASSUME NEW p \in Proc,
             \/ GiveUp(p) \/ Start(p) \/ BeginUpdate(p) \/ EndUpdate(p)
             \/ EnterPolicy(p) \/ LeavePolicy(p) \/ NextServer(p)
             \/ BeginCleanup(p) \/ BeginRecord(p) \/ EndRecord(p)
             \/ Finish(p) \/ Exit(p)
      PROVE  LockInv'
  BY <1>4, DecisionKeeps DEF LockInv
<1>5. QED
  BY <1>1, <1>2, <1>3, <1>4 DEF Next, Step

(* The strengthened invariant holds in every run: this is where the guard's *)
(* protocol in registry_lock.go meets the unlinks of a delete.              *)
THEOREM LockInvariant == Spec => []LockInv
<1>1. Init => LockInv
  <2> SUFFICES ASSUME Init PROVE LockInv
    OBVIOUS
  <2>1. TypeOK
    BY DEF Init, TypeOK, Idle, Mode, Phase, Holds
  <2>2. Compatible /\ ModesRight /\ Guarded /\ Phases /\ NoStrandedDescriptor
    BY DEF Init, Compatible, ModesRight, Guarded, Phases, NoStrandedDescriptor,
           Holds, Slot
  <2>3. QED
    BY <2>1, <2>2 DEF LockInv
<1>2. LockInv /\ TypeOK' /\ [Next]_vars => LockInv'
  BY LockStep
<1>3. QED
  BY <1>1, <1>2, TypeCorrect, PTL DEF Spec

(* No command ever holds or waits on a lock file that a delete has removed: *)
(* lockLocalArtifact takes the guard before it opens the file.              *)
THEOREM NeverStranded == Spec => []NoStrandedDescriptor
<1>1. LockInv => NoStrandedDescriptor
  BY DEF LockInv
<1>2. QED
  BY <1>1, LockInvariant, PTL

(* "LockServerOperation serializes create, import, and delete workflows     *)
(* for one canonical server identity", and each artifact has one writer.    *)
THEOREM ServersExclusive == Spec => []ServerExclusion
<1>1. LockInv => ServerExclusion
  <2> SUFFICES ASSUME LockInv, NEW p \in Proc, NEW q \in Proc, NEW slot \in {"op", "leaf"},
                      Holds(p, slot), Holds(q, slot), PathOf(p, slot) = PathOf(q, slot)
               PROVE  p = q
    BY DEF ServerExclusion, PathOf
  <2>1. slot \in Slot
    BY DEF Slot
  <2>2. fd[p][slot] = fd[q][slot]
    BY <2>1 DEF LockInv, TypeOK, NoStrandedDescriptor
  <2>3. mode[p][slot] = "EX"
    BY <2>1 DEF LockInv, ModesRight, ModeOf
  <2>4. QED
    BY <2>1, <2>2, <2>3 DEF LockInv, Compatible
<1>2. QED
  BY <1>1, LockInvariant, PTL

(* removeCanonicalServerDeleteLocalArtifacts and the namespace cleanup      *)
(* unlink a lock file only while no command has it open.                    *)
THEOREM UnlinksOnlyClosed == Spec => UnlinkOnlyClosed
<1> DEFINE Safe ==
       \A path \in Path :
          link[path] # NoGeneration /\ link'[path] = NoGeneration
          => \A q \in Proc, t \in Slot :
                ~(fd[q][t] # NoGeneration /\ PathOf(q, t) = path)
<1>1. LockInv /\ [Next]_vars => [Safe]_vars
  <2> SUFFICES ASSUME LockInv, Next, NEW path \in Path,
                      link[path] # NoGeneration, link'[path] = NoGeneration,
                      NEW q \in Proc, NEW t \in Slot, fd[q][t] # NoGeneration
               PROVE  PathOf(q, t) # path
    OBVIOUS
  <2>1. ASSUME NEW p \in Proc, NEW slot \in Slot, Open(p, slot)
        PROVE  FALSE
    <3>1. PICK g \in Generation : link' = [link EXCEPT ![PathOf(p, slot)] = g]
      BY <2>1 DEF Open
    <3>2. QED
      BY <3>1, NoGenerationAssumption DEF LockInv, TypeOK
  <2>2. ASSUME NEW p \in Proc, Unlink(p)
        PROVE  PathOf(q, t) # path
    <3>1. PICK gone \in Doomed(p) : link' = [link EXCEPT ![gone] = NoGeneration]
      BY <2>2 DEF Unlink
    <3>2. gone = path
      BY <3>1 DEF LockInv, TypeOK
    <3>3. QED
      BY <2>2, <3>2, DoomedClosed DEF Unlink
  <2>3. link' = link \/ \E p \in Proc : Unlink(p) \/ \E slot \in Slot : Open(p, slot)
    BY DEF Next, Step, Flock, Release, GiveUp, Start, BeginUpdate, EndUpdate,
           EnterPolicy, LeavePolicy, NextServer, BeginCleanup, BeginRecord,
           EndRecord, Finish, Exit, Crash
  <2>4. QED
    BY <2>1, <2>2, <2>3
<1>2. QED
  BY <1>1, LockInvariant, PTL DEF Spec, UnlinkOnlyClosed

(* LockTailnetPolicy: two commands in the policy of one tailnet never meet, *)
(* and a command on the token's own tailnet meets nobody, because every     *)
(* other holds the global lock in the mode that its tailnet asks for.       *)
THEOREM PoliciesExclusive == Spec => []PolicyExclusion
<1>1. LockInv => PolicyExclusion
  <2> SUFFICES ASSUME LockInv, NEW p \in Proc, NEW q \in Proc, p # q,
                      phase[p] = "policy", Settled(p), phase[q] = "policy", Settled(q)
               PROVE  tail[p] # tail[q] /\ TokenRelative \notin {tail[p], tail[q]}
    BY DEF PolicyExclusion
  <2>1. \A r \in {p, q} :
           /\ Holds(r, "tailnetGlobal")
           /\ tail[r] # TokenRelative => Holds(r, "tailnet")
    <3> SUFFICES ASSUME NEW r \in {p, q}
                 PROVE  /\ mode[r]["tailnetGlobal"] # "none"
                        /\ tail[r] # TokenRelative => mode[r]["tailnet"] # "none"
      BY DEF Holds
    <3>1. Missing(r) = {} /\ PolicySlots(r) \subseteq Wanted(r)
      BY DEF Settled, Wanted
    <3> QED BY <3>1 DEF Missing, PolicySlots
  <2>2. \A slot \in {"tailnetGlobal", "tailnet"} :
           /\ slot \in Slot
           /\ Holds(p, slot) /\ Holds(q, slot) /\ PathOf(p, slot) = PathOf(q, slot)
                => ModeOf(p, slot) = "SH" /\ ModeOf(q, slot) = "SH"
    <3>1. {"tailnetGlobal", "tailnet"} \subseteq Slot
      BY DEF Slot
    <3>2. ASSUME NEW slot \in Slot, Holds(p, slot), Holds(q, slot),
                 PathOf(p, slot) = PathOf(q, slot)
          PROVE  ModeOf(p, slot) = "SH" /\ ModeOf(q, slot) = "SH"
      <4>1. fd[p][slot] = fd[q][slot]
        BY <3>2, SMTT(60) DEF LockInv, TypeOK, NoStrandedDescriptor
      <4>2. mode[p][slot] = "SH" /\ mode[q][slot] = "SH"
        BY <3>2, <4>1 DEF LockInv, Compatible
      <4> QED BY <3>2, <4>2 DEF LockInv, ModesRight
    <3> QED BY <3>1, <3>2
  <2>3. TokenRelative \notin {tail[p], tail[q]}
    BY <2>1, <2>2 DEF PathOf, ModeOf
  <2>4. tail[p] # tail[q]
    BY <2>1, <2>2, <2>3 DEF PathOf, ModeOf
  <2> QED BY <2>3, <2>4
<1> QED BY <1>1, LockInvariant, PTL
-----------------------------------------------------------------------------
(* The lock files implement ServerAuthority *)

(* A command opens the lock of a server inside the namespace of the server, *)
(* and turns to another server only with that lock closed.                  *)
OwnsInside ==
    \A p \in Proc :
        /\ fd[p]["op"] # NoGeneration => Holds(p, "namespace") /\ target[p] \in Server
        /\ target[p] \in Server => Home[target[p]] = job[p].ns
        /\ \A s \in todo[p] : Home[s] = job[p].ns

(* The part of the lock order that the namespace lock rests on.             *)
LEMMA NamespaceOutermost ==
  ASSUME NEW p \in Proc, "op" \in Wanted(p)
  PROVE  "namespace" \in Wanted(p)
<1>1. "op" \in Workflow(p) => "namespace" \in Workflow(p)
  BY DEF Workflow
<1>2. "op" \notin PolicySlots(p) \union LeafSlots(p) \union CleanupSlots(p)
  BY DEF PolicySlots, LeafSlots, CleanupSlots
<1> QED BY <1>1, <1>2 DEF Wanted

(* A settled command has no server lock open in a phase that wants none.    *)
LEMMA SettledClosed ==
  ASSUME LockInv, NEW p \in Proc, Settled(p), NEW slot \in Slot, slot \notin Wanted(p)
  PROVE  fd[p][slot] = NoGeneration /\ mode[p][slot] = "none"
  BY DEF Settled, Extra, LockInv, TypeOK, Holds

LEMMA TurnsWithoutLock ==
  ASSUME LockInv, NEW p \in Proc, NextServer(p) \/ EndRecord(p) \/ Exit(p)
  PROVE  fd[p]["op"] = NoGeneration /\ mode[p]["op"] = "none"
<1>1. "op" \notin Wanted(p)
  <2>1. NextServer(p) => Wanted(p) = {"namespace"}
    BY DEF NextServer, Wanted, Workflow
  <2>2. EndRecord(p) => Wanted(p) = CleanupSlots(p) \union {"leaf"}
    BY DEF EndRecord, Wanted
  <2>3. Exit(p) => Wanted(p) = {}
    BY DEF Exit, Wanted
  <2> QED BY <2>1, <2>2, <2>3 DEF CleanupSlots
<1> QED BY <1>1, SettledClosed DEF NextServer, EndRecord, Exit, Slot

(* The namespace lock is the last that a command lets go of.                *)
LEMMA NamespaceLast ==
  ASSUME LockInv, NEW p \in Proc, Release(p, "namespace")
  PROVE  fd[p]["op"] = NoGeneration
<1>1. "namespace" \notin Wanted(p)
  BY DEF Release, Extra
<1>2. "op" \notin Wanted(p)
  BY <1>1, NamespaceOutermost
<1> QED BY <1>2 DEF Release, Extra, Rank, Slot

LEMMA OwnsInsideStep ==
  ASSUME LockInv, OwnsInside, [Next]_vars
  PROVE  OwnsInside'
<1>1. CASE UNCHANGED vars
  BY <1>1 DEF OwnsInside, Holds, vars, command
<1>2. ASSUME NEW p \in Proc, NEW slot \in Slot, Open(p, slot)
      PROVE  OwnsInside'
  <2>1. PICK g \in Generation : fd' = [fd EXCEPT ![p][slot] = g]
    BY <1>2 DEF Open
  <2>2. UNCHANGED <<mode, job, target, todo>> /\ IsNext(p, slot)
    BY <1>2 DEF Open, command
  <2>3. slot = "op" => Holds(p, "namespace") /\ target[p] \in Server
    <3> SUFFICES ASSUME slot = "op" PROVE Holds(p, "namespace") /\ target[p] \in Server
      OBVIOUS
    <3>1. "op" \in Wanted(p) /\ "namespace" \in Wanted(p)
      BY <2>2, NamespaceOutermost DEF IsNext, Missing
    <3>2. "namespace" \notin Missing(p)
      BY <2>2 DEF IsNext, Rank
    <3>3. PathOf(p, "op") \in Path
      BY <2>2, NextPath DEF LockInv
    <3>4. target[p] \in Server
      <4>1. "op" \in Workflow(p) /\ phase[p] \in {"work", "policy", "update"}
        BY <3>1 DEF Wanted, PolicySlots, LeafSlots, CleanupSlots
      <4> QED BY <4>1 DEF Workflow, LockInv, Phases, TypeOK
    <3> QED BY <3>1, <3>2, <3>4 DEF Missing, Holds
  <2> QED BY <2>1, <2>2, <2>3 DEF OwnsInside, LockInv, TypeOK, Holds
<1>3. ASSUME NEW p \in Proc, NEW slot \in Slot, Flock(p, slot)
      PROVE  OwnsInside'
  <2>1. ModeOf(p, slot) # "none"
    BY DEF ModeOf
  <2> QED BY <1>3, <2>1 DEF Flock, command, OwnsInside, LockInv, TypeOK, Holds, Slot
<1>4. ASSUME NEW p \in Proc, NEW slot \in Slot, Release(p, slot)
      PROVE  OwnsInside'
  <2>1. slot = "namespace" => fd[p]["op"] = NoGeneration
    BY <1>4, NamespaceLast
  <2> QED BY <1>4, <2>1 DEF Release, command, OwnsInside, LockInv, TypeOK, Holds, Slot
<1>5. ASSUME NEW p \in Proc, Start(p)
      PROVE  OwnsInside'
  <2>1. fd[p]["op"] = NoGeneration
    BY <1>5 DEF Start, LockInv, Phases, Slot
  <2>2. PICK kind \in Commands, s \in Server, rest \in SUBSET Server :
          /\ job' = [job EXCEPT ![p] = [kind |-> kind, ns |-> Home[s]]]
          /\ target' = [target EXCEPT ![p] =
                 IF kind \in {"namespaceDelete", "namespaceCreate", "reconcile"}
                 THEN NoServer ELSE s]
          /\ IF kind = "namespaceDelete"
               THEN \A other \in rest : Home[other] = Home[s]
               ELSE rest = {}
          /\ todo' = [todo EXCEPT ![p] = rest]
    BY <1>5 DEF Start
  <2>3. \A other \in rest : Home[other] = Home[s]
    BY <2>2
  <2> QED BY <1>5, <2>1, <2>2, <2>3, NoServerAssumption
          DEF Start, OwnsInside, LockInv, TypeOK, Holds
<1>6. ASSUME NEW p \in Proc, NextServer(p)
      PROVE  OwnsInside'
  <2>1. PICK s \in todo[p] : /\ target' = [target EXCEPT ![p] = s]
                             /\ todo' = [todo EXCEPT ![p] = @ \ {s}]
    BY <1>6 DEF NextServer
  <2> QED BY <1>6, <2>1, TurnsWithoutLock DEF NextServer, OwnsInside, LockInv, TypeOK, Holds
<1>7. ASSUME NEW p \in Proc, EndRecord(p) \/ Exit(p)
      PROVE  OwnsInside'
  <2>1. fd[p]["op"] = NoGeneration
    BY <1>7, TurnsWithoutLock
  <2>2. CASE EndRecord(p)
    BY <2>1, <2>2, NoServerAssumption DEF EndRecord, OwnsInside, LockInv, TypeOK, Holds
  <2>3. CASE Exit(p)
    BY <2>1, <2>3, NoServerAssumption DEF Exit, Forget, OwnsInside, LockInv, TypeOK, Holds
  <2> QED BY <1>7, <2>2, <2>3
<1>8. ASSUME NEW p \in Proc, Crash(p)
      PROVE  OwnsInside'
  BY <1>8, NoServerAssumption DEF Crash, Forget, OwnsInside, LockInv, TypeOK, Holds, Slot
<1>9. ASSUME NEW p \in Proc,
             \/ GiveUp(p) \/ BeginUpdate(p) \/ EndUpdate(p) \/ EnterPolicy(p)
             \/ LeavePolicy(p) \/ BeginCleanup(p) \/ Unlink(p) \/ BeginRecord(p) \/ Finish(p)
      PROVE  OwnsInside'
  <2>1. UNCHANGED <<fd, mode, job, target, todo>>
    BY <1>9 DEF GiveUp, BeginUpdate, EndUpdate, EnterPolicy, LeavePolicy, BeginCleanup,
                Unlink, BeginRecord, Finish, command
  <2> QED BY <2>1 DEF OwnsInside, Holds
<1> QED BY <1>1, <1>2, <1>3, <1>4, <1>5, <1>6, <1>7, <1>8, <1>9 DEF Next, Step

Sharing == [n \in Namespace |-> {p \in Proc : mode[p]["namespace"] = "SH" /\ job[p].ns = n}]
Excluding == [n \in Namespace |-> {p \in Proc : mode[p]["namespace"] = "EX" /\ job[p].ns = n}]
Owning == [s \in Server |-> {p \in Proc : Holds(p, "op") /\ target[p] = s}]
Abstract == <<Sharing, Excluding, Owning>>

(* What the steps that take and drop no namespace or server lock keep.      *)
LEMMA AbstractStays ==
  ASSUME \A p \in Proc : /\ mode'[p]["namespace"] = mode[p]["namespace"]
                         /\ mode'[p]["op"] = mode[p]["op"]
                         /\ mode[p]["namespace"] # "none" => job'[p].ns = job[p].ns
                         /\ mode[p]["op"] # "none" => target'[p] = target[p]
  PROVE  UNCHANGED Abstract
<1>1. Sharing' = Sharing
  <2>1. \A n \in Namespace, p \in Proc :
          mode'[p]["namespace"] = "SH" /\ job'[p].ns = n
            <=> mode[p]["namespace"] = "SH" /\ job[p].ns = n
    OBVIOUS
  <2> QED BY <2>1 DEF Sharing
<1>2. Excluding' = Excluding
  <2>1. \A n \in Namespace, p \in Proc :
          mode'[p]["namespace"] = "EX" /\ job'[p].ns = n
            <=> mode[p]["namespace"] = "EX" /\ job[p].ns = n
    OBVIOUS
  <2> QED BY <2>1 DEF Excluding
<1>3. Owning' = Owning
  BY DEF Owning, Holds
<1> QED BY <1>1, <1>2, <1>3 DEF Abstract

(* A granted namespace lock excludes whom ServerAuthority excludes: both    *)
(* commands have the inode open that the path of the lock leads to.         *)
LEMMA NamespaceGranted ==
  ASSUME LockInv, NEW p \in Proc, Flock(p, "namespace"),
         NEW q \in Proc, mode[q]["namespace"] # "none", job[q].ns = job[p].ns
  PROVE  ModeOf(p, "namespace") = "SH" /\ mode[q]["namespace"] = "SH"
<1>1. mode[p]["namespace"] = "none" /\ fd[p]["namespace"] # NoGeneration
  BY DEF Flock, IsNext
<1>2. PathOf(q, "namespace") = PathOf(p, "namespace")
  BY DEF PathOf
<1>3. fd[q]["namespace"] = fd[p]["namespace"]
  BY <1>1, <1>2, SMTT(60) DEF LockInv, TypeOK, NoStrandedDescriptor, Holds, Slot
<1> QED BY <1>1, <1>2, <1>3 DEF Flock, Grantable, Slot

LEMMA ServerGranted ==
  ASSUME LockInv, NEW p \in Proc, Flock(p, "op"),
         NEW q \in Proc, mode[q]["op"] # "none"
  PROVE  target[q] # target[p]
<1> SUFFICES ASSUME target[q] = target[p] PROVE FALSE
  OBVIOUS
<1>1. mode[p]["op"] = "none" /\ fd[p]["op"] # NoGeneration
  BY DEF Flock, IsNext
<1>2. PathOf(q, "op") = PathOf(p, "op")
  BY DEF PathOf
<1>3. fd[q]["op"] = fd[p]["op"]
  BY <1>1, <1>2 DEF LockInv, TypeOK, NoStrandedDescriptor, Holds, Slot
<1>4. ModeOf(p, "op") = "EX"
  BY DEF ModeOf
<1> QED BY <1>1, <1>2, <1>3, <1>4 DEF Flock, Grantable, Slot

LEMMA AuthorityOfNamespace ==
  ASSUME NEW p \in Proc, NEW n \in Namespace,
         Authority!Share(p, n) \/ Authority!Exclude(p, n) \/ Authority!LeaveNamespace(p, n)
  PROVE  Authority!AuthorityNext
  BY DEF Authority!AuthorityNext

LEMMA AuthorityOfServer ==
  ASSUME NEW p \in Proc, NEW s \in Server, Authority!Own(p, s) \/ Authority!Disown(p, s)
  PROVE  Authority!AuthorityNext
  BY DEF Authority!AuthorityNext

LEMMA FlockAuthority ==
  ASSUME LockInv, OwnsInside, NEW p \in Proc, NEW slot \in Slot, Flock(p, slot)
  PROVE  Authority!AuthorityNext \/ UNCHANGED Abstract
<1>1. /\ mode'[p][slot] = ModeOf(p, slot)
      /\ \A q \in Proc, t \in Slot : <<q, t>> # <<p, slot>> => mode'[q][t] = mode[q][t]
      /\ UNCHANGED <<job, target>> /\ mode[p][slot] = "none" /\ fd[p][slot] # NoGeneration
  BY DEF Flock, command, IsNext, LockInv, TypeOK
<1>2. CASE slot = "namespace"
  <2>1. PICK n \in Namespace : n = job[p].ns
    BY <1>1 DEF LockInv, Phases
  <2>2. \A q \in Proc \ {p} : mode'[q]["namespace"] = mode[q]["namespace"]
    BY <1>1, <1>2 DEF Slot
  <2>3. UNCHANGED Owning
    <3>1. \A q \in Proc : mode'[q]["op"] = mode[q]["op"]
      BY <1>1, <1>2 DEF Slot
    <3> QED BY <1>1, <3>1 DEF Owning, Holds
  <2>4. CASE ModeOf(p, "namespace") = "SH"
    <3>1. Excluding[n] = {}
      BY <1>2, <2>1, NamespaceGranted DEF Excluding
    <3>2. Sharing' = [Sharing EXCEPT ![n] = @ \union {p}]
      BY <1>1, <1>2, <2>1, <2>2, <2>4, ZenonT(60) DEF Sharing
    <3>3. Excluding' = Excluding
      BY <1>1, <1>2, <2>2, <2>4 DEF Excluding
    <3>4. Authority!Share(p, n)
      BY <2>3, <3>1, <3>2, <3>3 DEF Authority!Share, Sharing, Excluding, Owning
    <3> QED BY <2>1, <3>4, AuthorityOfNamespace
  <2>5. CASE ModeOf(p, "namespace") # "SH"
    <3>1. Excluding[n] = {} /\ Sharing[n] = {}
      BY <1>2, <2>1, <2>5, NamespaceGranted DEF Excluding, Sharing
    <3>2. ModeOf(p, "namespace") = "EX"
      BY <2>5 DEF ModeOf
    <3>3. Excluding' = [Excluding EXCEPT ![n] = {p}]
      <4>1. Excluding'[n] = {p}
        BY <1>1, <1>2, <2>1, <2>2, <3>1, <3>2, ZenonT(60) DEF Excluding
      <4>2. \A m \in Namespace \ {n} : Excluding'[m] = Excluding[m]
        BY <1>1, <1>2, <2>1, <2>2 DEF Excluding
      <4> QED BY <2>1, <4>1, <4>2 DEF Excluding
    <3>4. Sharing' = Sharing
      BY <1>1, <1>2, <2>2, <3>2 DEF Sharing
    <3>5. Authority!Exclude(p, n)
      BY <2>3, <3>1, <3>3, <3>4 DEF Authority!Exclude, Sharing, Excluding, Owning
    <3> QED BY <2>1, <3>5, AuthorityOfNamespace
  <2> QED BY <2>4, <2>5
<1>3. CASE slot = "op"
  <2>1. PICK s \in Server :
          s = target[p] /\ mode[p]["namespace"] # "none" /\ Home[s] = job[p].ns
    BY <1>1, <1>3 DEF OwnsInside, Holds
  <2>2. Home[s] \in Namespace
    BY <2>1, HomeAssumption
  <2>3. \A q \in Proc : mode'[q]["namespace"] = mode[q]["namespace"]
    BY <1>1, <1>3 DEF Slot
  <2>4. UNCHANGED <<Sharing, Excluding>>
    BY <1>1, <2>3 DEF Sharing, Excluding
  <2>5. mode[p]["namespace"] \in {"SH", "EX"}
    BY <2>1 DEF LockInv, TypeOK, Mode, Slot
  <2>6. p \in Sharing[Home[s]] \union Excluding[Home[s]]
    BY <2>1, <2>2, <2>5 DEF Sharing, Excluding
  <2>7. Owning[s] = {}
    BY <1>3, <2>1, ServerGranted DEF Owning, Holds
  <2>8. /\ mode'[p]["op"] # "none"
        /\ \A q \in Proc \ {p} : mode'[q]["op"] = mode[q]["op"]
    BY <1>1, <1>3 DEF ModeOf, Slot
  <2>9. Owning' = [Owning EXCEPT ![s] = {p}]
    <3>1. \A r \in Server : r # s => Owning'[r] = Owning[r]
      BY <1>1, <1>3, <2>1, <2>8 DEF Owning, Holds
    <3>2. Owning'[s] = {p}
      BY <1>1, <2>1, <2>7, <2>8, ZenonT(60) DEF Owning, Holds
    <3> QED BY <2>1, <3>1, <3>2 DEF Owning
  <2>10. Authority!Own(p, s)
    BY <2>4, <2>6, <2>7, <2>9 DEF Authority!Own, Sharing, Excluding, Owning
  <2> QED BY <2>1, <2>10, AuthorityOfServer
<1>4. CASE slot \notin {"namespace", "op"}
  <2>1. \A q \in Proc : mode'[q]["namespace"] = mode[q]["namespace"]
                          /\ mode'[q]["op"] = mode[q]["op"]
    BY <1>1, <1>4 DEF Slot
  <2> QED BY <1>1, <2>1, AbstractStays
<1> QED BY <1>2, <1>3, <1>4

LEMMA ReleaseAuthority ==
  ASSUME LockInv, OwnsInside, NEW p \in Proc, NEW slot \in Slot, Release(p, slot)
  PROVE  Authority!AuthorityNext \/ UNCHANGED Abstract
<1>1. /\ mode'[p][slot] = "none" /\ fd[p][slot] # NoGeneration
      /\ \A q \in Proc, t \in Slot : <<q, t>> # <<p, slot>> => mode'[q][t] = mode[q][t]
      /\ UNCHANGED <<job, target>>
  BY DEF Release, command, LockInv, TypeOK
<1>2. CASE slot = "namespace"
  <2>1. PICK n \in Namespace : n = job[p].ns
    BY <1>1 DEF LockInv, Phases
  <2>2. \A q \in Proc \ {p} : mode'[q]["namespace"] = mode[q]["namespace"]
    BY <1>1, <1>2 DEF Slot
  <2>3. UNCHANGED Owning
    <3>1. \A q \in Proc : mode'[q]["op"] = mode[q]["op"]
      BY <1>1, <1>2 DEF Slot
    <3> QED BY <1>1, <3>1 DEF Owning, Holds
  <2>4. \A s \in Server : p \notin Owning[s]
    BY <1>2, NamespaceLast DEF Owning, LockInv, TypeOK, Slot
  <2>5. Sharing' = [Sharing EXCEPT ![n] = @ \ {p}]
    BY <1>1, <1>2, <2>1, <2>2, ZenonT(60) DEF Sharing
  <2>6. Excluding' = [Excluding EXCEPT ![n] = @ \ {p}]
    BY <1>1, <1>2, <2>1, <2>2, ZenonT(60) DEF Excluding
  <2>7. Authority!LeaveNamespace(p, n)
    BY <2>3, <2>4, <2>5, <2>6 DEF Authority!LeaveNamespace, Sharing, Excluding, Owning
  <2> QED BY <2>1, <2>7, AuthorityOfNamespace
<1>3. CASE slot = "op" /\ Holds(p, "op")
  <2>1. PICK s \in Server : s = target[p] /\ p \in Owning[s]
    BY <1>1, <1>3 DEF OwnsInside, Owning
  <2>2. \A q \in Proc : mode'[q]["namespace"] = mode[q]["namespace"]
    BY <1>1, <1>3 DEF Slot
  <2>3. UNCHANGED <<Sharing, Excluding>>
    BY <1>1, <2>2 DEF Sharing, Excluding
  <2>4. \A q \in Proc \ {p} : mode'[q]["op"] = mode[q]["op"]
    BY <1>1, <1>3 DEF Slot
  <2>5. Owning' = [Owning EXCEPT ![s] = @ \ {p}]
    BY <1>1, <1>3, <2>1, <2>4, ZenonT(60) DEF Owning, Holds
  <2>6. Authority!Disown(p, s)
    BY <2>1, <2>3, <2>5 DEF Authority!Disown, Sharing, Excluding, Owning
  <2> QED BY <2>1, <2>6, AuthorityOfServer
<1>4. CASE slot # "namespace" /\ ~(slot = "op" /\ Holds(p, "op"))
  <2>1. \A q \in Proc : mode'[q]["namespace"] = mode[q]["namespace"]
                          /\ mode'[q]["op"] = mode[q]["op"]
    BY <1>1, <1>4 DEF Slot, Holds
  <2> QED BY <1>1, <2>1, AbstractStays
<1> QED BY <1>2, <1>3, <1>4

LEMMA CrashAuthority ==
  ASSUME LockInv, NEW p \in Proc, Crash(p)
  PROVE  Authority!AuthorityNext
<1>1. /\ \A t \in Slot : mode'[p][t] = "none"
      /\ \A q \in Proc \ {p} : mode'[q] = mode[q] /\ job'[q] = job[q] /\ target'[q] = target[q]
  BY DEF Crash, Forget, LockInv, TypeOK
<1>2. Sharing' = [n \in Namespace |-> Sharing[n] \ {p}]
  BY <1>1 DEF Sharing, Slot
<1>3. Excluding' = [n \in Namespace |-> Excluding[n] \ {p}]
  BY <1>1 DEF Excluding, Slot
<1>4. Owning' = [s \in Server |-> Owning[s] \ {p}]
  BY <1>1 DEF Owning, Holds, Slot
<1>5. Authority!Die(p)
  BY <1>2, <1>3, <1>4 DEF Authority!Die, Sharing, Excluding, Owning
<1> QED BY <1>5 DEF Authority!AuthorityNext

LEMMA DecisionAuthority ==
  ASSUME LockInv, NEW p \in Proc,
         \/ \E slot \in Slot : Open(p, slot)
         \/ GiveUp(p) \/ Start(p) \/ BeginUpdate(p) \/ EndUpdate(p)
         \/ EnterPolicy(p) \/ LeavePolicy(p) \/ NextServer(p) \/ BeginCleanup(p)
         \/ Unlink(p) \/ BeginRecord(p) \/ EndRecord(p) \/ Finish(p) \/ Exit(p)
  PROVE  UNCHANGED Abstract
<1>1. mode' = mode
  BY DEF Open, GiveUp, Start, BeginUpdate, EndUpdate, EnterPolicy, LeavePolicy, NextServer,
         BeginCleanup, Unlink, BeginRecord, EndRecord, Finish, Exit
<1>2. CASE Start(p)
  <2>1. mode[p]["namespace"] = "none" /\ mode[p]["op"] = "none"
    BY <1>2 DEF Start, LockInv, Phases, TypeOK, Holds, Slot
  <2>2. \A q \in Proc \ {p} : job'[q] = job[q] /\ target'[q] = target[q]
    BY <1>2 DEF Start, LockInv, TypeOK
  <2> QED BY <1>1, <2>1, <2>2, AbstractStays
<1>3. CASE NextServer(p) \/ EndRecord(p)
  <2>1. mode[p]["op"] = "none" /\ job' = job
    BY <1>3, TurnsWithoutLock DEF NextServer, EndRecord
  <2>2. \A q \in Proc \ {p} : target'[q] = target[q]
    BY <1>3 DEF NextServer, EndRecord, LockInv, TypeOK
  <2> QED BY <1>1, <2>1, <2>2, AbstractStays
<1>4. CASE Exit(p)
  <2>1. mode[p]["namespace"] = "none" /\ mode[p]["op"] = "none"
    BY <1>4, SettledClosed DEF Exit, Wanted, Slot
  <2>2. \A q \in Proc \ {p} : job'[q] = job[q] /\ target'[q] = target[q]
    BY <1>4 DEF Exit, Forget, LockInv, TypeOK
  <2> QED BY <1>1, <2>1, <2>2, AbstractStays
<1>5. CASE \/ \E slot \in Slot : Open(p, slot)
           \/ GiveUp(p) \/ BeginUpdate(p) \/ EndUpdate(p) \/ EnterPolicy(p) \/ LeavePolicy(p)
           \/ BeginCleanup(p) \/ Unlink(p) \/ BeginRecord(p) \/ Finish(p)
  <2>1. UNCHANGED <<job, target>>
    BY <1>5 DEF Open, GiveUp, BeginUpdate, EndUpdate, EnterPolicy, LeavePolicy, BeginCleanup,
                Unlink, BeginRecord, Finish, command
  <2> QED BY <1>1, <2>1, AbstractStays
<1> QED BY <1>2, <1>3, <1>4, <1>5

(* LockServerWorkflow, LockNamespaceOperation and the deletes keep what     *)
(* module ServerAuthority promises: each step with the lock files shares,   *)
(* excludes, owns or lets go in the one place, or changes nothing there.    *)
THEOREM LocksKeepAuthority == Spec => KeepsAuthority
<1>1. Init => Authority!AuthorityInit
  BY DEF Init, Authority!AuthorityInit, Holds, Slot
<1>2. Init => OwnsInside
  BY NoServerAssumption DEF Init, OwnsInside, Slot
<1>3. ASSUME LockInv, OwnsInside, [Next]_vars
      PROVE  [Authority!AuthorityNext]_(Authority!authority)
  <2>1. Authority!AuthorityNext \/ UNCHANGED Abstract
    <3>1. CASE UNCHANGED vars
      BY <3>1, AbstractStays DEF vars, command
    <3>2. CASE Next
      BY <1>3, <3>2, FlockAuthority, ReleaseAuthority, CrashAuthority, DecisionAuthority
         DEF Next, Step
    <3> QED BY <1>3, <3>1, <3>2
  <2> QED BY <2>1 DEF Abstract, Sharing, Excluding, Owning, Authority!authority
<1>4. LockInv /\ OwnsInside /\ [Next]_vars => OwnsInside'
  BY OwnsInsideStep
<1> QED BY <1>1, <1>2, <1>3, <1>4, LockInvariant, PTL
        DEF Spec, KeepsAuthority, Authority!AuthoritySpec
=============================================================================
