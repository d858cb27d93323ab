------------------------- MODULE LocalArtifactsProofs -------------------------
(***************************************************************************)
(* What holds of LocalArtifacts for any number of commands, servers,       *)
(* vendors, edits, losses and early ends.                                  *)
(*                                                                         *)
(* Every part of the invariant is about one command: what it found and has *)
(* written, as long as it has its locks.  A workflow shares the namespace  *)
(* only with workflows of other servers, a delete is alone past its        *)
(* approval; so what others do meanwhile is what needs no lock: approvals  *)
(* that fill credentials, edits, secrets that are stored, lost files.      *)
(***************************************************************************)
EXTENDS LocalArtifacts, FiniteSetTheorems, TLAPS

(* The commands and what they have in memory *)

ConfigFile == {NoFile} \union SUBSET (1 .. Edits)
StateFile == {NoFile} \union State
Approvals == UNION {[D -> StateFile] : D \in SUBSET Server}

CreateSteps == {"lock", "provider", "publish", "ask", "merge", "account", "order"}
ImportSteps == {"lock", "load", "marker", "config", "creds", "state", "registry", "finish"}
OnServer == {"server", "remote", "config", "marker", "state", "creds", "registry"}
OnNamespace == {"again", "next", "configs", "states", "unlist"}
DeleteSteps == {"lock", "guard"} \union OnServer \union OnNamespace

CreateJob == [kind : {"create"}, at : CreateSteps, server : Server, vendor : Vendor,
              config : ConfigFile, creds : Creds]
ImportJob == [kind : {"import"}, at : ImportSteps, server : Server, vendor : Vendor, id : Id,
              force : BOOLEAN, base : BOOLEAN, config : ConfigFile, creds : Creds, tracked : BOOLEAN]
DeleteJob == [kind : {"delete", "nsdelete"}, at : DeleteSteps, server : Server \union {NoFile},
              state : StateFile, config : ConfigFile, creds : Creds, approved : Approvals,
              todo : SUBSET Server]

JobTyped(p) ==
    /\ job[p].kind \in Kinds \union {"idle"}
    /\ job[p] \in DeleteJob => /\ job[p].at \in OnServer => job[p].server \in Server
                               /\ job[p].at \in OnNamespace => /\ job[p].kind = "nsdelete"
                                                               /\ job[p].server = NoFile
                               /\ job[p].kind = "delete" => job[p].server \in Server
                               /\ job[p].kind = "nsdelete" /\ job[p].at \in {"lock", "again"} =>
                                    /\ job[p].server = NoFile
                                    /\ job[p].todo = DOMAIN job[p].approved

(* A command past its first step has its locks. *)
Working(p) == job[p] \in CreateJob \union ImportJob /\ job[p].at # "lock"
Deleting(p) == job[p] \in DeleteJob /\ job[p].at # "lock"
Locked(p) ==
    /\ Working(p) => p \in shared /\ lock[job[p].server] = p
    /\ Deleting(p) => excl = p

(* A create past its check works for the vendor of the state, if there is   *)
(* one, and with a token of that vendor.                                    *)
CreateRight(p) ==
    LET s == job[p].server
        v == job[p].vendor
    IN job[p] \in CreateJob /\ job[p].at \notin {"lock", "provider"} =>
         /\ state[s] # NoFile => state[s].vendor = v
         /\ Stored(s).token \in {NoVendor, v}
         /\ job[p].at \in {"merge", "account", "order"} =>
              job[p].creds.token = v /\ job[p].creds.name \in {NoVendor, v}
         /\ job[p].at = "order" => s \in entries

(* An import writes over what it read, and its marker goes last. *)
ImportRight(p) ==
    LET s == job[p].server
    IN job[p] \in ImportJob =>
         /\ job[p].at \in {"marker", "config"} /\ ~job[p].base => state[s] = NoFile
         /\ job[p].at \in {"config", "creds", "state", "registry", "finish"} => marker[s] # NoFile
         /\ job[p].at = "state" => Stored(s).name # NoVendor
         /\ job[p].at = "finish" => s \in entries

(* A delete has the state it approved in front of it, and has removed its   *)
(* compute server before it removes the file.                               *)
DeleteRight(p) ==
    LET s == job[p].server
    IN job[p] \in DeleteJob /\ s # NoFile =>
         /\ job[p].at \notin {"lock", "server"} =>
              s \in entries /\ (state[s] # NoFile => state[s].id = job[p].state.id)
         /\ job[p].at = "remote" /\ state[s] # NoFile => Stored(s).token = state[s].vendor
         /\ job[p].at \notin {"lock", "server", "remote"} =>
              \A l \in live : l[1] # job[p].state.id
         /\ job[p].at \in {"creds", "registry"} => state[s] = NoFile

(* A namespace delete under its lock: nothing exists that it did not        *)
(* approve, and what it is through with has no state.                       *)
NamespaceRight(p) ==
    LET approved == job[p].approved
    IN job[p] \in DeleteJob /\ job[p].kind = "nsdelete" /\ job[p].at # "lock" =>
         /\ job[p].todo \subseteq DOMAIN approved
         /\ job[p].at # "again" =>
              /\ \A s \in Server \ DOMAIN approved : ~HasFiles(s) /\ s \notin entries
              /\ \A s \in DOMAIN approved :
                   \/ state[s] = NoFile
                   \/ s = job[p].server
                   \/ s \in job[p].todo /\ approved[s] # NoFile
         /\ job[p].at \in {"guard", "configs", "states", "unlist"} /\ job[p].server = NoFile =>
              job[p].todo = {}

Right(p) ==
    /\ JobTyped(p) /\ Locked(p)
    /\ CreateRight(p) /\ ImportRight(p) /\ DeleteRight(p) /\ NamespaceRight(p)

(* A recorded vendor is the token's, and a token whose vendor is unrecorded *)
(* is for the vendor of the state.                                          *)
TokenRight(s) ==
    /\ Stored(s).name \in {NoVendor, Stored(s).token}
    /\ state[s] # NoFile /\ Stored(s).name = NoVendor => Stored(s).token \in {NoVendor, state[s].vendor}
Routed(s) == state[s] # NoFile => s \in entries \/ marker[s] # NoFile

FilesTyped ==
    /\ config \in [Server -> ConfigFile]
    /\ creds \in [Server -> {NoFile} \union Creds]
    /\ state \in [Server -> StateFile]
    /\ marker \in [Server -> {NoFile} \union Id]
    /\ entries \subseteq Server /\ listed \in BOOLEAN
    /\ live \subseteq Id \X Server \X Vendor /\ made \in 0 .. Ids
    /\ edits \in Nat
LocksTyped ==
    /\ shared \subseteq Proc /\ excl \in Proc \union {NoProc}
    /\ lock \in [Server -> Proc \union {NoProc}] /\ cleaning \in Proc \union {NoProc}
    /\ excl # NoProc => shared = {}
    /\ \A s \in Server : lock[s] # NoProc => lock[s] \in shared \union {excl}

Job == {Idle} \union CreateJob \union ImportJob \union DeleteJob
ArtifactInv ==
    /\ FilesTyped /\ LocksTyped /\ job \in [Proc -> Job]
    /\ \A s \in Server : TokenRight(s) /\ Routed(s)
    /\ \A p \in Proc : Right(p)
-----------------------------------------------------------------------------
(* Commands and their steps *)

LEMMA KindsApart ==
  ASSUME NEW j \in Job
  PROVE  /\ j = Idle <=> j.kind = "idle"
         /\ j \in CreateJob <=> j.kind = "create"
         /\ j \in ImportJob <=> j.kind = "import"
         /\ j \in DeleteJob <=> j.kind \in {"delete", "nsdelete"}
         /\ j.kind \in {"idle", "create", "import", "delete", "nsdelete"}
  BY DEF Job, Idle, CreateJob, ImportJob, DeleteJob

LEMMA CreateGoes ==
  ASSUME job \in [Proc -> Job], NEW p \in Proc, job[p] \in CreateJob, NEW a \in CreateSteps, Go(p, a)
  PROVE  /\ job' \in [Proc -> Job] /\ job'[p] \in CreateJob
         /\ job'[p].at = a /\ job'[p].kind = "create"
         /\ job'[p].server = job[p].server /\ job'[p].vendor = job[p].vendor
         /\ job'[p].config = job[p].config /\ job'[p].creds = job[p].creds
         /\ \A q \in Proc : q # p => job'[q] = job[q]
<1>1. PICK j \in CreateJob : j = job[p]
  OBVIOUS
<1>2. PICK k : k = [j EXCEPT !.at = a]
  OBVIOUS
<1>3. /\ k \in CreateJob /\ k.at = a /\ k.kind = "create" /\ k.server = j.server
      /\ k.vendor = j.vendor /\ k.config = j.config /\ k.creds = j.creds
  BY <1>2 DEF CreateJob
<1>4. k \in Job
  BY <1>3 DEF Job
<1>5. job' = [job EXCEPT ![p] = k]
  BY <1>1, <1>2 DEF Go
<1> QED BY <1>1, <1>3, <1>4, <1>5

LEMMA ImportGoes ==
  ASSUME job \in [Proc -> Job], NEW p \in Proc, job[p] \in ImportJob, NEW a \in ImportSteps, Go(p, a)
  PROVE  /\ job' \in [Proc -> Job] /\ job'[p] \in ImportJob
         /\ job'[p].at = a /\ job'[p].kind = "import"
         /\ job'[p].server = job[p].server /\ job'[p].vendor = job[p].vendor
         /\ job'[p].id = job[p].id /\ job'[p].base = job[p].base
         /\ job'[p].config = job[p].config /\ job'[p].creds = job[p].creds
         /\ \A q \in Proc : q # p => job'[q] = job[q]
<1>1. PICK j \in ImportJob : j = job[p]
  OBVIOUS
<1>2. PICK k : k = [j EXCEPT !.at = a]
  OBVIOUS
<1>3. /\ k \in ImportJob /\ k.at = a /\ k.kind = "import" /\ k.server = j.server
      /\ k.vendor = j.vendor /\ k.config = j.config /\ k.creds = j.creds /\ k.id = j.id
      /\ k.base = j.base
  BY <1>2 DEF ImportJob
<1>4. k \in Job
  BY <1>3 DEF Job
<1>5. job' = [job EXCEPT ![p] = k]
  BY <1>1, <1>2 DEF Go
<1> QED BY <1>1, <1>3, <1>4, <1>5

LEMMA DeleteGoes ==
  ASSUME job \in [Proc -> Job], NEW p \in Proc, job[p] \in DeleteJob, NEW a \in DeleteSteps, Go(p, a)
  PROVE  /\ job' \in [Proc -> Job] /\ job'[p] \in DeleteJob
         /\ job'[p].at = a /\ job'[p].kind = job[p].kind
         /\ job'[p].server = job[p].server /\ job'[p].state = job[p].state
         /\ job'[p].approved = job[p].approved /\ job'[p].todo = job[p].todo
         /\ \A q \in Proc : q # p => job'[q] = job[q]
<1>1. PICK j \in DeleteJob : j = job[p]
  OBVIOUS
<1>2. PICK k : k = [j EXCEPT !.at = a]
  OBVIOUS
<1>3. /\ k \in DeleteJob /\ k.at = a /\ k.kind = j.kind /\ k.server = j.server
      /\ k.state = j.state /\ k.approved = j.approved /\ k.todo = j.todo
  BY <1>2 DEF DeleteJob
<1>4. k \in Job
  BY <1>3 DEF Job
<1>5. job' = [job EXCEPT ![p] = k]
  BY <1>1, <1>2 DEF Go
<1> QED BY <1>1, <1>3, <1>4, <1>5

LEMMA IdleRight == ASSUME NEW p \in Proc, job[p] = Idle PROVE Right(p)
<1>1. job[p] \notin CreateJob /\ job[p] \notin ImportJob /\ job[p] \notin DeleteJob
  BY DEF Idle, CreateJob, ImportJob, DeleteJob
<1>2. job[p].kind = "idle"
  BY DEF Idle
<1> QED BY <1>1, <1>2 DEF Right, JobTyped, Locked, Working, Deleting, CreateRight, ImportRight,
                          DeleteRight, NamespaceRight

LEMMA WaitingRight ==
  ASSUME NEW p \in Proc, job[p] \in Job, JobTyped(p), job[p].at = "lock"
  PROVE  Right(p)
  BY DEF Right, Locked, Working, Deleting, CreateRight, ImportRight, DeleteRight, NamespaceRight
-----------------------------------------------------------------------------
(* What others do meanwhile *)

(* Past its approval a delete is alone. *)
LEMMA DeletesAlone ==
  ASSUME ArtifactInv, NEW p \in Proc, Deleting(p)
  PROVE  \A q \in Proc : q # p => ~Working(q) /\ ~Deleting(q)
<1>1. excl = p /\ shared = {}
  BY NoneAssumption DEF ArtifactInv, Right, Locked, LocksTyped
<1> QED BY <1>1 DEF ArtifactInv, Right, Locked

LEMMA NotPastLock ==
  ASSUME NEW q \in Proc, job[q] \in Job, JobTyped(q), ~Working(q), ~Deleting(q)
  PROVE  Right(q)
<1>1. CASE job[q] = Idle
  BY <1>1, IdleRight
<1>2. CASE job[q].at = "lock"
  BY <1>2, WaitingRight
<1> QED BY <1>1, <1>2 DEF Job, Working, Deleting

LEMMA DeletingKeeps ==
  ASSUME ArtifactInv, NEW p \in Proc, Deleting(p), job' \in [Proc -> Job],
         \A q \in Proc : q # p => job'[q] = job[q],
         FilesTyped', LocksTyped', \A s \in Server : TokenRight(s)' /\ Routed(s)', Right(p)'
  PROVE  ArtifactInv'
<1>1. ASSUME NEW q \in Proc, q # p PROVE Right(q)'
  <2>1. ~Working(q) /\ ~Deleting(q) /\ JobTyped(q) /\ job'[q] = job[q] /\ job'[q] \in Job
    BY <1>1, DeletesAlone DEF ArtifactInv, Right
  <2>2. JobTyped(q)' /\ ~Working(q)' /\ ~Deleting(q)'
    BY <2>1 DEF JobTyped, Working, Deleting
  <2>3. CASE job'[q] = Idle
    BY <2>3 DEF Right, JobTyped, Locked, Working, Deleting, CreateRight, ImportRight, DeleteRight,
                NamespaceRight, Idle, CreateJob, ImportJob, DeleteJob
  <2>4. CASE job'[q].at = "lock"
    BY <2>1, <2>2, <2>4
       DEF Right, Locked, CreateRight, ImportRight, DeleteRight, NamespaceRight
  <2> QED BY <2>1, <2>2, <2>3, <2>4 DEF Job, Working, Deleting
<1> QED BY <1>1 DEF ArtifactInv

(* Workflows that run together are of different servers, and no delete is   *)
(* past its approval.                                                       *)
LEMMA WorkflowsApart ==
  ASSUME ArtifactInv, NEW p \in Proc, Working(p)
  PROVE  \A q \in Proc : q # p =>
           ~Deleting(q) /\ (Working(q) => job[q].server \in Server \ {job[p].server})
<1>1. excl = NoProc /\ lock[job[p].server] = p
  BY DEF ArtifactInv, Right, Locked, LocksTyped
<1>2. ASSUME NEW q \in Proc, q # p, Working(q) PROVE job[q].server \in Server \ {job[p].server}
  <2>1. lock[job[q].server] = q
    BY <1>2 DEF ArtifactInv, Right, Locked
  <2>2. job[q].server \in Server
    BY <1>2 DEF Working, CreateJob, ImportJob
  <2> QED BY <1>1, <1>2, <2>1, <2>2
<1>3. ASSUME NEW q \in Proc, Deleting(q) PROVE FALSE
  BY <1>1, <1>3, NoneAssumption DEF ArtifactInv, Right, Locked
<1> QED BY <1>2, <1>3

LEMMA WorkingKeeps ==
  ASSUME ArtifactInv, NEW p \in Proc, Working(p), NEW s \in Server, s = job[p].server,
         job' \in [Proc -> Job], \A q \in Proc : q # p => job'[q] = job[q],
         \A t \in Server \ {s} :
            /\ config'[t] = config[t] /\ creds'[t] = creds[t] /\ state'[t] = state[t]
            /\ marker'[t] = marker[t] /\ (lock[t] # p => lock'[t] = lock[t]),
         entries \subseteq entries', shared \ {p} \subseteq shared', excl' = excl,
         FilesTyped', LocksTyped', TokenRight(s)', Routed(s)', Right(p)'
  PROVE  ArtifactInv'
<1>1. ASSUME NEW t \in Server, t # s PROVE TokenRight(t)' /\ Routed(t)'
  BY <1>1 DEF ArtifactInv, TokenRight, Routed, Stored
<1>2. ASSUME NEW q \in Proc, q # p PROVE Right(q)'
  <2>1. Right(q) /\ ~Deleting(q) /\ job'[q] = job[q] /\ job'[q] \in Job
    BY <1>2, WorkflowsApart DEF ArtifactInv
  <2>2. JobTyped(q)' /\ ~Deleting(q)'
    BY <2>1 DEF Right, JobTyped, Deleting
  <2>3. CASE Working(q)
    <3>1. PICK t \in Server \ {s} : t = job[q].server
      BY <1>2, <2>3, WorkflowsApart
    <3>2. Locked(q)'
      BY <1>2, <2>1, <2>2, <3>1 DEF Right, Locked, Working
    <3>3. CreateRight(q)' /\ ImportRight(q)'
      BY <2>1, <3>1 DEF Right, CreateRight, ImportRight, Stored
    <3>4. DeleteRight(q)' /\ NamespaceRight(q)'
      <4>1. job'[q] \notin DeleteJob
        BY <2>1, <2>3 DEF Working, CreateJob, ImportJob, DeleteJob
      <4> QED BY <4>1 DEF DeleteRight, NamespaceRight
    <3> QED BY <2>2, <3>2, <3>3, <3>4 DEF Right
  <2>4. CASE job[q] = Idle
    BY <2>1, <2>4 DEF Right, JobTyped, Locked, Working, Deleting, CreateRight, ImportRight, DeleteRight,
                      NamespaceRight, Idle, CreateJob, ImportJob, DeleteJob
  <2>5. CASE job[q].at = "lock"
    BY <2>1, <2>2, <2>5
       DEF Right, Locked, Working, CreateRight, ImportRight, DeleteRight, NamespaceRight
  <2> QED BY <2>1, <2>3, <2>4, <2>5 DEF Job, Working, Deleting
<1> QED BY <1>1, <1>2 DEF ArtifactInv

(* What needs no lock: an approval fills the gaps of the credentials of a   *)
(* server with a state, secrets are stored, configs edited, states lost.    *)
Filled(s) ==
    \/ Stored(s)'.token = Stored(s).token /\ Stored(s)'.name = Stored(s).name
    \/ /\ Stored(s).token = NoVendor /\ state[s] # NoFile /\ state'[s] = state[s]
       /\ Stored(s)'.token = state[s].vendor /\ Stored(s)'.name \in {NoVendor, state[s].vendor}

LEMMA FilledRight ==
  ASSUME NEW s \in Server, TokenRight(s), Routed(s), Filled(s), state'[s] \in {state[s], NoFile},
         marker' = marker, entries' = entries
  PROVE  TokenRight(s)' /\ Routed(s)'
  BY DEF TokenRight, Routed, Filled

LEMMA FreeKeeps ==
  ASSUME ArtifactInv, job' \in [Proc -> Job], UNCHANGED <<marker, entries, live, shared, excl, lock>>,
         LocksTyped', FilesTyped',
         \A s \in Server : /\ state'[s] \in {state[s], NoFile} /\ Filled(s)
                           /\ HasFiles(s)' => HasFiles(s),
         \A q \in Proc : job'[q] = job[q] \/ Right(q)'
  PROVE  ArtifactInv'
<1>1. \A s \in Server : TokenRight(s)' /\ Routed(s)'
  BY FilledRight DEF ArtifactInv
<1>2. ASSUME NEW q \in Proc, job'[q] = job[q] PROVE Right(q)'
  <2>1. Right(q) /\ job[q] \in Job
    BY DEF ArtifactInv
  <2>2. JobTyped(q)' /\ Locked(q)'
    BY <1>2, <2>1 DEF Right, JobTyped, Locked, Working, Deleting
  <2>3. CreateRight(q)'
    <3>1. SUFFICES ASSUME job[q] \in CreateJob PROVE CreateRight(q)'
      BY <1>2 DEF CreateRight
    <3>2. job[q].server \in Server
      BY <3>1 DEF CreateJob
    <3> QED BY <1>2, <2>1, <3>2 DEF Right, CreateRight, Filled
  <2>4. ImportRight(q)'
    <3>1. SUFFICES ASSUME job[q] \in ImportJob PROVE ImportRight(q)'
      BY <1>2 DEF ImportRight
    <3>2. job[q].server \in Server /\ TokenRight(job[q].server)
      BY <3>1 DEF ImportJob, ArtifactInv
    <3> QED BY <1>2, <2>1, <3>2 DEF Right, ImportRight, Filled, TokenRight
  <2>5. DeleteRight(q)'
    <3>1. SUFFICES ASSUME job[q] \in DeleteJob, job[q].server # NoFile PROVE DeleteRight(q)'
      BY <1>2 DEF DeleteRight
    <3>2. job[q].server \in Server
      BY <3>1 DEF DeleteJob
    <3>3. \A s \in Server : state[s] # NoFile => state[s].vendor # NoVendor
      BY NoneAssumption DEF ArtifactInv, FilesTyped, StateFile, State
    <3> QED BY <1>2, <2>1, <3>1, <3>2, <3>3 DEF Right, DeleteRight, Filled
  <2>6. NamespaceRight(q)'
    <3>1. SUFFICES ASSUME job[q] \in DeleteJob PROVE NamespaceRight(q)'
      BY <1>2 DEF NamespaceRight
    <3>2. \A s \in DOMAIN job[q].approved : s \in Server
      BY <3>1 DEF DeleteJob, Approvals
    <3> QED BY <1>2, <2>1, <3>1, <3>2 DEF Right, NamespaceRight
  <2> QED BY <2>2, <2>3, <2>4, <2>5, <2>6 DEF Right
<1> QED BY <1>1, <1>2 DEF ArtifactInv
-----------------------------------------------------------------------------
(* How commands end and get their locks *)

LEMMA ReleaseGives ==
  ASSUME ArtifactInv, NEW p \in Proc, Release(p)
  PROVE  /\ LocksTyped' /\ job' \in [Proc -> Job] /\ job'[p] = Idle /\ Right(p)'
         /\ \A q \in Proc : q # p => job'[q] = job[q]
         /\ shared' = shared \ {p} /\ (excl # p => excl' = excl)
         /\ \A s \in Server : lock[s] # p => lock'[s] = lock[s]
<1>1. Idle \in Job
  BY DEF Job
<1>2. /\ job' \in [Proc -> Job] /\ job'[p] = Idle /\ \A q \in Proc : q # p => job'[q] = job[q]
  BY <1>1 DEF Release, ArtifactInv
<1>3. Right(p)'
  BY <1>2 DEF Right, JobTyped, Locked, Working, Deleting, CreateRight, ImportRight, DeleteRight,
              NamespaceRight, Idle, CreateJob, ImportJob, DeleteJob
<1>4. LocksTyped'
  BY DEF ArtifactInv, LocksTyped, Release
<1> QED BY <1>2, <1>3, <1>4 DEF Release, ArtifactInv, LocksTyped

LEMMA ReleaseKeeps ==
  ASSUME ArtifactInv, NEW p \in Proc, Release(p), UNCHANGED <<files, registry, cloud, edits>>
  PROVE  ArtifactInv'
<1>1. FilesTyped' /\ \A s \in Server : TokenRight(s)' /\ Routed(s)'
  BY DEF ArtifactInv, FilesTyped, TokenRight, Routed, Stored, files, registry, cloud
<1>2. ASSUME NEW q \in Proc, q # p PROVE Right(q)'
  <2>1. Right(q) /\ job'[q] = job[q]
    BY <1>2, ReleaseGives DEF ArtifactInv
  <2>2. JobTyped(q)'
    BY <2>1 DEF Right, JobTyped
  <2>3. Locked(q)'
    <3>1. Working(q) => job[q].server \in Server
      BY DEF Working, CreateJob, ImportJob
    <3> QED BY <1>2, <2>1, <3>1, ReleaseGives DEF Right, Locked, Working, Deleting
  <2>4. CreateRight(q)' /\ ImportRight(q)' /\ DeleteRight(q)' /\ NamespaceRight(q)'
    BY <2>1 DEF Right, CreateRight, ImportRight, DeleteRight, NamespaceRight, Stored, HasFiles,
                files, registry, cloud
  <2> QED BY <2>2, <2>3, <2>4 DEF Right
<1> QED BY <1>1, <1>2, ReleaseGives DEF ArtifactInv

LEMMA FailKeeps == ASSUME ArtifactInv, NEW p \in Proc, Fail(p) PROVE ArtifactInv'
  BY ReleaseKeeps DEF Fail, bounds

LEMMA StopKeeps == ASSUME ArtifactInv, NEW p \in Proc, Stop(p) PROVE ArtifactInv'
  BY ReleaseKeeps DEF Stop

LEMMA LockWorkflowKeeps == ASSUME ArtifactInv, NEW p \in Proc, LockWorkflow(p) PROVE ArtifactInv'
<1>1. PICK s \in Server : s = job[p].server /\ job[p] \in CreateJob \union ImportJob
  BY KindsApart DEF LockWorkflow, Stands, ArtifactInv, CreateJob, ImportJob
<1>2. /\ excl = NoProc /\ lock[s] = NoProc /\ job[p].at = "lock" /\ excl' = excl
      /\ shared' = shared \union {p} /\ lock' = [lock EXCEPT ![s] = p]
      /\ UNCHANGED <<config, creds, state, marker, entries, listed, live, made, edits, cleaning>>
  BY <1>1 DEF LockWorkflow, Stands, files, registry, cloud, bounds
<1>3. /\ job' \in [Proc -> Job] /\ job'[p] \in CreateJob \union ImportJob
      /\ job'[p].kind = job[p].kind /\ job'[p].server = s
      /\ \A q \in Proc : q # p => job'[q] = job[q]
      /\ job'[p].at = IF job[p] \in CreateJob THEN "provider" ELSE "load"
      /\ job[p] \in CreateJob <=> job'[p] \in CreateJob
  <2>1. CASE job[p] \in CreateJob
    <3>1. Go(p, "provider")
      BY <2>1 DEF LockWorkflow, CreateJob
    <3> QED BY <1>1, <2>1, <3>1, CreateGoes DEF CreateSteps, CreateJob, ArtifactInv
  <2>2. CASE job[p] \in ImportJob
    <3>1. Go(p, "load")
      BY <2>2 DEF LockWorkflow, ImportJob
    <3> QED BY <1>1, <2>2, <3>1, ImportGoes DEF ImportSteps, ImportJob, CreateJob, ArtifactInv
  <2> QED BY <1>1, <2>1, <2>2
<1>4. FilesTyped' /\ \A t \in Server : TokenRight(t)' /\ Routed(t)'
  BY <1>2 DEF ArtifactInv, FilesTyped, TokenRight, Routed, Stored
<1>5. LocksTyped'
  BY <1>2, NoneAssumption DEF ArtifactInv, LocksTyped
<1>6. Right(p)'
  <2>1. job'[p] \notin DeleteJob
    BY <1>3 DEF CreateJob, ImportJob, DeleteJob
  <2>2. JobTyped(p)'
    BY <1>3, <2>1 DEF JobTyped, ArtifactInv, Right
  <2>3. Locked(p)'
    BY <1>2, <1>3, <2>1 DEF Locked, Deleting, ArtifactInv, LocksTyped
  <2>4. CreateRight(p)' /\ ImportRight(p)'
    BY <1>3 DEF CreateRight, ImportRight, CreateJob, ImportJob
  <2> QED BY <2>1, <2>2, <2>3, <2>4 DEF Right, DeleteRight, NamespaceRight
<1>7. ASSUME NEW q \in Proc, q # p PROVE Right(q)'
  <2>1. Right(q) /\ job'[q] = job[q]
    BY <1>3, <1>7 DEF ArtifactInv
  <2>2. JobTyped(q)'
    BY <2>1 DEF Right, JobTyped
  <2>3. Locked(q)'
    <3>1. Working(q) => job[q].server \in Server
      BY DEF Working, CreateJob, ImportJob
    <3> QED BY <1>2, <1>7, <2>1, <3>1, NoneAssumption
            DEF Right, Locked, Working, Deleting, ArtifactInv, LocksTyped
  <2>4. CreateRight(q)' /\ ImportRight(q)' /\ DeleteRight(q)' /\ NamespaceRight(q)'
    BY <1>2, <2>1 DEF Right, CreateRight, ImportRight, DeleteRight, NamespaceRight, Stored, HasFiles
  <2> QED BY <2>2, <2>3, <2>4 DEF Right
<1> QED BY <1>3, <1>4, <1>5, <1>6, <1>7 DEF ArtifactInv

LEMMA LockNamespaceKeeps == ASSUME ArtifactInv, NEW p \in Proc, LockNamespace(p) PROVE ArtifactInv'
<1>1. job[p] \in DeleteJob
  BY KindsApart DEF LockNamespace, Stands, ArtifactInv
<1>2. /\ excl = NoProc /\ shared = {} /\ job[p].at = "lock" /\ excl' = p
      /\ UNCHANGED <<config, creds, state, marker, entries, listed, live, made, edits, shared, lock,
                     cleaning>>
  BY DEF LockNamespace, Stands, files, registry, cloud, bounds
<1>3. PICK a \in {"server", "again"} : Go(p, a) /\ (a = "server" <=> job[p].kind = "delete")
  BY DEF LockNamespace
<1>4. /\ job' \in [Proc -> Job] /\ job'[p] \in DeleteJob /\ job'[p].at = a
      /\ job'[p].kind = job[p].kind /\ job'[p].server = job[p].server
      /\ job'[p].approved = job[p].approved /\ job'[p].todo = job[p].todo
      /\ \A q \in Proc : q # p => job'[q] = job[q]
  BY <1>1, <1>3, DeleteGoes DEF ArtifactInv, DeleteSteps, OnServer, OnNamespace
<1>5. FilesTyped' /\ \A t \in Server : TokenRight(t)' /\ Routed(t)'
  BY <1>2 DEF ArtifactInv, FilesTyped, TokenRight, Routed, Stored
<1>6. LocksTyped'
  BY <1>2, NoneAssumption DEF ArtifactInv, LocksTyped
<1>7. Right(p)'
  <2>1. JobTyped(p)'
    <3>1. JobTyped(p) /\ job[p].kind \in {"delete", "nsdelete"}
      BY <1>1 DEF ArtifactInv, Right, DeleteJob
    <3>2. a = "server" => job[p].server \in Server
      BY <1>1, <1>3, <3>1 DEF JobTyped
    <3>3. a = "again" => job[p].server = NoFile /\ job[p].todo = DOMAIN job[p].approved
      BY <1>1, <1>2, <1>3, <3>1 DEF JobTyped
    <3> QED BY <1>1, <1>3, <1>4, <3>1, <3>2, <3>3 DEF JobTyped, OnServer, OnNamespace
  <2>2. Locked(p)' /\ CreateRight(p)' /\ ImportRight(p)'
    <3>1. job'[p] \notin CreateJob /\ job'[p] \notin ImportJob
      BY <1>4 DEF CreateJob, ImportJob, DeleteJob
    <3> QED BY <1>2, <1>3, <1>4, <3>1 DEF Locked, Working, CreateRight, ImportRight
  <2>4. DeleteRight(p)'
    <3>1. a = "again" => job'[p].server = NoFile
      BY <1>4, <2>1 DEF JobTyped, OnNamespace
    <3> QED BY <1>3, <1>4, <3>1 DEF DeleteRight
  <2>3. NamespaceRight(p)'
    <3>1. job'[p].kind = "nsdelete" => a = "again" /\ job'[p].todo = DOMAIN job'[p].approved
      BY <1>3, <1>4, <2>1 DEF JobTyped
    <3> QED BY <1>3, <1>4, <3>1 DEF NamespaceRight
  <2> QED BY <2>1, <2>2, <2>3, <2>4 DEF Right
<1>8. ASSUME NEW q \in Proc, q # p PROVE Right(q)'
  <2>1. Right(q) /\ job'[q] = job[q]
    BY <1>4, <1>8 DEF ArtifactInv
  <2>2. JobTyped(q)'
    BY <2>1 DEF Right, JobTyped
  <2>3. Locked(q)'
    BY <1>2, <1>8, <2>1, NoneAssumption DEF Right, Locked, Working, Deleting
  <2>4. CreateRight(q)' /\ ImportRight(q)' /\ DeleteRight(q)' /\ NamespaceRight(q)'
    BY <1>2, <2>1 DEF Right, CreateRight, ImportRight, DeleteRight, NamespaceRight, Stored, HasFiles
  <2> QED BY <2>2, <2>3, <2>4 DEF Right
<1> QED BY <1>4, <1>5, <1>6, <1>7, <1>8 DEF ArtifactInv
-----------------------------------------------------------------------------
(* server create *)

LEMMA WorkflowGoesOn ==
  ASSUME ArtifactInv, NEW p \in Proc, Working(p), NEW s \in Server, s = job[p].server,
         job' \in [Proc -> Job], \A q \in Proc : q # p => job'[q] = job[q],
         job'[p] \in CreateJob \union ImportJob, job'[p].kind = job[p].kind, job'[p].server = s,
         UNCHANGED <<shared, excl, lock, cleaning>>, entries \subseteq entries',
         \A t \in Server \ {s} : /\ config'[t] = config[t] /\ creds'[t] = creds[t]
                                 /\ state'[t] = state[t] /\ marker'[t] = marker[t],
         FilesTyped', TokenRight(s)', Routed(s)', CreateRight(p)', ImportRight(p)'
  PROVE  ArtifactInv'
<1>1. job'[p] \notin DeleteJob
  BY DEF CreateJob, ImportJob, DeleteJob
<1>2. JobTyped(p)'
  BY <1>1 DEF ArtifactInv, Right, JobTyped
<1>3. Locked(p)'
  BY <1>1 DEF ArtifactInv, Right, Locked, Deleting
<1>4. LocksTyped'
  BY DEF ArtifactInv, LocksTyped
<1>5. Right(p)'
  BY <1>1, <1>2, <1>3 DEF Right, DeleteRight, NamespaceRight
<1> QED BY <1>4, <1>5, WorkingKeeps

LEMMA FilesStay ==
  ASSUME ArtifactInv, UNCHANGED <<files, registry, cloud, edits>>
  PROVE  FilesTyped' /\ \A s \in Server : TokenRight(s)' /\ Routed(s)' /\ Filled(s)
  BY DEF ArtifactInv, FilesTyped, TokenRight, Routed, Stored, Filled, files, registry, cloud

(* What a workflow knows of its own server. *)
LEMMA AtCreate ==
  ASSUME ArtifactInv, NEW p \in Proc, NEW a, a # "lock", Stands(p, {"create"}, a)
  PROVE  /\ job[p] \in CreateJob /\ job[p].at = a /\ Working(p) /\ Right(p)
         /\ job[p].server \in Server /\ job[p].vendor \in Vendor /\ job[p].creds \in Creds
         /\ job[p].config \in ConfigFile /\ job[p] \notin ImportJob /\ job[p].kind = "create"
<1>1. job[p] \in CreateJob /\ job[p].at = a
  BY KindsApart DEF Stands, ArtifactInv
<1> QED BY <1>1 DEF Working, CreateJob, ImportJob, ArtifactInv

LEMMA StoredTyped ==
  ASSUME FilesTyped, NEW s \in Server
  PROVE  Stored(s) \in Creds
<1>1. NoCreds \in Creds
  BY BoundsAssumption DEF NoCreds, Creds
<1> QED BY <1>1 DEF Stored, FilesTyped

LEMMA CredsWritten ==
  ASSUME FilesTyped, NEW s \in Server, NEW d \in Creds, creds' = [creds EXCEPT ![s] = d],
         UNCHANGED <<config, state, marker, entries, listed, live, made, edits>>
  PROVE  FilesTyped' /\ Stored(s)' = d /\ \A t \in Server \ {s} : creds'[t] = creds[t]
<1>1. creds' \in [Server -> {NoFile} \union Creds] /\ creds'[s] = d /\ d # NoFile
  BY NoFileAssumption DEF FilesTyped
<1>2. FilesTyped'
  BY <1>1 DEF FilesTyped
<1>3. Stored(s)' = d
  BY <1>1 DEF Stored
<1> QED BY <1>2, <1>3 DEF FilesTyped

LEMMA FillShape ==
  ASSUME NEW c \in Creds, NEW d \in Creds
  PROVE  /\ Fill(c, d) \in Creds
         /\ c.token # NoVendor => Fill(c, d).token = c.token /\ Fill(c, d).name = c.name
         /\ c.token = NoVendor => Fill(c, d).token = d.token /\ Fill(c, d).name = d.name
         /\ Fill(c, d).secret = IF c.secret = 0 THEN d.secret ELSE c.secret
  BY DEF Fill, Creds

LEMMA TypedShape ==
  ASSUME NEW v \in Vendor, NEW n \in {v, NoVendor}
  PROVE  Typed(v, n) \in Creds /\ Typed(v, n).token = v /\ Typed(v, n).name = n
         /\ Typed(v, n).secret = 1
  BY BoundsAssumption DEF Typed, Creds

LEMMA CheckProviderKeeps == ASSUME ArtifactInv, NEW p \in Proc, CheckProvider(p) PROVE ArtifactInv'
<1>1. PICK s \in Server, v \in Vendor :
        /\ s = job[p].server /\ v = job[p].vendor
        /\ job[p] \in CreateJob /\ Working(p) /\ job[p] \notin ImportJob
  BY AtCreate DEF CheckProvider
<1>2. CASE Fail(p)
  BY <1>2, FailKeeps
<1>3. CASE /\ ProviderKnown(s, v) /\ (NamesUnrecorded(s) \/ TokenIsFor(Stored(s), v))
           /\ creds' = IF NamesUnrecorded(s) THEN [creds EXCEPT ![s].name = v] ELSE creds
           /\ Go(p, "publish")
           /\ UNCHANGED <<config, state, marker, registry, cloud, locks, bounds>>
  <2>1. /\ job' \in [Proc -> Job] /\ job'[p] \in CreateJob /\ job'[p].at = "publish"
        /\ job'[p].kind = job[p].kind /\ job'[p].server = s /\ job'[p].vendor = v
        /\ \A q \in Proc : q # p => job'[q] = job[q]
    BY <1>1, <1>3, CreateGoes DEF CreateSteps, ArtifactInv, CreateJob
  <2>2. Stored(s) \in Creds /\ TokenRight(s) /\ Routed(s) /\ FilesTyped
    BY <1>1, StoredTyped DEF ArtifactInv
  <2>3. /\ creds' \in [Server -> {NoFile} \union Creds]
        /\ \A t \in Server \ {s} : creds'[t] = creds[t]
        /\ Stored(s)'.token = Stored(s).token
        /\ \/ Stored(s)'.name = Stored(s).name
           \/ Stored(s)'.name = v /\ Stored(s).token = v
    <3>1. CASE NamesUnrecorded(s)
      <4>1. creds[s] \in Creds /\ creds[s] # NoFile /\ Stored(s) = creds[s]
        BY <1>1, <2>2, <3>1 DEF NamesUnrecorded, Stored, FilesTyped, NoCreds
      <4>2. PICK c : c = [creds[s] EXCEPT !.name = v]
        OBVIOUS
      <4>3. c \in Creds /\ c.token = creds[s].token /\ c.name = v
        BY <1>1, <4>1, <4>2 DEF Creds
      <4>4. creds' = [creds EXCEPT ![s] = c]
        BY <1>3, <3>1, <4>2
      <4>5. creds'[s] = c /\ c # NoFile
        BY <1>1, <2>2, <4>3, <4>4, NoFileAssumption DEF FilesTyped
      <4>6. Stored(s).token = v
        BY <1>1, <1>3, <2>2, <3>1 DEF NamesUnrecorded, ProviderKnown, TokenRight
      <4> QED BY <1>1, <2>2, <4>1, <4>3, <4>4, <4>5, <4>6 DEF Stored, FilesTyped
    <3>2. CASE ~NamesUnrecorded(s)
      <4>1. creds' = creds
        BY <1>3, <3>2
      <4> QED BY <2>2, <4>1 DEF FilesTyped, Stored
    <3> QED BY <3>1, <3>2
  <2>4. UNCHANGED <<config, state, marker, entries, listed, live, made, shared, excl, lock, cleaning,
                    edits>>
    BY <1>3 DEF registry, cloud, locks, bounds
  <2>5. FilesTyped'
    BY <2>2, <2>3, <2>4 DEF FilesTyped
  <2>6. TokenRight(s)' /\ Routed(s)'
    BY <2>2, <2>3, <2>4 DEF TokenRight, Routed
  <2>7. CreateRight(p)' /\ ImportRight(p)'
    <3>1. Stored(s).token \in {NoVendor, v}
      BY <1>1, <1>3, <2>2, NoneAssumption
         DEF NamesUnrecorded, ProviderKnown, TokenIsFor, TokenRight
    <3>2. job'[p] \notin ImportJob
      BY <2>1 DEF CreateJob, ImportJob
    <3> QED BY <1>3, <2>1, <2>3, <2>4, <3>1, <3>2 DEF CreateRight, ImportRight, ProviderKnown
  <2> QED BY <1>1, <2>1, <2>3, <2>4, <2>5, <2>6, <2>7, WorkflowGoesOn
<1> QED BY <1>1, <1>2, <1>3 DEF CheckProvider

LEMMA PublishConfigKeeps == ASSUME ArtifactInv, NEW p \in Proc, PublishConfig(p) PROVE ArtifactInv'
<1>1. PICK s \in Server, content \in ConfigFile :
        /\ s = job[p].server /\ content = job[p].config /\ Right(p)
        /\ job[p] \in CreateJob /\ Working(p) /\ job[p].at = "publish"
  BY AtCreate DEF PublishConfig
<1>2. CASE Fail(p)
  BY <1>2, FailKeeps
<1>3. CASE /\ SaveConfig(s, content, AsSaved(content)) /\ Go(p, "ask")
           /\ UNCHANGED <<creds, state, marker, registry, cloud, locks, bounds>>
  <2>1. /\ job' \in [Proc -> Job] /\ job'[p] \in CreateJob /\ job'[p].at = "ask"
        /\ job'[p].kind = job[p].kind /\ job'[p].server = s /\ job'[p].vendor = job[p].vendor
        /\ \A q \in Proc : q # p => job'[q] = job[q]
    BY <1>1, <1>3, CreateGoes DEF CreateSteps, ArtifactInv, CreateJob
  <2>2. UNCHANGED <<creds, state, marker, entries, listed, live, made, shared, excl, lock, cleaning,
                    edits>>
    BY <1>3 DEF registry, cloud, locks, bounds
  <2>3. AsSaved(content) \in ConfigFile
    BY DEF AsSaved, ConfigFile
  <2>4. FilesTyped' /\ \A t \in Server \ {s} : config'[t] = config[t]
    BY <1>3, <2>2, <2>3 DEF SaveConfig, ArtifactInv, FilesTyped
  <2>5. TokenRight(s)' /\ Routed(s)'
    BY <2>2 DEF ArtifactInv, TokenRight, Routed, Stored
  <2>6. CreateRight(p)' /\ ImportRight(p)'
    <3>1. job'[p] \notin ImportJob
      BY <2>1 DEF CreateJob, ImportJob
    <3> QED BY <1>1, <2>1, <2>2, <3>1 DEF Right, CreateRight, ImportRight, Stored
  <2> QED BY <1>1, <2>1, <2>2, <2>4, <2>5, <2>6, WorkflowGoesOn
<1> QED BY <1>1, <1>2, <1>3 DEF PublishConfig

LEMMA AskCredentialsKeeps == ASSUME ArtifactInv, NEW p \in Proc, AskCredentials(p) PROVE ArtifactInv'
<1>1. PICK s \in Server, v \in Vendor, j \in CreateJob :
        /\ s = j.server /\ v = j.vendor /\ j = job[p] /\ Right(p) /\ Working(p) /\ j.at = "ask"
  BY AtCreate DEF AskCredentials
<1>2. PICK c \in Creds : c = Fill(Stored(s), Typed(v, v))
  BY StoredTyped, TypedShape, FillShape DEF ArtifactInv
<1>3. PICK a \in {"merge", "account"} : job' = [job EXCEPT ![p].creds = c, ![p].at = a]
  BY <1>1, <1>2 DEF AskCredentials
<1>4. PICK k : k = [j EXCEPT !.creds = c, !.at = a]
  OBVIOUS
<1>5. /\ k \in CreateJob /\ k.at = a /\ k.kind = j.kind /\ k.server = s /\ k.vendor = v
      /\ k.creds = c
  BY <1>1, <1>4 DEF CreateJob, CreateSteps
<1>6. /\ job' \in [Proc -> Job] /\ job'[p] = k /\ k \in Job
      /\ \A q \in Proc : q # p => job'[q] = job[q]
  <2>1. k \in Job
    BY <1>5 DEF Job
  <2>2. job' = [job EXCEPT ![p] = k]
    BY <1>1, <1>3, <1>4 DEF ArtifactInv
  <2> QED BY <2>1, <2>2 DEF ArtifactInv
<1>7. UNCHANGED <<config, creds, state, marker, entries, listed, live, made, shared, excl, lock,
                  cleaning, edits>>
  BY DEF AskCredentials, files, registry, cloud, locks, bounds
<1>8. c.token = v /\ c.name \in {NoVendor, v}
  <2>1. Stored(s).token \in {NoVendor, v} /\ Stored(s).name \in {NoVendor, Stored(s).token}
    BY <1>1 DEF Right, CreateRight, ArtifactInv, TokenRight
  <2>2. /\ Stored(s) \in Creds
        /\ Typed(v, v) \in Creds /\ Typed(v, v).token = v /\ Typed(v, v).name = v
    BY StoredTyped, TypedShape DEF ArtifactInv
  <2> QED BY <1>2, <2>1, <2>2, FillShape
<1>9. FilesTyped' /\ TokenRight(s)' /\ Routed(s)'
  BY <1>7 DEF ArtifactInv, FilesTyped, TokenRight, Routed, Stored
<1>10. CreateRight(p)' /\ ImportRight(p)'
  <2>1. k \notin ImportJob
    BY <1>5 DEF CreateJob, ImportJob
  <2> QED BY <1>1, <1>5, <1>6, <1>7, <1>8, <2>1 DEF Right, CreateRight, ImportRight, Stored
<1> QED BY <1>1, <1>5, <1>6, <1>7, <1>9, <1>10, WorkflowGoesOn

LEMMA MergeCredentialsKeeps ==
  ASSUME ArtifactInv, NEW p \in Proc, MergeCredentials(p) PROVE ArtifactInv'
<1>1. PICK s \in Server, v \in Vendor, c \in Creds :
        /\ s = job[p].server /\ v = job[p].vendor /\ c = job[p].creds /\ Right(p) /\ Working(p)
        /\ job[p] \in CreateJob /\ job[p].at = "merge"
  BY AtCreate DEF MergeCredentials
<1>2. PICK d \in Creds : d = Fill(Stored(s), c)
  BY StoredTyped, FillShape DEF ArtifactInv
<1>3. /\ creds' = [creds EXCEPT ![s] = d] /\ Go(p, "account")
      /\ UNCHANGED <<config, state, marker, entries, listed, live, made, shared, excl, lock, cleaning,
                     edits>>
  BY <1>1, <1>2 DEF MergeCredentials, registry, cloud, locks, bounds
<1>4. /\ job' \in [Proc -> Job] /\ job'[p] \in CreateJob /\ job'[p].at = "account"
      /\ job'[p].kind = job[p].kind /\ job'[p].server = s /\ job'[p].vendor = v
      /\ job'[p].creds = c /\ \A q \in Proc : q # p => job'[q] = job[q]
  BY <1>1, <1>3, CreateGoes DEF CreateSteps, ArtifactInv, CreateJob
<1>5. /\ FilesTyped' /\ Stored(s)' = d /\ \A t \in Server \ {s} : creds'[t] = creds[t]
  BY <1>3, CredsWritten DEF ArtifactInv
<1>6. /\ c.token = v /\ c.name \in {NoVendor, v} /\ Stored(s).token \in {NoVendor, v}
      /\ state[s] # NoFile => state[s].vendor = v
      /\ Stored(s).name \in {NoVendor, Stored(s).token}
  BY <1>1 DEF Right, CreateRight, ArtifactInv, TokenRight
<1>7. d.token = v /\ d.name \in {NoVendor, v}
  <2>1. Stored(s) \in Creds
    BY StoredTyped DEF ArtifactInv
  <2> QED BY <1>2, <1>6, <2>1, FillShape
<1>8. TokenRight(s)' /\ Routed(s)'
  BY <1>3, <1>5, <1>6, <1>7 DEF TokenRight, Routed, ArtifactInv
<1>9. CreateRight(p)' /\ ImportRight(p)'
  <2>1. job'[p] \notin ImportJob
    BY <1>4 DEF CreateJob, ImportJob
  <2> QED BY <1>3, <1>4, <1>5, <1>6, <1>7, <2>1 DEF CreateRight, ImportRight
<1> QED BY <1>1, <1>3, <1>4, <1>5, <1>8, <1>9, WorkflowGoesOn

LEMMA RegisterKeeps == ASSUME ArtifactInv, NEW p \in Proc, Register(p) PROVE ArtifactInv'
<1>1. PICK s \in Server, v \in Vendor :
        /\ s = job[p].server /\ v = job[p].vendor /\ Right(p) /\ Working(p)
        /\ job[p] \in CreateJob /\ job[p].at = "account"
  BY AtCreate DEF Register
<1>2. CASE Fail(p)
  BY <1>2, FailKeeps
<1>3. CASE /\ entries' = entries \union {s} /\ listed' = TRUE /\ Go(p, "order")
           /\ UNCHANGED <<files, cloud, locks, bounds>>
  <2>1. /\ job' \in [Proc -> Job] /\ job'[p] \in CreateJob /\ job'[p].at = "order"
        /\ job'[p].kind = job[p].kind /\ job'[p].server = s /\ job'[p].vendor = v
        /\ job'[p].creds = job[p].creds /\ \A q \in Proc : q # p => job'[q] = job[q]
    BY <1>1, <1>3, CreateGoes DEF CreateSteps, ArtifactInv, CreateJob
  <2>2. UNCHANGED <<config, creds, state, marker, live, made, shared, excl, lock, cleaning, edits>>
    BY <1>3 DEF files, cloud, locks, bounds
  <2>3. FilesTyped' /\ TokenRight(s)' /\ Routed(s)'
    BY <1>3, <2>2 DEF ArtifactInv, FilesTyped, TokenRight, Routed, Stored
  <2>4. CreateRight(p)' /\ ImportRight(p)'
    <3>1. job'[p] \notin ImportJob
      BY <2>1 DEF CreateJob, ImportJob
    <3> QED BY <1>1, <1>3, <2>1, <2>2, <3>1 DEF Right, CreateRight, ImportRight, Stored
  <2> QED BY <1>1, <1>3, <2>1, <2>2, <2>3, <2>4, WorkflowGoesOn
<1> QED BY <1>1, <1>2, <1>3 DEF Register

LEMMA OrderKeeps == ASSUME ArtifactInv, NEW p \in Proc, Order(p) PROVE ArtifactInv'
<1>1. PICK s \in Server, v \in Vendor :
        /\ s = job[p].server /\ v = job[p].vendor /\ Right(p) /\ Working(p)
        /\ job[p] \in CreateJob /\ job[p].at = "order"
  BY AtCreate DEF Order
<1>2. Release(p) /\ UNCHANGED <<config, creds, marker, entries, listed, edits>>
  BY DEF Order, registry, bounds
<1>3. CASE UNCHANGED <<state, cloud>>
  BY <1>2, <1>3, ReleaseKeeps DEF files, registry
<1>4. CASE /\ state[s] = NoFile /\ made < Ids /\ made' = made + 1
           /\ live' = live \union {<<made + 1, s, v>>}
           /\ state' = [state EXCEPT ![s] = [vendor |-> v, id |-> made + 1, tracked |-> TRUE]]
  <2>1. made + 1 \in Id /\ made + 1 \in 0 .. Ids
    BY <1>4, BoundsAssumption DEF ArtifactInv, FilesTyped, Id
  <2>2. PICK x \in State : x = [vendor |-> v, id |-> made + 1, tracked |-> TRUE]
    BY <2>1 DEF State
  <2>3. FilesTyped' /\ state'[s] = x /\ \A t \in Server \ {s} : state'[t] = state[t]
    <3>1. state' = [state EXCEPT ![s] = x]
      BY <1>4, <2>2
    <3>2. state' \in [Server -> StateFile]
      BY <3>1 DEF ArtifactInv, FilesTyped, StateFile
    <3>3. live' \subseteq Id \X Server \X Vendor
      BY <1>4, <2>1 DEF ArtifactInv, FilesTyped
    <3> QED BY <1>2, <1>4, <2>1, <3>1, <3>2, <3>3 DEF ArtifactInv, FilesTyped
  <2>4. TokenRight(s)' /\ Routed(s)'
    <3>1. x.vendor = v
      BY <2>2
    <3> QED BY <1>1, <1>2, <2>3, <3>1 DEF ArtifactInv, Right, CreateRight, TokenRight, Routed, Stored
  <2>5. /\ excl' = excl /\ \A t \in Server : lock[t] # p => lock'[t] = lock[t]
    <3>1. excl # p
      BY <1>1, NoneAssumption DEF ArtifactInv, LocksTyped, Right, Locked
    <3> QED BY <1>1, <1>2, <3>1, ReleaseGives
  <2> QED BY <1>1, <1>2, <2>3, <2>4, <2>5, ReleaseGives, WorkingKeeps
<1> QED BY <1>1, <1>3, <1>4 DEF Order
-----------------------------------------------------------------------------
(* server import *)

LEMMA AtImport ==
  ASSUME ArtifactInv, NEW p \in Proc, NEW a, a # "lock", Stands(p, {"import"}, a)
  PROVE  /\ job[p] \in ImportJob /\ job[p].at = a /\ Working(p) /\ Right(p)
         /\ job[p].server \in Server /\ job[p].vendor \in Vendor /\ job[p].id \in Id
         /\ job[p].creds \in Creds /\ job[p].config \in ConfigFile /\ job[p].base \in BOOLEAN
         /\ job[p].tracked \in BOOLEAN /\ job[p] \notin CreateJob /\ job[p].kind = "import"
<1>1. job[p] \in ImportJob /\ job[p].at = a
  BY KindsApart DEF Stands, ArtifactInv
<1> QED BY <1>1 DEF Working, CreateJob, ImportJob, ArtifactInv

LEMMA LoadBaselineKeeps == ASSUME ArtifactInv, NEW p \in Proc, LoadBaseline(p) PROVE ArtifactInv'
<1>1. PICK s \in Server, j \in ImportJob :
        s = j.server /\ j = job[p] /\ Right(p) /\ Working(p) /\ j.at = "load"
  BY AtImport DEF LoadBaseline
<1>2. CASE Fail(p)
  BY <1>2, FailKeeps
<1>3. CASE /\ job' = [job EXCEPT
                 ![p].at = "marker",
                 ![p].base = (state[s] # NoFile),
                 ![p].config = IF state[s] # NoFile THEN config[s] ELSE NoFile,
                 ![p].creds = IF state[s] # NoFile /\ config[s] # NoFile THEN Stored(s) ELSE NoCreds,
                 ![p].tracked = (state[s] # NoFile) /\ state[s].tracked]
           /\ UNCHANGED <<files, registry, cloud, locks, bounds>>
  <2>1. PICK b \in BOOLEAN : b = (state[s] # NoFile)
    OBVIOUS
  <2>2. PICK content \in ConfigFile : content = IF b THEN config[s] ELSE NoFile
    BY DEF ArtifactInv, FilesTyped, ConfigFile
  <2>3. PICK c \in Creds : c = IF b /\ config[s] # NoFile THEN Stored(s) ELSE NoCreds
    <3>1. NoCreds \in Creds /\ Stored(s) \in Creds
      BY BoundsAssumption, StoredTyped DEF NoCreds, Creds, ArtifactInv
    <3> QED BY <3>1
  <2>4. PICK t \in BOOLEAN : t = (b /\ state[s].tracked)
    BY <2>1 DEF ArtifactInv, FilesTyped, StateFile, State
  <2>5. PICK k : k = [j EXCEPT !.at = "marker", !.base = b, !.config = content, !.creds = c, !.tracked = t]
    OBVIOUS
  <2>6. k \in ImportJob /\ k.at = "marker" /\ k.base = b /\ k.server = s /\ k.kind = j.kind
    BY <1>1, <2>5 DEF ImportJob, ImportSteps
  <2>7. /\ job' \in [Proc -> Job] /\ job'[p] = k /\ \A q \in Proc : q # p => job'[q] = job[q]
    <3>1. k \in Job
      BY <2>6 DEF Job
    <3>2. job' = [job EXCEPT ![p] = k]
      BY <1>1, <1>3, <2>1, <2>2, <2>3, <2>4, <2>5 DEF ArtifactInv
    <3> QED BY <3>1, <3>2 DEF ArtifactInv
  <2>8. UNCHANGED <<config, creds, state, marker, entries, listed, live, made, shared, excl, lock,
                    cleaning, edits>>
    BY <1>3 DEF files, registry, cloud, locks, bounds
  <2>9. FilesTyped' /\ TokenRight(s)' /\ Routed(s)'
    BY <2>8 DEF ArtifactInv, FilesTyped, TokenRight, Routed, Stored
  <2>10. CreateRight(p)' /\ ImportRight(p)'
    <3>1. k \notin CreateJob
      BY <2>6 DEF CreateJob, ImportJob
    <3> QED BY <2>1, <2>6, <2>7, <2>8, <3>1 DEF CreateRight, ImportRight
  <2> QED BY <1>1, <2>6, <2>7, <2>8, <2>9, <2>10, WorkflowGoesOn
<1> QED BY <1>1, <1>2, <1>3 DEF LoadBaseline

(* An import that goes on to the next step. *)
LEMMA ImportGoesOn ==
  ASSUME ArtifactInv, NEW p \in Proc, job[p] \in ImportJob, Working(p), NEW s \in Server,
         s = job[p].server, NEW a \in ImportSteps \ {"lock", "load"}, Go(p, a),
         UNCHANGED locks, entries \subseteq entries',
         \A t \in Server \ {s} : /\ config'[t] = config[t] /\ creds'[t] = creds[t]
                                 /\ state'[t] = state[t] /\ marker'[t] = marker[t],
         FilesTyped', TokenRight(s)', Routed(s)',
         a \in {"marker", "config"} /\ ~job[p].base => state'[s] = NoFile,
         a # "marker" => marker'[s] # NoFile,
         a = "state" => Stored(s)'.name # NoVendor,
         a = "finish" => s \in entries'
  PROVE  ArtifactInv'
<1>1. /\ job' \in [Proc -> Job] /\ job'[p] \in ImportJob /\ job'[p].at = a
      /\ job'[p].kind = job[p].kind /\ job'[p].server = s /\ job'[p].base = job[p].base
      /\ \A q \in Proc : q # p => job'[q] = job[q]
  BY ImportGoes DEF ArtifactInv, ImportJob
<1>2. CreateRight(p)' /\ ImportRight(p)'
  <2>1. job'[p] \notin CreateJob
    BY <1>1 DEF CreateJob, ImportJob
  <2> QED BY <1>1, <2>1 DEF CreateRight, ImportRight
<1> QED BY <1>1, <1>2, WorkflowGoesOn DEF locks

LEMMA WriteMarkerKeeps == ASSUME ArtifactInv, NEW p \in Proc, WriteMarker(p) PROVE ArtifactInv'
<1>1. PICK s \in Server, id \in Id :
        /\ s = job[p].server /\ id = job[p].id /\ Right(p) /\ Working(p)
        /\ job[p] \in ImportJob /\ job[p].at = "marker"
  BY AtImport DEF WriteMarker
<1>2. CASE Fail(p)
  BY <1>2, FailKeeps
<1>3. CASE /\ marker' = [marker EXCEPT ![s] = id] /\ Go(p, "config")
           /\ UNCHANGED <<config, creds, state, registry, cloud, locks, bounds>>
  <2>1. UNCHANGED <<config, creds, state, entries, listed, live, made, edits>>
    BY <1>3 DEF registry, cloud, bounds
  <2>2. /\ FilesTyped' /\ marker'[s] = id /\ id # NoFile
        /\ \A t \in Server \ {s} : marker'[t] = marker[t]
    BY <1>3, <2>1, NoFileAssumption DEF ArtifactInv, FilesTyped
  <2>3. TokenRight(s)' /\ Routed(s)'
    BY <2>1, <2>2 DEF ArtifactInv, TokenRight, Routed, Stored
  <2>4. ~job[p].base => state'[s] = NoFile
    BY <1>1, <2>1 DEF Right, ImportRight
  <2> QED BY <1>1, <1>3, <2>1, <2>2, <2>3, <2>4, ImportGoesOn DEF ImportSteps
<1> QED BY <1>1, <1>2, <1>3 DEF WriteMarker

LEMMA WriteConfigKeeps == ASSUME ArtifactInv, NEW p \in Proc, WriteConfig(p) PROVE ArtifactInv'
<1>1. PICK s \in Server, content \in ConfigFile :
        /\ s = job[p].server /\ content = job[p].config /\ Right(p) /\ Working(p)
        /\ job[p] \in ImportJob /\ job[p].at = "config"
  BY AtImport DEF WriteConfig
<1>2. CASE Fail(p)
  BY <1>2, FailKeeps
<1>3. CASE /\ config' = [config EXCEPT ![s] = AsSaved(content)] /\ Go(p, "creds")
           /\ UNCHANGED <<creds, state, marker, registry, cloud, locks, bounds>>
  <2>1. UNCHANGED <<creds, state, marker, entries, listed, live, made, edits>>
    BY <1>3 DEF registry, cloud, bounds
  <2>2. /\ FilesTyped' /\ \A t \in Server \ {s} : config'[t] = config[t]
    <3>1. AsSaved(content) \in ConfigFile
      BY DEF AsSaved, ConfigFile
    <3> QED BY <1>3, <2>1, <3>1 DEF ArtifactInv, FilesTyped
  <2>3. TokenRight(s)' /\ Routed(s)'
    BY <2>1 DEF ArtifactInv, TokenRight, Routed, Stored
  <2>4. marker'[s] # NoFile
    BY <1>1, <2>1 DEF Right, ImportRight
  <2> QED BY <1>1, <1>3, <2>1, <2>2, <2>3, <2>4, ImportGoesOn DEF ImportSteps
<1> QED BY <1>1, <1>2, <1>3 DEF WriteConfig, SaveConfig

LEMMA WriteCredentialsKeeps ==
  ASSUME ArtifactInv, NEW p \in Proc, WriteCredentials(p) PROVE ArtifactInv'
<1>1. PICK s \in Server, v \in Vendor, c \in Creds :
        /\ s = job[p].server /\ v = job[p].vendor /\ c = job[p].creds /\ Right(p) /\ Working(p)
        /\ job[p] \in ImportJob /\ job[p].at = "creds"
  BY AtImport DEF WriteCredentials
<1>2. PICK d : d = [c EXCEPT !.token = v, !.name = v]
  OBVIOUS
<1>3. d \in Creds /\ d.token = v /\ d.name = v /\ v # NoVendor
  BY <1>2, NoneAssumption DEF Creds
<1>4. /\ creds' = [creds EXCEPT ![s] = d] /\ Go(p, "state")
      /\ UNCHANGED <<config, state, marker, entries, listed, live, made, edits, locks>>
  BY <1>1, <1>2 DEF WriteCredentials, registry, cloud, bounds
<1>5. /\ FilesTyped' /\ Stored(s)' = d /\ \A t \in Server \ {s} : creds'[t] = creds[t]
  BY <1>3, <1>4, CredsWritten DEF ArtifactInv
<1>6. TokenRight(s)' /\ Routed(s)' /\ marker'[s] # NoFile
  BY <1>1, <1>3, <1>4, <1>5 DEF ArtifactInv, TokenRight, Routed, Right, ImportRight
<1> QED BY <1>1, <1>3, <1>4, <1>5, <1>6, ImportGoesOn DEF ImportSteps

LEMMA WriteStateKeeps == ASSUME ArtifactInv, NEW p \in Proc, WriteState(p) PROVE ArtifactInv'
<1>1. PICK s \in Server, v \in Vendor, id \in Id, tracked \in BOOLEAN :
        /\ s = job[p].server /\ v = job[p].vendor /\ id = job[p].id /\ tracked = job[p].tracked
        /\ Right(p) /\ Working(p) /\ job[p] \in ImportJob /\ job[p].at = "state"
  BY AtImport DEF WriteState
<1>2. PICK x \in State : state' = [state EXCEPT ![s] = x]
  BY <1>1 DEF WriteState, State
<1>3. /\ Go(p, "registry")
      /\ UNCHANGED <<config, creds, marker, entries, listed, live, made, edits, locks>>
  BY DEF WriteState, registry, cloud, bounds
<1>4. FilesTyped' /\ \A t \in Server \ {s} : state'[t] = state[t]
  BY <1>2, <1>3 DEF ArtifactInv, FilesTyped, StateFile
<1>5. Stored(s)' = Stored(s)
  BY <1>3 DEF Stored
<1>6. Stored(s).name # NoVendor /\ marker[s] # NoFile
  BY <1>1 DEF Right, ImportRight
<1>7. TokenRight(s)' /\ Routed(s)' /\ marker'[s] # NoFile
  BY <1>3, <1>5, <1>6 DEF ArtifactInv, TokenRight, Routed
<1> QED BY <1>1, <1>3, <1>4, <1>7, ImportGoesOn DEF ImportSteps

LEMMA WriteRegistryKeeps == ASSUME ArtifactInv, NEW p \in Proc, WriteRegistry(p) PROVE ArtifactInv'
<1>1. PICK s \in Server :
        /\ s = job[p].server /\ Right(p) /\ Working(p)
        /\ job[p] \in ImportJob /\ job[p].at = "registry"
  BY AtImport DEF WriteRegistry
<1>2. /\ entries' = entries \union {s} /\ listed' = TRUE /\ Go(p, "finish")
      /\ UNCHANGED <<config, creds, state, marker, live, made, edits, locks>>
  BY <1>1 DEF WriteRegistry, files, cloud, bounds
<1>3. FilesTyped' /\ TokenRight(s)' /\ Routed(s)'
  BY <1>2 DEF ArtifactInv, FilesTyped, TokenRight, Routed, Stored
<1>4. marker'[s] # NoFile
  BY <1>1, <1>2 DEF Right, ImportRight
<1> QED BY <1>1, <1>2, <1>3, <1>4, ImportGoesOn DEF ImportSteps

LEMMA RemoveMarkerKeeps == ASSUME ArtifactInv, NEW p \in Proc, RemoveMarker(p) PROVE ArtifactInv'
<1>1. PICK s \in Server :
        /\ s = job[p].server /\ Right(p) /\ Working(p)
        /\ job[p] \in ImportJob /\ job[p].at = "finish"
  BY AtImport DEF RemoveMarker
<1>2. /\ marker' = [marker EXCEPT ![s] = NoFile] /\ Release(p)
      /\ UNCHANGED <<config, creds, state, entries, listed, live, made, edits>>
  BY <1>1 DEF RemoveMarker, registry, cloud, bounds
<1>3. FilesTyped' /\ \A t \in Server \ {s} : marker'[t] = marker[t]
  BY <1>2 DEF ArtifactInv, FilesTyped
<1>4. TokenRight(s)' /\ Routed(s)'
  BY <1>1, <1>2 DEF ArtifactInv, TokenRight, Routed, Stored, Right, ImportRight
<1>5. excl' = excl /\ \A t \in Server : lock[t] # p => lock'[t] = lock[t]
  <2>1. excl # p
    BY <1>1, NoneAssumption DEF ArtifactInv, LocksTyped, Right, Locked
  <2> QED BY <1>1, <1>2, <2>1, ReleaseGives
<1> QED BY <1>1, <1>2, <1>3, <1>4, <1>5, ReleaseGives, WorkingKeeps
-----------------------------------------------------------------------------
(* What needs no lock *)

LEMMA StartGives ==
  ASSUME ArtifactInv, NEW p \in Proc, NEW command \in Job, command.at = "lock", Start(p, command),
         command \in DeleteJob =>
            /\ command.kind = "delete" => command.server \in Server
            /\ command.kind = "nsdelete" => /\ command.server = NoFile
                                           /\ command.todo = DOMAIN command.approved
  PROVE  /\ job' \in [Proc -> Job] /\ \A q \in Proc : job'[q] = job[q] \/ Right(q)'
         /\ job[p].kind = "idle" /\ UNCHANGED edits
<1>1. /\ command.kind \in Kinds /\ job' \in [Proc -> Job] /\ job'[p] = command
      /\ job' = [job EXCEPT ![p] = command] /\ edits' = edits /\ job[p].kind = "idle"
  BY DEF Start, Begin, Busy, Idle, ArtifactInv
<1>2. Right(p)'
  <2>1. JobTyped(p)'
    BY <1>1 DEF JobTyped, OnServer, OnNamespace
  <2> QED BY <1>1, <2>1 DEF Right, Locked, Working, Deleting, CreateRight, ImportRight, DeleteRight,
                            NamespaceRight
<1> QED BY <1>1, <1>2 DEF ArtifactInv

LEMMA LocksStay == ASSUME ArtifactInv, UNCHANGED locks PROVE LocksTyped'
  BY DEF ArtifactInv, LocksTyped, locks

LEMMA SnapshotConfigKeeps == ASSUME ArtifactInv, NEW p \in Proc, SnapshotConfig(p) PROVE ArtifactInv'
<1>1. PICK command : /\ command \in CreateJob /\ command.at = "lock" /\ Start(p, command)
                     /\ UNCHANGED <<files, registry, cloud, locks>>
  <2>1. PICK s \in Server, v \in Vendor :
          Start(p, [kind |-> "create", at |-> "lock", server |-> s, vendor |-> v,
                    config |-> config[s], creds |-> NoCreds])
    BY DEF SnapshotConfig
  <2>2. config[s] \in ConfigFile /\ NoCreds \in Creds
    BY BoundsAssumption DEF ArtifactInv, FilesTyped, NoCreds, Creds
  <2>3. [kind |-> "create", at |-> "lock", server |-> s, vendor |-> v, config |-> config[s],
         creds |-> NoCreds] \in CreateJob
    BY <2>2 DEF CreateJob, CreateSteps
  <2> QED BY <2>1, <2>3 DEF SnapshotConfig
<1>2. command \in Job /\ command \notin DeleteJob
  BY <1>1 DEF Job, CreateJob, DeleteJob
<1>3. /\ job' \in [Proc -> Job] /\ \A q \in Proc : job'[q] = job[q] \/ Right(q)'
      /\ UNCHANGED edits
  BY <1>1, <1>2, StartGives
<1>4. UNCHANGED <<config, creds, state, marker, entries, live, shared, excl, lock>>
  BY <1>1 DEF files, registry, cloud, locks
<1> QED BY <1>1, <1>3, <1>4, FilesStay, LocksStay, FreeKeeps DEF HasFiles

LEMMA DiscoverKeeps == ASSUME ArtifactInv, NEW p \in Proc, Discover(p) PROVE ArtifactInv'
<1>1. PICK command : /\ command \in ImportJob /\ command.at = "lock" /\ Start(p, command)
                     /\ UNCHANGED <<files, registry, cloud, locks>>
  <2>1. PICK found \in live, force \in BOOLEAN :
          Start(p, [kind |-> "import", at |-> "lock", server |-> found[2],
                    vendor |-> found[3], id |-> found[1], force |-> force,
                    base |-> FALSE, config |-> NoFile, creds |-> NoCreds,
                    tracked |-> FALSE])
    BY DEF Discover
  <2>2. NoCreds \in Creds /\ found[1] \in Id /\ found[2] \in Server /\ found[3] \in Vendor
    BY BoundsAssumption DEF ArtifactInv, FilesTyped, NoCreds, Creds
  <2>3. [kind |-> "import", at |-> "lock", server |-> found[2], vendor |-> found[3], id |-> found[1],
         force |-> force, base |-> FALSE, config |-> NoFile, creds |-> NoCreds,
         tracked |-> FALSE] \in ImportJob
    BY <2>2 DEF ImportJob, ImportSteps, ConfigFile
  <2> QED BY <2>1, <2>3 DEF Discover
<1>2. command \in Job /\ command \notin DeleteJob
  BY <1>1 DEF Job, ImportJob, DeleteJob
<1>3. /\ job' \in [Proc -> Job] /\ \A q \in Proc : job'[q] = job[q] \/ Right(q)'
      /\ UNCHANGED edits
  BY <1>1, <1>2, StartGives
<1>4. UNCHANGED <<config, creds, state, marker, entries, live, shared, excl, lock>>
  BY <1>1 DEF files, registry, cloud, locks
<1> QED BY <1>1, <1>3, <1>4, FilesStay, LocksStay, FreeKeeps DEF HasFiles

LEMMA StoreSecretKeeps == ASSUME ArtifactInv, NEW p \in Proc, StoreSecret(p) PROVE ArtifactInv'
<1>1. PICK s \in Server : /\ state[s] # NoFile /\ Stored(s).secret < Secrets
                          /\ creds' = [creds EXCEPT ![s] = [Stored(s) EXCEPT !.secret = @ + 1]]
  BY DEF StoreSecret
<1>2. Stored(s) \in Creds
  BY StoredTyped DEF ArtifactInv
<1>3. PICK d : d = [Stored(s) EXCEPT !.secret = Stored(s).secret + 1]
  OBVIOUS
<1>4. d \in Creds /\ d.token = Stored(s).token /\ d.name = Stored(s).name
  <2>1. Stored(s).secret + 1 \in 0 .. Secrets
    BY <1>1, <1>2, BoundsAssumption DEF Creds
  <2> QED BY <1>2, <1>3, <2>1 DEF Creds
<1>5. /\ creds' = [creds EXCEPT ![s] = d]
      /\ UNCHANGED <<config, state, marker, entries, listed, live, made, shared, excl, lock, locks,
                     job, edits>>
  BY <1>1, <1>3 DEF StoreSecret, Begin, registry, cloud, locks
<1>6. FilesTyped' /\ Stored(s)' = d /\ \A t \in Server \ {s} : creds'[t] = creds[t]
  BY <1>4, <1>5, CredsWritten DEF ArtifactInv
<1>7. \A t \in Server : Filled(t) /\ (HasFiles(t)' => HasFiles(t))
  <2>1. Filled(s) /\ HasFiles(s)
    BY <1>1, <1>4, <1>6 DEF Filled, HasFiles
  <2>2. \A t \in Server \ {s} : Filled(t) /\ (HasFiles(t)' => HasFiles(t))
    BY <1>5, <1>6 DEF Filled, HasFiles, Stored
  <2> QED BY <2>1, <2>2
<1>8. job' \in [Proc -> Job]
  BY <1>5 DEF ArtifactInv
<1> QED BY <1>5, <1>6, <1>7, <1>8, LocksStay, FreeKeeps

LEMMA CreateNamespaceKeeps == ASSUME ArtifactInv, NEW p \in Proc, CreateNamespace(p) PROVE ArtifactInv'
<1>1. /\ listed' = TRUE
      /\ UNCHANGED <<config, creds, state, marker, entries, live, made, shared, excl, lock, locks,
                     job, edits>>
  BY DEF CreateNamespace, Begin, files, cloud, locks
<1>2. FilesTyped' /\ job' \in [Proc -> Job]
  BY <1>1 DEF ArtifactInv, FilesTyped
<1>3. \A t \in Server : Filled(t) /\ (HasFiles(t)' => HasFiles(t))
  BY <1>1 DEF Filled, HasFiles, Stored
<1> QED BY <1>1, <1>2, <1>3, LocksStay, FreeKeeps

LEMMA EditConfigKeeps == ASSUME ArtifactInv, NEW s \in Server, EditConfig(s) PROVE ArtifactInv'
<1>1. /\ config[s] # NoFile /\ edits < Edits /\ edits' = edits + 1
      /\ config' = [config EXCEPT ![s] = @ \union {edits + 1}]
      /\ UNCHANGED <<creds, state, marker, entries, listed, live, made, shared, excl, lock, locks, job>>
  BY DEF EditConfig, registry, cloud, locks
<1>2. FilesTyped' /\ job' \in [Proc -> Job]
  <2>1. config[s] \union {edits + 1} \in ConfigFile
    BY <1>1, BoundsAssumption DEF ArtifactInv, FilesTyped, ConfigFile
  <2> QED BY <1>1, <2>1 DEF ArtifactInv, FilesTyped
<1>3. \A t \in Server : Filled(t) /\ (HasFiles(t)' => HasFiles(t))
  BY <1>1 DEF Filled, HasFiles, Stored, ArtifactInv, FilesTyped
<1> QED BY <1>1, <1>2, <1>3, LocksStay, FreeKeeps

LEMMA LoseStateKeeps == ASSUME ArtifactInv, NEW s \in Server, LoseState(s) PROVE ArtifactInv'
<1>1. /\ state' = [state EXCEPT ![s] = NoFile]
      /\ UNCHANGED <<config, creds, marker, entries, listed, live, made, shared, excl, lock, locks, job,
                     edits>>
  BY DEF LoseState, registry, cloud, locks
<1>2. FilesTyped' /\ job' \in [Proc -> Job]
  BY <1>1 DEF ArtifactInv, FilesTyped, StateFile
<1>3. \A t \in Server : /\ Filled(t) /\ (HasFiles(t)' => HasFiles(t))
                        /\ state'[t] \in {state[t], NoFile}
  BY <1>1 DEF Filled, HasFiles, Stored, ArtifactInv, FilesTyped
<1> QED BY <1>1, <1>2, <1>3, LocksStay, FreeKeeps

(* approveServerDelete: what it may write, and what it keeps in memory. *)
LEMMA ApproveGives ==
  ASSUME ArtifactInv, NEW p \in Proc, NEW s \in Server, NEW step \in DeleteSteps,
         NEW memory \in DeleteJob, Approve(p, s, step, memory),
         UNCHANGED <<config, state, marker, entries, listed, live, made, edits>>
  PROVE  /\ FilesTyped' /\ s \in entries /\ state[s] # NoFile
         /\ \A t \in Server : Filled(t) /\ (HasFiles(t)' => HasFiles(t))
         /\ \A t \in Server \ {s} : creds'[t] = creds[t]
         /\ \E m \in DeleteJob :
              /\ job' = [job EXCEPT ![p] = m] /\ m.at = step /\ m.server = s /\ m.kind = memory.kind
              /\ m.approved = memory.approved /\ m.todo = memory.todo
<1>1. s \in entries /\ state[s] # NoFile /\ state[s] \in State /\ state[s].vendor \in Vendor
  BY DEF Approve, ArtifactInv, FilesTyped, StateFile, State
<1>2. Stored(s) \in Creds
  BY StoredTyped DEF ArtifactInv
<1>3. ASSUME creds' = creds
      PROVE  /\ FilesTyped' /\ \A t \in Server : Filled(t) /\ (HasFiles(t)' => HasFiles(t))
             /\ \A t \in Server \ {s} : creds'[t] = creds[t]
  <2>1. FilesTyped'
    BY <1>3 DEF ArtifactInv, FilesTyped
  <2>2. \A t \in Server : Filled(t) /\ (HasFiles(t)' => HasFiles(t)) /\ creds'[t] = creds[t]
    BY <1>3 DEF Filled, Stored, HasFiles
  <2> QED BY <1>3, <2>1, <2>2
<1>4. ASSUME NEW name \in {NoVendor, state[s].vendor},
             creds' = [creds EXCEPT ![s] = Fill(Stored(s), Typed(state[s].vendor, name))]
      PROVE  /\ FilesTyped' /\ \A t \in Server : Filled(t) /\ (HasFiles(t)' => HasFiles(t))
             /\ \A t \in Server \ {s} : creds'[t] = creds[t]
  <2>1. PICK y \in Creds : /\ y = Typed(state[s].vendor, name)
                           /\ y.token = state[s].vendor /\ y.name = name
    BY <1>1, <1>4, TypedShape
  <2>2. PICK d \in Creds : d = Fill(Stored(s), y)
    BY <1>2, FillShape
  <2>3. \/ d.token = Stored(s).token /\ d.name = Stored(s).name
        \/ Stored(s).token = NoVendor /\ d.token = state[s].vendor /\ d.name = name
    BY <1>2, <2>1, <2>2, FillShape
  <2>4. FilesTyped' /\ Stored(s)' = d /\ \A t \in Server \ {s} : creds'[t] = creds[t]
    BY <1>4, <2>1, <2>2, CredsWritten DEF ArtifactInv
  <2>5. Filled(s) /\ HasFiles(s)
    BY <1>1, <2>3, <2>4 DEF Filled, HasFiles
  <2>6. \A t \in Server \ {s} : Filled(t) /\ (HasFiles(t)' => HasFiles(t))
    BY <2>4 DEF Filled, HasFiles, Stored
  <2> QED BY <2>4, <2>5, <2>6
<1>5. /\ FilesTyped' /\ \A t \in Server : Filled(t) /\ (HasFiles(t)' => HasFiles(t))
      /\ \A t \in Server \ {s} : creds'[t] = creds[t]
  BY <1>3, <1>4 DEF Approve
<1>6. PICK content \in ConfigFile, c \in Creds :
        job' = [job EXCEPT ![p] = [memory EXCEPT
                 !.at = step, !.server = s, !.state = state[s], !.config = content, !.creds = c]]
  <2>1. PICK content \in ConfigFile : content = IF state[s].tracked THEN config[s] ELSE NoFile
    BY DEF ConfigFile, ArtifactInv, FilesTyped
  <2>2. PICK c \in Creds : c = IF state[s].tracked THEN creds'[s] ELSE NoCreds
    <3>1. creds'[s] \in Creds
      BY <1>5 DEF Approve, FilesTyped
    <3>2. NoCreds \in Creds
      BY BoundsAssumption DEF NoCreds, Creds
    <3> QED BY <3>1, <3>2
  <2> QED BY <2>1, <2>2 DEF Approve
<1>7. PICK m : m = [memory EXCEPT !.at = step, !.server = s, !.state = state[s], !.config = content,
                                  !.creds = c]
  OBVIOUS
<1>8. /\ m \in DeleteJob /\ m.at = step /\ m.server = s /\ m.kind = memory.kind
      /\ m.approved = memory.approved /\ m.todo = memory.todo
  BY <1>1, <1>7 DEF DeleteJob, StateFile
<1> QED BY <1>1, <1>5, <1>6, <1>7, <1>8

LEMMA DeletionTyped ==
  ASSUME NEW kind \in {"delete", "nsdelete"}
  PROVE  LET d == Deletion(kind)
         IN /\ d \in DeleteJob /\ d.kind = kind /\ d.at = "lock" /\ d.server = NoFile
            /\ DOMAIN d.approved = {} /\ d.todo = {}
<1>1. [s \in {} |-> NoFile] \in Approvals
  BY DEF Approvals
<1>2. NoCreds \in Creds
  BY BoundsAssumption DEF NoCreds, Creds
<1> QED BY <1>1, <1>2 DEF Deletion, DeleteJob, DeleteSteps, StateFile, ConfigFile

LEMMA ApproveDeleteKeeps == ASSUME ArtifactInv, NEW p \in Proc, ApproveDelete(p) PROVE ArtifactInv'
<1>1. PICK s \in Server : Approve(p, s, "lock", Deletion("delete"))
  BY DEF ApproveDelete
<1>2. /\ "delete" \in Kinds
      /\ UNCHANGED <<config, state, marker, entries, listed, live, made, edits, shared, excl, lock, locks>>
  BY DEF ApproveDelete, Begin, registry, cloud, locks
<1>3. Deletion("delete") \in DeleteJob /\ Deletion("delete").kind = "delete" /\ "lock" \in DeleteSteps
  BY DeletionTyped DEF DeleteSteps
<1>4. PICK m \in DeleteJob :
        job' = [job EXCEPT ![p] = m] /\ m.at = "lock" /\ m.server = s /\ m.kind = "delete"
  BY <1>1, <1>2, <1>3, ApproveGives
<1>5. FilesTyped' /\ \A t \in Server : Filled(t) /\ (HasFiles(t)' => HasFiles(t))
  BY <1>1, <1>2, <1>3, ApproveGives
<1>6. /\ job' \in [Proc -> Job] /\ job'[p] = m
      /\ \A q \in Proc : q # p => job'[q] = job[q]
  BY <1>4 DEF ArtifactInv, Job
<1>7. Right(p)'
  <2>1. JobTyped(p)'
    BY <1>2, <1>4, <1>6 DEF JobTyped, OnServer, OnNamespace
  <2> QED BY <1>4, <1>6, <2>1 DEF Right, Locked, Working, Deleting, CreateRight, ImportRight, DeleteRight,
                                  NamespaceRight
<1> QED BY <1>2, <1>5, <1>6, <1>7, LocksStay, FreeKeeps

LEMMA ApproveNamespaceKeeps ==
  ASSUME ArtifactInv, NEW p \in Proc, ApproveNamespace(p) PROVE ArtifactInv'
<1>1. PICK d \in DeleteJob : /\ d = Deletion("nsdelete") /\ d.kind = "nsdelete" /\ d.at = "lock"
                             /\ d.server = NoFile
  BY DeletionTyped
<1>2. PICK f \in Approvals : f = [s \in entries |-> state[s]] /\ DOMAIN f = entries
  <2>1. entries \in SUBSET Server /\ \A s \in entries : state[s] \in StateFile
    BY DEF ArtifactInv, FilesTyped
  <2>2. [s \in entries |-> state[s]] \in [entries -> StateFile]
    BY <2>1
  <2>3. [s \in entries |-> state[s]] \in Approvals
    BY <2>1, <2>2 DEF Approvals
  <2> QED BY <2>3
<1>3. PICK command : command = [d EXCEPT !.approved = f, !.todo = entries]
  OBVIOUS
<1>4. /\ command \in DeleteJob /\ command.kind = "nsdelete" /\ command.at = "lock"
      /\ command.server = NoFile /\ command.todo = DOMAIN command.approved
  BY <1>1, <1>2, <1>3 DEF DeleteJob, ArtifactInv, FilesTyped
<1>5. Start(p, command) /\ UNCHANGED <<files, registry, cloud, locks>>
  BY <1>1, <1>2, <1>3 DEF ApproveNamespace
<1>6. command \in Job
  BY <1>4 DEF Job
<1>7. /\ job' \in [Proc -> Job] /\ \A q \in Proc : job'[q] = job[q] \/ Right(q)'
      /\ UNCHANGED edits
  BY <1>4, <1>5, <1>6, StartGives
<1>8. UNCHANGED <<config, creds, state, marker, entries, live, shared, excl, lock>>
  BY <1>5 DEF files, registry, cloud, locks
<1> QED BY <1>5, <1>7, <1>8, FilesStay, LocksStay, FreeKeeps DEF HasFiles
-----------------------------------------------------------------------------
(* server delete *)

LEMMA AtDelete ==
  ASSUME ArtifactInv, NEW p \in Proc, job[p].kind \in {"delete", "nsdelete"}, job[p].at # "lock"
  PROVE  /\ job[p] \in DeleteJob /\ Deleting(p) /\ Right(p) /\ job[p].at \in DeleteSteps
         /\ job[p].server \in Server \union {NoFile} /\ job[p].approved \in Approvals
         /\ job[p].at \in OnServer => job[p].server \in Server
         /\ job[p].at \in OnNamespace => job[p].kind = "nsdelete" /\ job[p].server = NoFile
         /\ job[p].kind = "delete" => job[p].server \in Server
<1>1. job[p] \in DeleteJob /\ Right(p)
  BY KindsApart DEF ArtifactInv
<1> QED BY <1>1 DEF Deleting, Right, JobTyped, DeleteJob

LEMMA DeleteGoesOn ==
  ASSUME ArtifactInv, NEW p \in Proc, Deleting(p), job' \in [Proc -> Job],
         \A q \in Proc : q # p => job'[q] = job[q],
         job'[p] \in DeleteJob, job'[p].kind = job[p].kind, excl' = excl,
         LocksTyped', FilesTyped', \A s \in Server : TokenRight(s)' /\ Routed(s)',
         job'[p].at \notin {"lock", "again"},
         job'[p].at \in OnServer => job'[p].server \in Server,
         job'[p].at \in OnNamespace => job'[p].kind = "nsdelete" /\ job'[p].server = NoFile,
         job'[p].kind = "delete" => job'[p].server \in Server,
         DeleteRight(p)', NamespaceRight(p)'
  PROVE  ArtifactInv'
<1>1. job'[p] \notin CreateJob /\ job'[p] \notin ImportJob
  BY DEF CreateJob, ImportJob, DeleteJob
<1>2. JobTyped(p)'
  BY DEF JobTyped, ArtifactInv, Right
<1>3. Locked(p)'
  BY <1>1 DEF Locked, Working, ArtifactInv, Right
<1>4. Right(p)'
  BY <1>1, <1>2, <1>3 DEF Right, CreateRight, ImportRight
<1> QED BY <1>4, DeletingKeeps

(* A delete takes files and entries away, and goes through what it approved. *)
LEMMA NamespaceStays ==
  ASSUME NEW p \in Proc, NamespaceRight(p), job[p] \in DeleteJob, job'[p] \in DeleteJob,
         job'[p].kind = job[p].kind, job'[p].approved = job[p].approved, job'[p].todo = job[p].todo,
         job'[p].server = job[p].server,
         job[p].at \notin {"lock", "again"},
         \A t \in Server : HasFiles(t)' => HasFiles(t),
         \A t \in Server : state[t] = NoFile => state'[t] = NoFile,
         entries' \subseteq entries,
         job'[p].at \in {"guard", "configs", "states", "unlist"} /\ job'[p].server = NoFile
            => job[p].at \in {"guard", "configs", "states", "unlist"}
  PROVE  NamespaceRight(p)'
<1>1. \A t \in DOMAIN job[p].approved : t \in Server
  BY DEF DeleteJob, Approvals
<1> QED BY <1>1 DEF NamespaceRight

LEMMA RevalidateKeeps == ASSUME ArtifactInv, NEW p \in Proc, Revalidate(p) PROVE ArtifactInv'
<1>1. PICK s \in Server, x \in StateFile :
        /\ s = job[p].server /\ x = job[p].state /\ Right(p) /\ Deleting(p) /\ job[p] \in DeleteJob
        /\ job[p].at = "server"
  <2>1. job[p].kind \in {"delete", "nsdelete"} /\ job[p].at = "server"
    BY DEF Revalidate, Stands
  <2> QED BY <2>1, AtDelete DEF OnServer, DeleteJob
<1>2. CASE Fail(p)
  BY <1>2, FailKeeps
<1>3. CASE /\ Unchanged(p) /\ lock[s] = NoProc /\ lock' = [lock EXCEPT ![s] = p] /\ Go(p, "remote")
           /\ UNCHANGED <<files, registry, cloud, shared, excl, cleaning, bounds>>
  <2>1. /\ job' \in [Proc -> Job] /\ job'[p] \in DeleteJob /\ job'[p].at = "remote"
        /\ job'[p].kind = job[p].kind /\ job'[p].server = s /\ job'[p].state = x
        /\ job'[p].approved = job[p].approved /\ job'[p].todo = job[p].todo
        /\ \A q \in Proc : q # p => job'[q] = job[q]
    BY <1>1, <1>3, DeleteGoes DEF ArtifactInv, DeleteSteps, OnServer
  <2>2. UNCHANGED <<config, creds, state, marker, entries, listed, live, made, shared, excl, cleaning,
                    edits>>
    BY <1>3 DEF files, registry, cloud, bounds
  <2>3. FilesTyped' /\ \A t \in Server : TokenRight(t)' /\ Routed(t)'
    BY <2>2 DEF ArtifactInv, FilesTyped, TokenRight, Routed, Stored
  <2>4. LocksTyped'
    <3>1. excl = p
      BY <1>1 DEF Right, Locked
    <3> QED BY <1>3, <2>2, <3>1 DEF ArtifactInv, LocksTyped
  <2>5. DeleteRight(p)'
    <3>1. s \in entries /\ state[s] = x /\ Stored(s).token # NoVendor
          /\ Stored(s).name \in {NoVendor, state[s].vendor}
      BY <1>1, <1>3 DEF Unchanged, Account
    <3>2. state[s] # NoFile => Stored(s).token = state[s].vendor
      BY <1>1, <3>1, NoneAssumption DEF ArtifactInv, TokenRight
    <3>3. Stored(s)' = Stored(s)
      BY <2>2 DEF Stored
    <3> QED BY <2>1, <2>2, <3>1, <3>2, <3>3 DEF DeleteRight
  <2>6. NamespaceRight(p)'
    <3>1. \A t \in Server : HasFiles(t)' => HasFiles(t)
      BY <2>2 DEF HasFiles
    <3> QED BY <1>1, <2>1, <2>2, <3>1, NamespaceStays DEF Right
  <2>7. job'[p].kind = "delete" => job'[p].server \in Server
    BY <2>1
  <2> QED BY <1>1, <2>1, <2>2, <2>3, <2>4, <2>5, <2>6, <2>7, DeleteGoesOn DEF OnNamespace
<1> QED BY <1>1, <1>2, <1>3 DEF Revalidate

LEMMA DeleteRemoteKeeps == ASSUME ArtifactInv, NEW p \in Proc, DeleteRemote(p) PROVE ArtifactInv'
<1>1. PICK s \in Server, x \in StateFile :
        /\ s = job[p].server /\ x = job[p].state /\ Right(p) /\ Deleting(p) /\ job[p] \in DeleteJob
        /\ job[p].at = "remote"
  <2>1. job[p].kind \in {"delete", "nsdelete"} /\ job[p].at = "remote"
    BY DEF DeleteRemote, Stands
  <2> QED BY <2>1, AtDelete DEF OnServer, DeleteJob
<1>2. /\ live' = {l \in live : l[1] # x.id} /\ lock' = [lock EXCEPT ![s] = NoProc] /\ Go(p, "guard")
      /\ state' = IF state[s] # NoFile THEN [state EXCEPT ![s].tracked = FALSE] ELSE state
      /\ UNCHANGED <<config, creds, marker, entries, listed, made, shared, excl, cleaning, edits>>
  BY <1>1 DEF DeleteRemote, registry, bounds
<1>3. /\ job' \in [Proc -> Job] /\ job'[p] \in DeleteJob /\ job'[p].at = "guard"
      /\ job'[p].kind = job[p].kind /\ job'[p].server = s /\ job'[p].state = x
      /\ job'[p].approved = job[p].approved /\ job'[p].todo = job[p].todo
      /\ \A q \in Proc : q # p => job'[q] = job[q]
  BY <1>1, <1>2, DeleteGoes DEF ArtifactInv, DeleteSteps
<1>4. /\ state' \in [Server -> StateFile] /\ \A t \in Server \ {s} : state'[t] = state[t]
      /\ state[s] = NoFile => state'[s] = NoFile
      /\ state'[s] # NoFile => /\ state[s] # NoFile /\ state'[s].id = state[s].id
                              /\ state'[s].vendor = state[s].vendor
  <2>1. CASE state[s] # NoFile
    <3>1. state[s] \in State
      BY <2>1 DEF ArtifactInv, FilesTyped, StateFile
    <3>2. PICK y : y = [state[s] EXCEPT !.tracked = FALSE]
      OBVIOUS
    <3>3. y \in State /\ y.id = state[s].id /\ y.vendor = state[s].vendor
      BY <3>1, <3>2 DEF State
    <3>4. state' = [state EXCEPT ![s] = y]
      BY <1>2, <2>1, <3>2
    <3> QED BY <2>1, <3>3, <3>4 DEF ArtifactInv, FilesTyped, StateFile
  <2>2. CASE state[s] = NoFile
    <3>1. state' = state
      BY <1>2, <2>2
    <3> QED BY <2>2, <3>1 DEF ArtifactInv, FilesTyped
  <2> QED BY <2>1, <2>2
<1>5. \A t \in Server : Stored(t)' = Stored(t)
  BY <1>2 DEF Stored
<1>6. FilesTyped'
  <2>1. live' \subseteq live
    BY <1>2
  <2> QED BY <1>2, <1>4, <2>1 DEF ArtifactInv, FilesTyped
<1>7. \A t \in Server : TokenRight(t)' /\ Routed(t)'
  BY <1>2, <1>4, <1>5 DEF ArtifactInv, TokenRight, Routed
<1>8. LocksTyped'
  BY <1>2 DEF ArtifactInv, LocksTyped
<1>9. s \in entries /\ (state[s] # NoFile => state[s].id = x.id)
  BY <1>1, NoFileAssumption DEF Right, DeleteRight
<1>10. DeleteRight(p)'
  BY <1>2, <1>3, <1>4, <1>9 DEF DeleteRight
<1>11. NamespaceRight(p)'
  <2>1. \A t \in Server : /\ HasFiles(t)' => HasFiles(t)
                          /\ state[t] = NoFile => state'[t] = NoFile
    BY <1>2, <1>4 DEF HasFiles
  <2>2. job'[p].server # NoFile
    BY <1>3, NoFileAssumption
  <2> QED BY <1>1, <1>2, <1>3, <2>1, <2>2, NamespaceStays DEF Right
<1> QED BY <1>1, <1>2, <1>3, <1>6, <1>7, <1>8, <1>10, <1>11, DeleteGoesOn DEF OnServer, OnNamespace

LEMMA LockCleanupKeeps == ASSUME ArtifactInv, NEW p \in Proc, LockCleanup(p) PROVE ArtifactInv'
<1>1. PICK s \in Server \union {NoFile}, x \in StateFile :
        /\ s = job[p].server /\ x = job[p].state /\ Right(p) /\ Deleting(p) /\ job[p] \in DeleteJob
        /\ job[p].at = "guard" /\ (s = NoFile => job[p].kind = "nsdelete")
  <2>1. job[p].kind \in {"delete", "nsdelete"} /\ job[p].at = "guard"
    BY DEF LockCleanup, Stands
  <2> QED BY <2>1, AtDelete, NoFileAssumption DEF DeleteJob
<1>2. PICK a \in {"configs", "config"} : Go(p, a) /\ (a = "configs" <=> s = NoFile)
  BY <1>1 DEF LockCleanup
<1>3. /\ cleaning' = p
      /\ UNCHANGED <<config, creds, state, marker, entries, listed, live, made, shared, excl, lock, edits>>
  BY DEF LockCleanup, files, registry, cloud, bounds
<1>4. /\ job' \in [Proc -> Job] /\ job'[p] \in DeleteJob /\ job'[p].at = a
      /\ job'[p].kind = job[p].kind /\ job'[p].server = s /\ job'[p].state = x
      /\ job'[p].approved = job[p].approved /\ job'[p].todo = job[p].todo
      /\ \A q \in Proc : q # p => job'[q] = job[q]
  BY <1>1, <1>2, DeleteGoes DEF ArtifactInv, DeleteSteps, OnServer, OnNamespace
<1>5. FilesTyped' /\ LocksTyped' /\ \A t \in Server : TokenRight(t)' /\ Routed(t)'
  BY <1>3 DEF ArtifactInv, FilesTyped, LocksTyped, TokenRight, Routed, Stored
<1>6. DeleteRight(p)'
  BY <1>1, <1>2, <1>3, <1>4 DEF Right, DeleteRight
<1>7. NamespaceRight(p)'
  <2>1. \A t \in Server : HasFiles(t)' => HasFiles(t)
    BY <1>3 DEF HasFiles
  <2> QED BY <1>1, <1>3, <1>4, <2>1, NamespaceStays DEF Right
<1>8. /\ job'[p].at \in OnServer => s \in Server
      /\ job'[p].at \in OnNamespace => job[p].kind = "nsdelete" /\ s = NoFile
      /\ job[p].kind = "delete" => s \in Server
  BY <1>1, <1>2, <1>4 DEF OnServer, OnNamespace
<1> QED BY <1>1, <1>2, <1>3, <1>4, <1>5, <1>6, <1>7, <1>8, DeleteGoesOn

LEMMA RemoveArtifactKeeps == ASSUME ArtifactInv, NEW p \in Proc, RemoveArtifact(p) PROVE ArtifactInv'
<1>1. PICK a \in {"config", "marker", "state", "creds"} : a = job[p].at
  BY DEF RemoveArtifact, After
<1>2. PICK s \in Server, x \in StateFile :
        /\ s = job[p].server /\ x = job[p].state /\ Right(p) /\ Deleting(p) /\ job[p] \in DeleteJob
        /\ job[p].kind \in {"delete", "nsdelete"} /\ s # NoFile
  <2>1. job[p].kind \in {"delete", "nsdelete"}
    BY DEF RemoveArtifact
  <2> QED BY <1>1, <2>1, AtDelete, NoFileAssumption DEF OnServer, DeleteJob
<1>3. PICK b \in {"marker", "state", "creds", "registry"} :
        /\ Go(p, b) /\ (b = "creds" <=> a = "state") /\ (b = "registry" <=> a = "creds")
  BY <1>1 DEF RemoveArtifact, After
<1>4. /\ config' = IF a = "config" THEN [config EXCEPT ![s] = NoFile] ELSE config
      /\ marker' = IF a = "marker" THEN [marker EXCEPT ![s] = NoFile] ELSE marker
      /\ state' = IF a = "state" THEN [state EXCEPT ![s] = NoFile] ELSE state
      /\ creds' = IF a = "creds" THEN [creds EXCEPT ![s] = NoFile] ELSE creds
      /\ UNCHANGED <<entries, listed, live, made, shared, excl, lock, cleaning, edits>>
  BY <1>1, <1>2 DEF RemoveArtifact, registry, cloud, locks, bounds
<1>5. /\ job' \in [Proc -> Job] /\ job'[p] \in DeleteJob /\ job'[p].at = b
      /\ job'[p].kind = job[p].kind /\ job'[p].server = s /\ job'[p].state = x
      /\ job'[p].approved = job[p].approved /\ job'[p].todo = job[p].todo
      /\ \A q \in Proc : q # p => job'[q] = job[q]
  BY <1>2, <1>3, DeleteGoes DEF ArtifactInv, DeleteSteps, OnServer
<1>6. /\ config' \in [Server -> ConfigFile] /\ creds' \in [Server -> {NoFile} \union Creds]
      /\ state' \in [Server -> StateFile] /\ marker' \in [Server -> {NoFile} \union Id]
      /\ \A t \in Server \ {s} : UNCHANGED <<config[t], creds[t], state[t], marker[t]>>
      /\ config'[s] \in {config[s], NoFile} /\ marker'[s] \in {marker[s], NoFile}
      /\ state'[s] = IF a = "state" THEN NoFile ELSE state[s]
      /\ creds'[s] = IF a = "creds" THEN NoFile ELSE creds[s]
  BY <1>4 DEF ArtifactInv, FilesTyped, ConfigFile, StateFile
<1>7. FilesTyped' /\ LocksTyped'
  BY <1>4, <1>6 DEF ArtifactInv, FilesTyped, LocksTyped
<1>8. /\ s \in entries /\ (state[s] # NoFile => state[s].id = x.id) /\ \A l \in live : l[1] # x.id
      /\ a = "creds" => state[s] = NoFile
  BY <1>1, <1>2 DEF Right, DeleteRight
<1>9. ASSUME NEW t \in Server PROVE TokenRight(t)' /\ Routed(t)'
  <2>1. TokenRight(t) /\ Routed(t)
    BY DEF ArtifactInv
  <2>2. CASE t # s
    BY <1>4, <1>6, <2>1, <2>2 DEF TokenRight, Routed, Stored
  <2>3. CASE t = s
    <3>1. Routed(s)'
      BY <1>4, <1>8 DEF Routed
    <3>2. CASE a = "creds"
      BY <1>6, <1>8, <3>1, <3>2, <2>3 DEF TokenRight, Stored, NoCreds
    <3>3. CASE a # "creds"
      BY <1>6, <3>1, <3>3, <2>1, <2>3 DEF TokenRight, Stored
    <3> QED BY <3>2, <3>3
  <2> QED BY <2>2, <2>3
<1>10. DeleteRight(p)'
  BY <1>1, <1>3, <1>4, <1>5, <1>6, <1>8 DEF DeleteRight
<1>11. NamespaceRight(p)'
  <2>1. \A t \in Server : /\ HasFiles(t)' => HasFiles(t)
                          /\ state[t] = NoFile => state'[t] = NoFile
    BY <1>6 DEF HasFiles
  <2> QED BY <1>1, <1>2, <1>3, <1>4, <1>5, <2>1, NamespaceStays DEF Right
<1> QED BY <1>2, <1>3, <1>4, <1>5, <1>7, <1>9, <1>10, <1>11, DeleteGoesOn DEF OnNamespace

LEMMA UnregisterKeeps == ASSUME ArtifactInv, NEW p \in Proc, Unregister(p) PROVE ArtifactInv'
<1>1. PICK s \in Server :
        /\ s = job[p].server /\ Right(p) /\ Deleting(p) /\ job[p] \in DeleteJob
        /\ job[p].at = "registry" /\ s # NoFile
  <2>1. job[p].kind \in {"delete", "nsdelete"} /\ job[p].at = "registry"
    BY DEF Unregister, Stands
  <2> QED BY <2>1, AtDelete, NoFileAssumption DEF OnServer
<1>2. /\ entries' = entries \ {s}
      /\ UNCHANGED <<config, creds, state, marker, listed, live, made, edits>>
  BY <1>1 DEF Unregister, files, cloud, bounds
<1>3. state[s] = NoFile
  BY <1>1 DEF Right, DeleteRight
<1>4. FilesTyped'
  BY <1>2 DEF ArtifactInv, FilesTyped
<1>5. \A t \in Server : TokenRight(t)' /\ Routed(t)'
  BY <1>2, <1>3 DEF ArtifactInv, TokenRight, Routed, Stored
<1>6. CASE Release(p)
  BY <1>1, <1>4, <1>5, <1>6, ReleaseGives, DeletingKeeps
<1>7. CASE /\ job[p].kind # "delete"
           /\ job' = [job EXCEPT ![p].at = "next", ![p].server = NoFile]
           /\ cleaning' = NoProc /\ UNCHANGED <<shared, excl, lock>>
  <2>1. PICK j \in DeleteJob : j = job[p] /\ j.kind = "nsdelete"
    BY <1>1, <1>7 DEF DeleteJob
  <2>2. PICK k : k = [j EXCEPT !.at = "next", !.server = NoFile]
    OBVIOUS
  <2>3. /\ k \in DeleteJob /\ k.at = "next" /\ k.server = NoFile /\ k.kind = "nsdelete"
        /\ k.approved = j.approved /\ k.todo = j.todo
    BY <2>1, <2>2 DEF DeleteJob, DeleteSteps, OnNamespace
  <2>4. job' = [job EXCEPT ![p] = k]
    BY <1>7, <2>1, <2>2
  <2>5. /\ job' \in [Proc -> Job] /\ job'[p] = k /\ \A q \in Proc : q # p => job'[q] = job[q]
    BY <2>3, <2>4 DEF ArtifactInv, Job
  <2>6. LocksTyped'
    BY <1>7 DEF ArtifactInv, LocksTyped
  <2>7. DeleteRight(p)'
    BY <2>3, <2>5 DEF DeleteRight
  <2>8. NamespaceRight(p)'
    <3>1. \A t \in DOMAIN j.approved : t \in Server
      BY <2>1 DEF DeleteJob, Approvals
    <3>2. \A t \in Server : HasFiles(t)' <=> HasFiles(t)
      BY <1>2 DEF HasFiles
    <3>3. /\ j.todo \subseteq DOMAIN j.approved
          /\ \A t \in Server \ DOMAIN j.approved : ~HasFiles(t) /\ t \notin entries
          /\ \A t \in DOMAIN j.approved :
               \/ state[t] = NoFile
               \/ t = s
               \/ t \in j.todo /\ j.approved[t] # NoFile
      BY <1>1, <2>1 DEF Right, NamespaceRight
    <3> QED BY <1>2, <1>3, <2>3, <2>5, <3>1, <3>2, <3>3 DEF NamespaceRight
  <2> QED BY <1>1, <1>4, <1>5, <1>7, <2>1, <2>3, <2>5, <2>6, <2>7, <2>8, DeleteGoesOn
          DEF OnServer, OnNamespace
<1> QED BY <1>6, <1>7 DEF Unregister
-----------------------------------------------------------------------------
(* namespace delete *)

LEMMA AtNamespace ==
  ASSUME ArtifactInv, NEW p \in Proc, NEW a \in OnNamespace, Stands(p, {"nsdelete"}, a)
  PROVE  /\ job[p] \in DeleteJob /\ Deleting(p) /\ Right(p) /\ job[p].kind = "nsdelete"
         /\ job[p].at = a /\ job[p].server = NoFile /\ job[p].approved \in Approvals
         /\ job[p].todo \subseteq DOMAIN job[p].approved
         /\ \A s \in DOMAIN job[p].approved : s \in Server
<1>1. job[p].kind \in {"delete", "nsdelete"} /\ job[p].at # "lock" /\ job[p].kind = "nsdelete"
  BY DEF Stands, OnNamespace
<1>2. job[p] \in DeleteJob /\ Right(p) /\ job[p].server = NoFile /\ job[p].approved \in Approvals
  BY <1>1, AtDelete DEF Stands
<1> QED BY <1>1, <1>2, AtDelete DEF Stands, Right, NamespaceRight, Approvals

(* A step of a namespace delete on no server in particular. *)
LEMMA NamespaceGoesOn ==
  ASSUME ArtifactInv, NEW p \in Proc, NEW a \in OnNamespace, Stands(p, {"nsdelete"}, a),
         NEW b \in {"next", "guard", "configs", "states", "unlist"}, Go(p, b),
         UNCHANGED locks, FilesTyped', \A s \in Server : TokenRight(s)' /\ Routed(s)',
         a # "again", b # "next", a = "next" => job[p].todo = {},
         \A t \in Server : HasFiles(t)' => HasFiles(t),
         \A t \in Server : state[t] = NoFile => state'[t] = NoFile,
         entries' \subseteq entries
  PROVE  ArtifactInv'
<1>1. /\ job[p] \in DeleteJob /\ Deleting(p) /\ Right(p) /\ job[p].kind = "nsdelete"
      /\ job[p].at = a /\ job[p].server = NoFile /\ job[p].approved \in Approvals
      /\ job[p].todo \subseteq DOMAIN job[p].approved
      /\ \A s \in DOMAIN job[p].approved : s \in Server
  BY AtNamespace
<1>2. /\ job' \in [Proc -> Job] /\ job'[p] \in DeleteJob /\ job'[p].at = b
      /\ job'[p].kind = job[p].kind /\ job'[p].server = job[p].server
      /\ job'[p].approved = job[p].approved /\ job'[p].todo = job[p].todo
      /\ \A q \in Proc : q # p => job'[q] = job[q]
  BY <1>1, DeleteGoes DEF ArtifactInv, DeleteSteps, OnNamespace
<1>3. DeleteRight(p)'
  BY <1>1, <1>2 DEF DeleteRight
<1>4. NamespaceRight(p)'
  BY <1>1, <1>2 DEF Right, NamespaceRight, OnNamespace
<1>5. LocksTyped' /\ excl' = excl
  BY LocksStay DEF locks
<1> QED BY <1>1, <1>2, <1>3, <1>4, <1>5, DeleteGoesOn DEF OnServer, OnNamespace

LEMMA CleanUpNamespaceKeeps ==
  ASSUME ArtifactInv, NEW p \in Proc, CleanUpNamespace(p) PROVE ArtifactInv'
<1>1. /\ Stands(p, {"nsdelete"}, "next") /\ Go(p, "guard") /\ job[p].todo = {}
      /\ UNCHANGED <<files, registry, cloud, locks, edits>>
  BY DEF CleanUpNamespace, bounds
<1>2. FilesTyped' /\ \A s \in Server : TokenRight(s)' /\ Routed(s)'
  BY <1>1, FilesStay
<1>3. /\ \A t \in Server : (HasFiles(t)' => HasFiles(t)) /\ (state[t] = NoFile => state'[t] = NoFile)
      /\ entries' \subseteq entries
  BY <1>1 DEF files, registry, HasFiles
<1> QED BY <1>1, <1>2, <1>3, NamespaceGoesOn DEF OnNamespace

LEMMA RemoveConfigTreeKeeps ==
  ASSUME ArtifactInv, NEW p \in Proc, RemoveConfigTree(p) PROVE ArtifactInv'
<1>1. /\ Stands(p, {"nsdelete"}, "configs") /\ Go(p, "states") /\ config' = NoneOf /\ creds' = NoneOf
      /\ UNCHANGED <<state, marker, entries, listed, live, made, edits, locks>>
  BY DEF RemoveConfigTree, registry, cloud, bounds
<1>2. FilesTyped'
  BY <1>1 DEF ArtifactInv, FilesTyped, NoneOf, ConfigFile
<1>3. \A s \in Server : state[s] = NoFile
  <2>1. Right(p) /\ job[p] \in DeleteJob /\ job[p].server = NoFile
    BY <1>1, AtNamespace DEF OnNamespace
  <2>2. job[p].todo = {} /\ \A s \in Server \ DOMAIN job[p].approved : ~HasFiles(s)
    BY <1>1, <2>1 DEF Right, NamespaceRight, Stands
  <2>3. \A s \in DOMAIN job[p].approved : state[s] = NoFile \/ s = NoFile
    BY <1>1, <2>1, <2>2 DEF Right, NamespaceRight, Stands
  <2> QED BY <2>2, <2>3, NoFileAssumption DEF HasFiles
<1>4. \A s \in Server : TokenRight(s)' /\ Routed(s)'
  BY <1>1, <1>3 DEF TokenRight, Routed, Stored, NoneOf, NoCreds
<1>5. /\ \A t \in Server : (HasFiles(t)' => HasFiles(t)) /\ (state[t] = NoFile => state'[t] = NoFile)
      /\ entries' \subseteq entries
  BY <1>1 DEF HasFiles, NoneOf
<1> QED BY <1>1, <1>2, <1>4, <1>5, NamespaceGoesOn DEF OnNamespace

LEMMA RemoveStateTreeKeeps ==
  ASSUME ArtifactInv, NEW p \in Proc, RemoveStateTree(p) PROVE ArtifactInv'
<1>1. /\ Stands(p, {"nsdelete"}, "states") /\ Go(p, "unlist") /\ state' = NoneOf /\ marker' = NoneOf
      /\ UNCHANGED <<config, creds, entries, listed, live, made, edits, locks>>
  BY DEF RemoveStateTree, registry, cloud, bounds
<1>2. FilesTyped'
  BY <1>1 DEF ArtifactInv, FilesTyped, NoneOf, StateFile
<1>3. \A s \in Server : TokenRight(s)' /\ Routed(s)'
  BY <1>1 DEF ArtifactInv, TokenRight, Routed, Stored, NoneOf
<1>4. /\ \A t \in Server : (HasFiles(t)' => HasFiles(t)) /\ (state[t] = NoFile => state'[t] = NoFile)
      /\ entries' \subseteq entries
  BY <1>1 DEF HasFiles, NoneOf
<1> QED BY <1>1, <1>2, <1>3, <1>4, NamespaceGoesOn DEF OnNamespace

LEMMA RemoveNamespaceKeeps ==
  ASSUME ArtifactInv, NEW p \in Proc, RemoveNamespace(p) PROVE ArtifactInv'
<1>1. CASE Fail(p)
  BY <1>1, FailKeeps
<1>2. CASE listed' = FALSE /\ Release(p) /\ UNCHANGED <<files, entries, cloud, bounds>>
  <2>1. Deleting(p)
    BY AtNamespace DEF RemoveNamespace, OnNamespace
  <2>2. FilesTyped' /\ \A s \in Server : TokenRight(s)' /\ Routed(s)'
    BY <1>2 DEF ArtifactInv, FilesTyped, TokenRight, Routed, Stored, files, cloud, bounds
  <2> QED BY <1>2, <2>1, <2>2, ReleaseGives, DeletingKeeps
<1> QED BY <1>1, <1>2 DEF RemoveNamespace

LEMMA RevalidateNamespaceKeeps ==
  ASSUME ArtifactInv, NEW p \in Proc, RevalidateNamespace(p) PROVE ArtifactInv'
<1>1. /\ job[p] \in DeleteJob /\ Deleting(p) /\ Right(p) /\ job[p].kind = "nsdelete"
      /\ job[p].at = "again" /\ job[p].server = NoFile /\ job[p].approved \in Approvals
      /\ \A s \in DOMAIN job[p].approved : s \in Server
      /\ job[p].todo = DOMAIN job[p].approved
  <2>1. Stands(p, {"nsdelete"}, "again")
    BY DEF RevalidateNamespace
  <2>2. Right(p) /\ job[p] \in DeleteJob /\ job[p].kind = "nsdelete"
    BY <2>1, AtNamespace DEF OnNamespace
  <2>3. job[p].todo = DOMAIN job[p].approved
    BY <2>1, <2>2 DEF Right, JobTyped, Stands
  <2> QED BY <2>1, <2>2, <2>3, AtNamespace DEF OnNamespace
<1>2. CASE Fail(p)
  BY <1>2, FailKeeps
<1>3. CASE /\ entries = job[p].todo /\ LocalAuthority
           /\ \A s \in job[p].todo : state[s] = job[p].approved[s]
           /\ Go(p, "next") /\ UNCHANGED <<files, registry, cloud, locks, bounds>>
  <2>1. /\ job' \in [Proc -> Job] /\ job'[p] \in DeleteJob /\ job'[p].at = "next"
        /\ job'[p].kind = job[p].kind /\ job'[p].server = job[p].server
        /\ job'[p].approved = job[p].approved /\ job'[p].todo = job[p].todo
        /\ \A q \in Proc : q # p => job'[q] = job[q]
    BY <1>1, <1>3, DeleteGoes DEF ArtifactInv, DeleteSteps, OnNamespace
  <2>2. FilesTyped' /\ LocksTyped' /\ \A s \in Server : TokenRight(s)' /\ Routed(s)'
    BY <1>3, FilesStay, LocksStay DEF bounds
  <2>3. UNCHANGED <<config, creds, state, marker, entries, excl>>
    BY <1>3 DEF files, registry, locks
  <2>4. DeleteRight(p)'
    BY <1>1, <2>1 DEF DeleteRight
  <2>5. NamespaceRight(p)'
    <3>1. \A s \in Server \ DOMAIN job[p].approved : ~HasFiles(s) /\ s \notin entries
      BY <1>1, <1>3 DEF LocalAuthority
    <3>2. \A s \in Server : HasFiles(s)' <=> HasFiles(s)
      BY <2>3 DEF HasFiles
    <3>3. \A s \in DOMAIN job[p].approved :
            state[s] = NoFile \/ (s \in job[p].todo /\ job[p].approved[s] # NoFile)
      BY <1>1, <1>3
    <3> QED BY <1>1, <2>1, <2>3, <3>1, <3>2, <3>3 DEF NamespaceRight
  <2> QED BY <1>1, <2>1, <2>2, <2>3, <2>4, <2>5, DeleteGoesOn DEF OnServer, OnNamespace
<1> QED BY <1>2, <1>3 DEF RevalidateNamespace

LEMMA RemoveStaleEntryKeeps ==
  ASSUME ArtifactInv, NEW p \in Proc, RemoveStaleEntry(p) PROVE ArtifactInv'
<1>1. PICK s \in job[p].todo :
        /\ job[p].approved[s] = NoFile /\ entries' = entries \ {s}
        /\ job' = [job EXCEPT ![p].todo = @ \ {s}]
  BY DEF RemoveStaleEntry
<1>2. /\ job[p] \in DeleteJob /\ Deleting(p) /\ Right(p) /\ job[p].kind = "nsdelete"
      /\ job[p].at = "next" /\ job[p].server = NoFile
      /\ job[p].todo \subseteq DOMAIN job[p].approved
      /\ \A t \in DOMAIN job[p].approved : t \in Server
  BY AtNamespace DEF RemoveStaleEntry, OnNamespace
<1>3. UNCHANGED <<config, creds, state, marker, listed, live, made, edits, locks, excl>>
  BY DEF RemoveStaleEntry, files, cloud, locks, bounds
<1>4. s \in Server /\ state[s] = NoFile
  BY <1>1, <1>2, NoFileAssumption DEF Right, NamespaceRight
<1>5. PICK j \in DeleteJob : j = job[p]
  BY <1>2
<1>6. PICK k : k = [j EXCEPT !.todo = @ \ {s}]
  OBVIOUS
<1>7. /\ k \in DeleteJob /\ k.at = j.at /\ k.server = j.server /\ k.kind = j.kind
      /\ k.approved = j.approved /\ k.todo = j.todo \ {s}
  BY <1>6 DEF DeleteJob
<1>8. job' = [job EXCEPT ![p] = k]
  BY <1>1, <1>5, <1>6
<1>9. /\ job' \in [Proc -> Job] /\ job'[p] = k /\ \A q \in Proc : q # p => job'[q] = job[q]
  BY <1>7, <1>8 DEF ArtifactInv, Job
<1>10. FilesTyped' /\ \A t \in Server : TokenRight(t)' /\ Routed(t)'
  BY <1>1, <1>3, <1>4 DEF ArtifactInv, FilesTyped, TokenRight, Routed, Stored
<1>11. DeleteRight(p)'
  BY <1>2, <1>5, <1>7, <1>9 DEF DeleteRight
<1>12. NamespaceRight(p)'
  <2>1. \A t \in Server : HasFiles(t)' <=> HasFiles(t)
    BY <1>3 DEF HasFiles
  <2>2. /\ \A t \in Server \ DOMAIN j.approved : ~HasFiles(t) /\ t \notin entries
        /\ \A t \in DOMAIN j.approved :
             \/ state[t] = NoFile
             \/ t = NoFile
             \/ t \in j.todo /\ j.approved[t] # NoFile
    BY <1>2, <1>5 DEF Right, NamespaceRight
  <2> QED BY <1>1, <1>2, <1>3, <1>5, <1>7, <1>9, <2>1, <2>2 DEF NamespaceRight
<1> QED BY <1>2, <1>3, <1>5, <1>7, <1>9, <1>10, <1>11, <1>12, LocksStay, DeleteGoesOn
        DEF OnServer, OnNamespace

LEMMA DeleteNextKeeps == ASSUME ArtifactInv, NEW p \in Proc, DeleteNext(p) PROVE ArtifactInv'
<1>1. PICK s \in job[p].todo : Approve(p, s, "server", [job[p] EXCEPT !.todo = @ \ {s}])
  BY DEF DeleteNext
<1>2. /\ job[p] \in DeleteJob /\ Deleting(p) /\ Right(p) /\ job[p].kind = "nsdelete"
      /\ job[p].at = "next" /\ job[p].server = NoFile
      /\ job[p].todo \subseteq DOMAIN job[p].approved
      /\ \A t \in DOMAIN job[p].approved : t \in Server
  BY AtNamespace DEF DeleteNext, OnNamespace
<1>3. /\ UNCHANGED <<config, state, marker, entries, listed, live, made, edits, excl>>
      /\ UNCHANGED locks
  BY DEF DeleteNext, registry, cloud, locks, bounds
<1>4. PICK memory \in DeleteJob :
        /\ memory = [job[p] EXCEPT !.todo = @ \ {s}] /\ memory.kind = "nsdelete"
        /\ memory.approved = job[p].approved /\ memory.todo = job[p].todo \ {s}
  <2>1. PICK j \in DeleteJob : j = job[p]
    BY <1>2
  <2>2. PICK memory : memory = [j EXCEPT !.todo = @ \ {s}]
    OBVIOUS
  <2>3. /\ memory \in DeleteJob /\ memory.kind = j.kind /\ memory.approved = j.approved
        /\ memory.todo = j.todo \ {s}
    BY <2>2 DEF DeleteJob
  <2> QED BY <1>2, <2>1, <2>2, <2>3
<1>5. s \in Server
  BY <1>1, <1>2
<1>6. Approve(p, s, "server", memory) /\ "server" \in DeleteSteps
  BY <1>1, <1>4 DEF DeleteSteps, OnServer
<1>7. PICK m \in DeleteJob :
        /\ job' = [job EXCEPT ![p] = m] /\ m.at = "server" /\ m.server = s /\ m.kind = "nsdelete"
        /\ m.approved = job[p].approved /\ m.todo = job[p].todo \ {s}
  <2>1. \E m \in DeleteJob :
          /\ job' = [job EXCEPT ![p] = m] /\ m.at = "server" /\ m.server = s /\ m.kind = memory.kind
          /\ m.approved = memory.approved /\ m.todo = memory.todo
    BY <1>3, <1>5, <1>6, ApproveGives
  <2> QED BY <1>4, <2>1
<1>8. FilesTyped' /\ \A t \in Server : Filled(t) /\ (HasFiles(t)' => HasFiles(t))
  BY <1>3, <1>5, <1>6, ApproveGives
<1>9. /\ job' \in [Proc -> Job] /\ job'[p] = m /\ \A q \in Proc : q # p => job'[q] = job[q]
  BY <1>7 DEF ArtifactInv, Job
<1>10. \A t \in Server : TokenRight(t)' /\ Routed(t)'
  BY <1>3, <1>8, FilledRight DEF ArtifactInv
<1>11. DeleteRight(p)'
  BY <1>7, <1>9 DEF DeleteRight
<1>12. NamespaceRight(p)'
  <2>1. /\ \A t \in Server \ DOMAIN job[p].approved : ~HasFiles(t) /\ t \notin entries
        /\ \A t \in DOMAIN job[p].approved :
             \/ state[t] = NoFile
             \/ t = NoFile
             \/ t \in job[p].todo /\ job[p].approved[t] # NoFile
    BY <1>2 DEF Right, NamespaceRight
  <2>2. \A t \in Server : t # NoFile
    BY NoFileAssumption
  <2> QED BY <1>2, <1>3, <1>7, <1>8, <1>9, <2>1, <2>2 DEF NamespaceRight
<1> QED BY <1>2, <1>3, <1>5, <1>7, <1>8, <1>9, <1>10, <1>11, <1>12, LocksStay, DeleteGoesOn
        DEF OnServer, OnNamespace
-----------------------------------------------------------------------------
(* The invariant *)

LEMMA ArtifactInit == ASSUME Init PROVE ArtifactInv
<1>1. PICK have \in SUBSET Server, v \in Vendor :
        \E id \in [have -> 1 .. Cardinality(have)], token \in {v, NoVendor}, name \in {v, NoVendor} :
           /\ token = NoVendor => name = NoVendor
           /\ \A s, t \in have : s # t => id[s] # id[t]
           /\ Cardinality(have) <= Ids
           /\ config = [s \in Server |-> IF s \in have THEN {} ELSE NoFile]
           /\ creds = [s \in Server |-> IF s \in have
                        THEN [token |-> token, name |-> name, secret |-> 1] ELSE NoFile]
           /\ state = [s \in Server |-> IF s \in have
                        THEN [vendor |-> v, id |-> id[s], tracked |-> TRUE] ELSE NoFile]
           /\ entries = have
           /\ listed = (have # {})
           /\ live = {<<id[s], s, v>> : s \in have}
           /\ made = Cardinality(have)
  BY Zenon DEF Init
<1>2. PICK id \in [have -> 1 .. Cardinality(have)], token \in {v, NoVendor}, name \in {v, NoVendor} :
           /\ token = NoVendor => name = NoVendor
           /\ Cardinality(have) <= Ids
           /\ config = [s \in Server |-> IF s \in have THEN {} ELSE NoFile]
           /\ creds = [s \in Server |-> IF s \in have
                        THEN [token |-> token, name |-> name, secret |-> 1] ELSE NoFile]
           /\ state = [s \in Server |-> IF s \in have
                        THEN [vendor |-> v, id |-> id[s], tracked |-> TRUE] ELSE NoFile]
           /\ entries = have
           /\ listed = (have # {})
           /\ live = {<<id[s], s, v>> : s \in have}
           /\ made = Cardinality(have)
  BY <1>1
<1>3. Cardinality(have) \in Nat
  BY ServerAssumption, FS_Subset, FS_CardinalityType
<1>4. /\ marker = NoneOf /\ shared = {} /\ excl = NoProc /\ cleaning = NoProc
      /\ lock = [s \in Server |-> NoProc] /\ job = [p \in Proc |-> Idle] /\ edits = 0
  BY DEF Init
<1>5. \A s \in have : id[s] \in Id
  BY <1>2, <1>3, BoundsAssumption DEF Id
<1>6. FilesTyped
  <2>1. [token |-> token, name |-> name, secret |-> 1] \in Creds
    BY BoundsAssumption DEF Creds
  <2>2. \A s \in have : [vendor |-> v, id |-> id[s], tracked |-> TRUE] \in State
    BY <1>5 DEF State
  <2>3. live \subseteq Id \X Server \X Vendor
    BY <1>2, <1>5
  <2>4. made \in 0 .. Ids
    BY <1>2, <1>3, BoundsAssumption
  <2>5. config \in [Server -> ConfigFile]
    BY <1>2 DEF ConfigFile
  <2>6. creds \in [Server -> {NoFile} \union Creds]
    BY <1>2, <2>1
  <2>7. state \in [Server -> StateFile]
    BY <1>2, <2>2 DEF StateFile
  <2>8. marker \in [Server -> {NoFile} \union Id] /\ entries \subseteq Server /\ listed \in BOOLEAN
        /\ edits \in Nat
    BY <1>2, <1>4 DEF NoneOf
  <2> QED BY <2>3, <2>4, <2>5, <2>6, <2>7, <2>8 DEF FilesTyped
<1>7. LocksTyped
  BY <1>4 DEF LocksTyped
<1>8. ASSUME NEW s \in Server PROVE TokenRight(s) /\ Routed(s)
  <2>1. CASE s \in have
    <3>1. PICK c \in Creds : c = creds[s] /\ c.token = token /\ c.name = name
      <4>1. creds[s] = [token |-> token, name |-> name, secret |-> 1]
        BY <1>2, <2>1
      <4> QED BY <4>1, BoundsAssumption DEF Creds
    <3>2. Stored(s) = c
      BY <3>1, NoFileAssumption DEF Stored
    <3>3. state[s].vendor = v /\ s \in entries
      BY <1>2, <2>1
    <3> QED BY <3>1, <3>2, <3>3, <1>2 DEF TokenRight, Routed
  <2>2. CASE s \notin have
    <3>1. state[s] = NoFile /\ Stored(s) = NoCreds
      BY <1>2, <2>2 DEF Stored
    <3> QED BY <3>1 DEF TokenRight, Routed, NoCreds
  <2> QED BY <2>1, <2>2
<1>9. job \in [Proc -> Job] /\ \A p \in Proc : Right(p)
  <2>1. \A p \in Proc : job[p] = Idle
    BY <1>4
  <2> QED BY <1>4, <2>1, IdleRight DEF Job
<1> QED BY <1>6, <1>7, <1>8, <1>9 DEF ArtifactInv

LEMMA ArtifactStutter == ASSUME ArtifactInv, UNCHANGED vars PROVE ArtifactInv'
  BY DEF vars, files, registry, cloud, locks, bounds, ArtifactInv, FilesTyped, LocksTyped, TokenRight,
         Routed, Stored, Right, JobTyped, Locked, Working, Deleting, CreateRight, ImportRight,
         DeleteRight, NamespaceRight, HasFiles

LEMMA ArtifactStep == ASSUME ArtifactInv, [Next]_vars PROVE ArtifactInv'
<1>1. CASE UNCHANGED vars
  BY <1>1, ArtifactStutter
<1>2. ASSUME NEW p \in Proc, CreateStep(p) PROVE ArtifactInv'
  BY <1>2, SnapshotConfigKeeps, CheckProviderKeeps, PublishConfigKeeps, AskCredentialsKeeps,
     MergeCredentialsKeeps, RegisterKeeps, OrderKeeps DEF CreateStep
<1>3. ASSUME NEW p \in Proc, ImportStep(p) PROVE ArtifactInv'
  BY <1>3, DiscoverKeeps, LoadBaselineKeeps, WriteMarkerKeeps, WriteConfigKeeps, WriteCredentialsKeeps,
     WriteStateKeeps, WriteRegistryKeeps, RemoveMarkerKeeps DEF ImportStep
<1>4. ASSUME NEW p \in Proc, DeleteStep(p) PROVE ArtifactInv'
  BY <1>4, ApproveDeleteKeeps, LockNamespaceKeeps, RevalidateKeeps, DeleteRemoteKeeps, LockCleanupKeeps,
     RemoveArtifactKeeps, UnregisterKeeps DEF DeleteStep
<1>5. ASSUME NEW p \in Proc, NamespaceStep(p) PROVE ArtifactInv'
  BY <1>5, ApproveNamespaceKeeps, RevalidateNamespaceKeeps, RemoveStaleEntryKeeps, DeleteNextKeeps,
     CleanUpNamespaceKeeps, RemoveConfigTreeKeeps, RemoveStateTreeKeeps, RemoveNamespaceKeeps,
     CreateNamespaceKeeps DEF NamespaceStep
<1>6. ASSUME NEW p \in Proc, LockWorkflow(p) \/ StoreSecret(p) \/ Stop(p) PROVE ArtifactInv'
  BY <1>6, LockWorkflowKeeps, StoreSecretKeeps, StopKeeps
<1>7. CASE Operator
  BY <1>7, EditConfigKeeps, LoseStateKeeps DEF Operator
<1> QED BY <1>1, <1>2, <1>3, <1>4, <1>5, <1>6, <1>7 DEF Next

(* Every part of the invariant holds whatever commands run, stop or die,    *)
(* and whatever an operator edits or loses meanwhile.                       *)
THEOREM ArtifactInvariant == Spec => []ArtifactInv
<1>1. Init => ArtifactInv
  BY ArtifactInit
<1>2. ArtifactInv /\ [Next]_vars => ArtifactInv'
  BY ArtifactStep
<1> QED BY <1>1, <1>2, PTL DEF Spec

(* The files, the locks and the kinds of the commands have their types; a   *)
(* server is locked only by a command that holds the namespace.             *)
THEOREM TypeCorrect == Spec => []TypeOK
<1>1. ArtifactInv => TypeOK
  BY DEF ArtifactInv, FilesTyped, LocksTyped, Right, JobTyped, ConfigFile, StateFile, TypeOK
<1> QED BY <1>1, ArtifactInvariant, PTL

(* A state file has an entry or the marker of an import at every moment:    *)
(* import writes the marker first, delete removes the entry last.           *)
THEOREM StatesAreRouted == Spec => []StateIsRouted
<1>1. ArtifactInv => StateIsRouted
  BY DEF ArtifactInv, Routed, StateIsRouted
<1> QED BY <1>1, ArtifactInvariant, PTL

(* Create orders, and delete deletes, with a token of the vendor it calls:  *)
(* validateStoredTokenProvider and serverProviderAccount suffice for that,  *)
(* whatever approvals fill in between.                                      *)
THEOREM TokensGoHome == Spec => []TokenGoesHome
<1>1. ASSUME ArtifactInv PROVE TokenGoesHome
  <2>1. ASSUME NEW p \in Proc, Stands(p, {"create"}, "order")
        PROVE  job[p].creds.token = job[p].vendor
    BY <1>1, <2>1, AtCreate DEF Stands, Right, CreateRight
  <2>2. ASSUME NEW p \in Proc, Stands(p, {"delete", "nsdelete"}, "remote"),
               state[job[p].server] # NoFile
        PROVE  Stored(job[p].server).token = state[job[p].server].vendor
    <3>1. Right(p) /\ job[p] \in DeleteJob /\ job[p].server \in Server
      BY <1>1, <2>2, AtDelete DEF Stands, OnServer
    <3> QED BY <2>2, <3>1, NoFileAssumption DEF Stands, Right, DeleteRight
  <2> QED BY <2>1, <2>2 DEF TokenGoesHome
<1> QED BY <1>1, ArtifactInvariant, PTL
-----------------------------------------------------------------------------
(* Who writes what *)

LEMMA CreateWrites ==
  ASSUME NEW p \in Proc, CreateStep(p)
  PROVE  /\ UNCHANGED <<marker, losses>>
         /\ config' = config \/ PublishConfig(p)
         /\ creds' = creds \/ CheckProvider(p) \/ MergeCredentials(p)
         /\ state' = state \/ Order(p)
  BY DEF CreateStep, SnapshotConfig, Start, Begin, CheckProvider, PublishConfig, AskCredentials,
         MergeCredentials, Register, Order, Fail, files, bounds

LEMMA ImportWrites ==
  ASSUME NEW p \in Proc, ImportStep(p)
  PROVE  /\ UNCHANGED losses
         /\ marker' = marker \/ WriteMarker(p) \/ RemoveMarker(p)
         /\ config' = config \/ WriteConfig(p)
         /\ creds' = creds \/ WriteCredentials(p)
         /\ state' = state \/ WriteState(p)
  BY DEF ImportStep, Discover, Start, Begin, LoadBaseline, WriteMarker, WriteConfig, WriteCredentials,
         WriteState, WriteRegistry, RemoveMarker, Fail, files, bounds

LEMMA DeleteWrites ==
  ASSUME NEW p \in Proc, DeleteStep(p)
  PROVE  /\ UNCHANGED losses
         /\ UNCHANGED <<config, marker>> \/ RemoveArtifact(p)
         /\ creds' = creds \/ ApproveDelete(p) \/ RemoveArtifact(p)
         /\ state' = state \/ DeleteRemote(p) \/ RemoveArtifact(p)
  BY DEF DeleteStep, ApproveDelete, Begin, LockNamespace, Revalidate, DeleteRemote, LockCleanup,
         Unregister, RemoveArtifact, Fail, files, bounds

LEMMA NamespaceWrites ==
  ASSUME NEW p \in Proc, NamespaceStep(p)
  PROVE  /\ UNCHANGED losses
         /\ config' = config \/ RemoveConfigTree(p)
         /\ creds' = creds \/ DeleteNext(p) \/ RemoveConfigTree(p)
         /\ UNCHANGED <<state, marker>> \/ RemoveStateTree(p)
  BY DEF NamespaceStep, ApproveNamespace, Start, Begin, RevalidateNamespace, RemoveStaleEntry, DeleteNext,
         CleanUpNamespace, RemoveConfigTree, RemoveStateTree, RemoveNamespace, CreateNamespace, Fail,
         files, bounds

LEMMA OthersWrite ==
  ASSUME NEW p \in Proc, LockWorkflow(p) \/ StoreSecret(p) \/ Stop(p)
  PROVE  UNCHANGED <<config, state, marker, losses>> /\ (creds' = creds \/ StoreSecret(p))
  BY DEF LockWorkflow, StoreSecret, Begin, Stop, files, bounds

(* Nothing but the local part of a delete, of a server that its remote part *)
(* is through with, removes a state file.                                   *)
LEMMA StateRemoved ==
  ASSUME ArtifactInv, Next, NEW s \in Server, state[s] # NoFile, state'[s] = NoFile
  PROVE  \/ \E p \in Proc : RemoveArtifact(p) /\ job[p].at = "state" /\ job[p].server = s
         \/ LoseState(s)
<1>1. ASSUME NEW p \in Proc, CreateStep(p) PROVE FALSE
  <2>1. Order(p)
    BY <1>1, CreateWrites
  <2>2. PICK v, id : state' = [state EXCEPT ![job[p].server] = [vendor |-> v, id |-> id, tracked |-> TRUE]]
                     /\ v \in Vendor /\ id \in Id
    <3>1. job[p].vendor \in Vendor /\ state' # state
      BY <2>1, AtCreate DEF Order
    <3>2. made + 1 \in Id
      BY <2>1, <3>1, BoundsAssumption DEF Order, Id, ArtifactInv, FilesTyped
    <3> QED BY <2>1, <3>1, <3>2 DEF Order
  <2>3. [vendor |-> v, id |-> id, tracked |-> TRUE] \in State
    BY <2>2 DEF State
  <2> QED BY <2>2, <2>3, NoFileAssumption DEF ArtifactInv, FilesTyped
<1>2. ASSUME NEW p \in Proc, ImportStep(p) PROVE FALSE
  <2>1. WriteState(p)
    BY <1>2, ImportWrites
  <2>2. job[p].vendor \in Vendor /\ job[p].id \in Id /\ job[p].tracked \in BOOLEAN
    <3>1. job[p] \in ImportJob
      BY <2>1, KindsApart DEF WriteState, Stands, ArtifactInv
    <3> QED BY <3>1 DEF ImportJob
  <2>3. PICK enriched \in BOOLEAN, tracked \in BOOLEAN :
          /\ tracked = (job[p].tracked \/ enriched)
          /\ state' = [state EXCEPT ![job[p].server] =
                         [vendor |-> job[p].vendor, id |-> job[p].id, tracked |-> tracked]]
    BY <2>1 DEF WriteState
  <2>4. [vendor |-> job[p].vendor, id |-> job[p].id, tracked |-> tracked] \in State
    BY <2>2 DEF State
  <2> QED BY <2>3, <2>4, NoFileAssumption DEF ArtifactInv, FilesTyped
<1>3. ASSUME NEW p \in Proc, DeleteStep(p)
      PROVE  RemoveArtifact(p) /\ job[p].at = "state" /\ job[p].server = s
  <2>1. ~DeleteRemote(p)
    <3>1. SUFFICES ASSUME DeleteRemote(p) PROVE state'[s] # NoFile
      OBVIOUS
    <3>2. state[s] \in State
      BY DEF ArtifactInv, FilesTyped, StateFile
    <3>3. PICK y : y = [state[s] EXCEPT !.tracked = FALSE]
      OBVIOUS
    <3>4. y \in State
      BY <3>2, <3>3 DEF State
    <3>5. state'[s] \in {state[s], y}
      BY <3>1, <3>3 DEF DeleteRemote, ArtifactInv, FilesTyped
    <3> QED BY <3>4, <3>5, NoFileAssumption
  <2>2. RemoveArtifact(p)
    BY <1>3, <2>1, DeleteWrites
  <2> QED BY <2>2 DEF RemoveArtifact, ArtifactInv, FilesTyped
<1>4. ASSUME NEW p \in Proc, NamespaceStep(p) PROVE FALSE
  <2>1. RemoveStateTree(p)
    BY <1>4, NamespaceWrites
  <2>2. Right(p) /\ job[p] \in DeleteJob /\ job[p].server = NoFile
    BY <2>1, AtNamespace DEF RemoveStateTree, OnNamespace
  <2>3. /\ job[p].todo = {} /\ \A t \in Server \ DOMAIN job[p].approved : ~HasFiles(t)
        /\ \A t \in DOMAIN job[p].approved : state[t] = NoFile \/ t = NoFile
    BY <2>1, <2>2 DEF Right, NamespaceRight, RemoveStateTree, Stands
  <2> QED BY <2>3, NoFileAssumption DEF HasFiles
<1>5. ASSUME Operator PROVE LoseState(s)
  BY <1>5 DEF Operator, EditConfig, LoseState, ArtifactInv, FilesTyped
<1>6. ASSUME NEW p \in Proc, LockWorkflow(p) \/ StoreSecret(p) \/ Stop(p) PROVE FALSE
  BY <1>6, OthersWrite
<1> QED BY <1>1, <1>2, <1>3, <1>4, <1>5, <1>6 DEF Next

LEMMA LossesCounted == Spec => [](losses \in Nat)
<1>1. Init => losses \in Nat
  BY DEF Init
<1>2. losses \in Nat /\ [Next]_vars => (losses \in Nat)'
  <2>1. SUFFICES ASSUME losses \in Nat, Next, losses' # losses PROVE losses' \in Nat
    BY DEF vars, bounds
  <2>2. Operator
    BY <2>1, CreateWrites, ImportWrites, DeleteWrites, NamespaceWrites, OthersWrite DEF Next
  <2> QED BY <2>1, <2>2 DEF Operator, EditConfig, LoseState
<1> QED BY <1>1, <1>2, PTL DEF Spec

(* No command removes the state file of a server that still exists: what    *)
(* executeServerDeleteLocal removes, executeServerDeleteRemote was for.     *)
THEOREM StatesOutliveServers == Spec => StateOutlivesServer
<1> DEFINE A == losses' = losses =>
                  \A s \in Server : state[s] # NoFile /\ state'[s] = NoFile =>
                    \A l \in live : l[1] = state[s].id => l[2] # s
<1>1. ArtifactInv /\ losses \in Nat /\ [Next]_vars => [A]_vars
  <2>1. SUFFICES ASSUME ArtifactInv, losses \in Nat, Next, losses' = losses,
                        NEW s \in Server, state[s] # NoFile, state'[s] = NoFile,
                        NEW l \in live, l[1] = state[s].id
                 PROVE  l[2] # s
    OBVIOUS
  <2>2. ~LoseState(s)
    BY <2>1 DEF LoseState
  <2>3. PICK p \in Proc : RemoveArtifact(p) /\ job[p].at = "state" /\ job[p].server = s
    BY <2>1, <2>2, StateRemoved
  <2>4. Right(p) /\ job[p] \in DeleteJob /\ s # NoFile
    BY <2>1, <2>3, AtDelete, NoFileAssumption DEF RemoveArtifact
  <2> QED BY <2>1, <2>3, <2>4 DEF Right, DeleteRight
<1>2. Spec => [][A]_vars
  BY <1>1, ArtifactInvariant, LossesCounted, PTL DEF Spec
<1> QED BY <1>2 DEF StateOutlivesServer

(* While a namespace delete is alone, nothing appears for a server that had *)
(* nothing: every command that writes has an entry, a state or the lock.    *)
LEMMA NothingAppears ==
  ASSUME ArtifactInv, Next, NEW p \in Proc, Deleting(p), NEW s \in Server, ~HasFiles(s),
         s \notin entries
  PROVE  ~HasFiles(s)'
<1>1. config[s] = NoFile /\ creds[s] = NoFile /\ state[s] = NoFile /\ marker[s] = NoFile
  BY DEF HasFiles
<1>2. \A q \in Proc : ~Working(q)
  BY DeletesAlone DEF Working, Deleting, CreateJob, ImportJob, DeleteJob
<1>3. ASSUME NEW q \in Proc, CreateStep(q) PROVE ~HasFiles(s)'
  <2>1. ~PublishConfig(q) /\ ~CheckProvider(q) /\ ~MergeCredentials(q) /\ ~Order(q)
    BY <1>2, AtCreate DEF PublishConfig, CheckProvider, MergeCredentials, Order
  <2> QED BY <1>1, <1>3, <2>1, CreateWrites DEF HasFiles
<1>4. ASSUME NEW q \in Proc, ImportStep(q) PROVE ~HasFiles(s)'
  <2>1. /\ ~WriteMarker(q) /\ ~RemoveMarker(q) /\ ~WriteConfig(q) /\ ~WriteCredentials(q)
        /\ ~WriteState(q)
    BY <1>2, AtImport DEF WriteMarker, RemoveMarker, WriteConfig, WriteCredentials, WriteState
  <2> QED BY <1>1, <1>4, <2>1, ImportWrites DEF HasFiles
<1>5. ASSUME NEW q \in Proc, DeleteStep(q) PROVE ~HasFiles(s)'
  <2>1. CASE RemoveArtifact(q)
    BY <1>1, <2>1 DEF RemoveArtifact, HasFiles, ArtifactInv, FilesTyped
  <2>2. CASE ~RemoveArtifact(q)
    <3>1. UNCHANGED <<config, marker>>
      BY <1>5, <2>2, DeleteWrites
    <3>2. creds'[s] = creds[s]
      <4>1. CASE ApproveDelete(q)
        <5>1. PICK t \in Server : Approve(q, t, "lock", Deletion("delete"))
          BY <4>1 DEF ApproveDelete
        <5>2. t # s /\ t \in entries
          BY <5>1 DEF Approve
        <5>3. creds' = creds \/ \E d : creds' = [creds EXCEPT ![t] = d]
          BY <5>1 DEF Approve
        <5> QED BY <5>2, <5>3 DEF ArtifactInv, FilesTyped
      <4> QED BY <1>5, <2>2, <4>1, DeleteWrites
    <3>3. state'[s] = state[s]
      <4>1. CASE DeleteRemote(q)
        BY <1>1, <4>1 DEF DeleteRemote, ArtifactInv, FilesTyped
      <4> QED BY <1>5, <2>2, <4>1, DeleteWrites
    <3> QED BY <1>1, <3>1, <3>2, <3>3 DEF HasFiles
  <2> QED BY <2>1, <2>2
<1>6. ASSUME NEW q \in Proc, NamespaceStep(q) PROVE ~HasFiles(s)'
  <2>1. config'[s] = config[s]
    BY <1>1, <1>6, NamespaceWrites DEF RemoveConfigTree, NoneOf
  <2>2. creds'[s] = creds[s]
    <3>1. CASE DeleteNext(q)
      <4>1. PICK t \in job[q].todo : Approve(q, t, "server", [job[q] EXCEPT !.todo = @ \ {t}])
        BY <3>1 DEF DeleteNext
      <4>2. t # s /\ t \in entries
        BY <4>1 DEF Approve
      <4>3. creds' = creds \/ \E d : creds' = [creds EXCEPT ![t] = d]
        BY <4>1 DEF Approve
      <4> QED BY <4>2, <4>3 DEF ArtifactInv, FilesTyped
    <3> QED BY <1>1, <1>6, <3>1, NamespaceWrites DEF RemoveConfigTree, NoneOf
  <2>3. state'[s] = state[s] /\ marker'[s] = marker[s]
    BY <1>1, <1>6, NamespaceWrites DEF RemoveStateTree, NoneOf
  <2> QED BY <1>1, <2>1, <2>2, <2>3 DEF HasFiles
<1>7. ASSUME NEW q \in Proc, LockWorkflow(q) \/ StoreSecret(q) \/ Stop(q) PROVE ~HasFiles(s)'
  <2>1. creds'[s] = creds[s]
    BY <1>1, <1>7, OthersWrite DEF StoreSecret, ArtifactInv, FilesTyped
  <2> QED BY <1>1, <1>7, <2>1, OthersWrite DEF HasFiles
<1>8. CASE Operator
  BY <1>1, <1>8 DEF Operator, EditConfig, LoseState, HasFiles, ArtifactInv, FilesTyped
<1> QED BY <1>3, <1>4, <1>5, <1>6, <1>7, <1>8 DEF Next

(* removeNamespaceLocalState takes whole trees away, and nothing is in them *)
(* that the operator was not asked about                                    *)
(* (revalidateNamespaceDeleteAuthority under the lock).                     *)
THEOREM DeletesWhatItApproved == Spec => DeletesApprovedOnly
<1> DEFINE A == \A p \in Proc : job[p].kind = "nsdelete" /\ job[p].at \in {"configs", "states"} =>
                  \A s \in Server \ DOMAIN job[p].approved :
                    UNCHANGED <<config[s], creds[s], state[s], marker[s]>>
<1>1. ArtifactInv /\ [Next]_vars => [A]_vars
  <2>1. SUFFICES ASSUME ArtifactInv, Next, NEW p \in Proc, job[p].kind = "nsdelete",
                        job[p].at \in {"configs", "states"}, NEW s \in Server \ DOMAIN job[p].approved
                 PROVE  UNCHANGED <<config[s], creds[s], state[s], marker[s]>>
    BY DEF vars
  <2>2. Deleting(p) /\ Right(p) /\ job[p] \in DeleteJob
    BY <2>1, AtDelete
  <2>3. ~HasFiles(s) /\ s \notin entries
    BY <2>1, <2>2 DEF Right, NamespaceRight
  <2>4. ~HasFiles(s)'
    BY <2>1, <2>2, <2>3, NothingAppears
  <2> QED BY <2>3, <2>4 DEF HasFiles
<1>2. Spec => [][A]_vars
  BY <1>1, ArtifactInvariant, PTL DEF Spec
<1> QED BY <1>2 DEF DeletesApprovedOnly

(* An operator's edit of a config outlives every command that does not      *)
(* delete the server: SaveIfUnchanged writes over the very bytes that were  *)
(* read, and an import without a baseline only where there is no state.     *)
THEOREM EditsAreKept == Spec => EditsKept
<1> DEFINE A == \A s \in Server :
                  state[s] # NoFile /\ config[s] # NoFile /\ config'[s] # NoFile =>
                    config[s] \subseteq config'[s]
<1>1. ArtifactInv /\ [Next]_vars => [A]_vars
  <2>1. SUFFICES ASSUME ArtifactInv, Next, NEW s \in Server, state[s] # NoFile, config[s] # NoFile,
                        config'[s] # NoFile
                 PROVE  config[s] \subseteq config'[s]
    BY DEF vars
  <2>2. config \in [Server -> ConfigFile]
    BY <2>1 DEF ArtifactInv, FilesTyped
  <2>3. ASSUME NEW p \in Proc, CreateStep(p) PROVE config[s] \subseteq config'[s]
    <3>1. CASE PublishConfig(p)
      <4>1. CASE Fail(p)
        BY <4>1 DEF Fail, files
      <4>2. CASE SaveConfig(job[p].server, job[p].config, AsSaved(job[p].config))
        BY <2>1, <2>2, <4>2 DEF SaveConfig, AsSaved
      <4> QED BY <3>1, <4>1, <4>2 DEF PublishConfig
    <3> QED BY <2>3, <3>1, CreateWrites
  <2>4. ASSUME NEW p \in Proc, ImportStep(p) PROVE config[s] \subseteq config'[s]
    <3>1. CASE WriteConfig(p)
      <4>1. CASE Fail(p)
        BY <4>1 DEF Fail, files
      <4>2. CASE SaveConfig(job[p].server, IF job[p].base THEN job[p].config ELSE config[job[p].server],
                            AsSaved(job[p].config))
        <5>1. Right(p) /\ job[p] \in ImportJob /\ job[p].at = "config"
          BY <2>1, <3>1, AtImport DEF WriteConfig
        <5>2. job[p].server = s => job[p].base
          BY <2>1, <5>1 DEF Right, ImportRight
        <5> QED BY <2>1, <2>2, <4>2, <5>2 DEF SaveConfig, AsSaved
      <4> QED BY <3>1, <4>1, <4>2 DEF WriteConfig
    <3> QED BY <2>4, <3>1, ImportWrites
  <2>5. ASSUME NEW p \in Proc, DeleteStep(p) PROVE config[s] \subseteq config'[s]
    BY <2>1, <2>2, <2>5, DeleteWrites DEF RemoveArtifact
  <2>6. ASSUME NEW p \in Proc, NamespaceStep(p) PROVE config[s] \subseteq config'[s]
    BY <2>1, <2>6, NamespaceWrites DEF RemoveConfigTree, NoneOf
  <2>7. ASSUME NEW p \in Proc, LockWorkflow(p) \/ StoreSecret(p) \/ Stop(p)
        PROVE  config[s] \subseteq config'[s]
    BY <2>7, OthersWrite
  <2>8. ASSUME Operator PROVE config[s] \subseteq config'[s]
    BY <2>2, <2>8 DEF Operator, EditConfig, LoseState
  <2> QED BY <2>1, <2>3, <2>4, <2>5, <2>6, <2>7, <2>8 DEF Next
<1>2. Spec => [][A]_vars
  BY <1>1, ArtifactInvariant, PTL DEF Spec
<1> QED BY <1>2 DEF EditsKept

LEMMA ApproveKeepsSecret ==
  ASSUME ArtifactInv, NEW p \in Proc, NEW t \in Server, NEW step, NEW memory,
         Approve(p, t, step, memory), NEW s \in Server, creds[s] # NoFile
  PROVE  creds'[s].secret >= creds[s].secret
<1>1. creds[s] \in Creds /\ creds[s].secret \in Nat
  BY BoundsAssumption DEF ArtifactInv, FilesTyped, Creds
<1>2. ASSUME NEW name \in {NoVendor, state[t].vendor},
             creds' = [creds EXCEPT ![t] = Fill(Stored(t), Typed(state[t].vendor, name))]
      PROVE  creds'[s].secret >= creds[s].secret
  <2>1. CASE s # t
    BY <1>1, <1>2, <2>1 DEF ArtifactInv, FilesTyped
  <2>2. CASE s = t
    <3>1. Stored(s) = creds[s]
      BY DEF Stored
    <3>2. creds'[s] = Fill(creds[s], Typed(state[t].vendor, name))
      BY <1>2, <2>2, <3>1 DEF ArtifactInv, FilesTyped
    <3>3. creds'[s].secret = IF creds[s].secret = 0 THEN 1 ELSE creds[s].secret
      BY <3>2 DEF Fill, Typed
    <3> QED BY <1>1, <3>3
  <2> QED BY <2>1, <2>2
<1>3. ASSUME creds' = creds PROVE creds'[s].secret >= creds[s].secret
  BY <1>1, <1>3
<1> QED BY <1>2, <1>3 DEF Approve

(* Credentials are merged into what is stored by then (credentials.Update,  *)
(* mergeCredentials), so that only an import rolls a secret back.           *)
THEOREM SecretsAreKept == Spec => SecretsKept
<1> DEFINE A == \A s \in Server :
                  creds[s] # NoFile /\ creds'[s] # NoFile /\ creds'[s].secret < creds[s].secret =>
                    \E p \in Proc : Imports(s, p)
<1>1. ArtifactInv /\ [Next]_vars => [A]_vars
  <2>1. SUFFICES ASSUME ArtifactInv, Next, NEW s \in Server, creds[s] # NoFile, creds'[s] # NoFile
                 PROVE  creds'[s].secret >= creds[s].secret \/ \E p \in Proc : Imports(s, p)
    <3>1. ArtifactInv /\ [Next]_vars => ArtifactInv'
      BY ArtifactStep
    <3>2. ASSUME ArtifactInv, ArtifactInv', NEW s \in Server, creds[s] # NoFile, creds'[s] # NoFile
          PROVE  creds[s].secret \in Nat /\ creds'[s].secret \in Nat
      BY <3>2, BoundsAssumption DEF ArtifactInv, FilesTyped, Creds
    <3> QED BY <3>1, <3>2 DEF vars
  <2>2. /\ creds[s] \in Creds /\ creds[s].secret \in Nat /\ Stored(s) = creds[s]
        /\ creds \in [Server -> {NoFile} \union Creds]
    BY <2>1, BoundsAssumption DEF ArtifactInv, FilesTyped, Creds, Stored
  <2>3. ASSUME NEW p \in Proc, CreateStep(p) PROVE creds'[s].secret >= creds[s].secret
    <3>1. CASE CheckProvider(p)
      <4>1. CASE Fail(p)
        BY <2>2, <4>1 DEF Fail, files
      <4>2. CASE ~Fail(p)
        <5>1. creds' = creds \/ creds' = [creds EXCEPT ![job[p].server].name = job[p].vendor]
          BY <3>1, <4>2 DEF CheckProvider
        <5>2. PICK c : c = [creds[s] EXCEPT !.name = job[p].vendor]
          OBVIOUS
        <5>3. c.secret = creds[s].secret
          BY <2>2, <5>2 DEF Creds
        <5>4. creds'[s] \in {creds[s], c}
          BY <2>2, <5>1, <5>2
        <5> QED BY <2>2, <5>3, <5>4
      <4> QED BY <4>1, <4>2
    <3>2. CASE MergeCredentials(p)
      <4>1. job[p].creds \in Creds /\ job[p].server \in Server
        BY <2>1, <3>2, AtCreate DEF MergeCredentials
      <4>2. CASE job[p].server = s
        <5>1. creds'[s] = Fill(creds[s], job[p].creds)
          BY <2>2, <3>2, <4>2 DEF MergeCredentials
        <5>2. job[p].creds.secret \in Nat
          BY <4>1, BoundsAssumption DEF Creds
        <5> QED BY <2>2, <4>1, <5>1, <5>2, FillShape
      <4>3. CASE job[p].server # s
        BY <2>2, <3>2, <4>3 DEF MergeCredentials
      <4> QED BY <4>2, <4>3
    <3> QED BY <2>2, <2>3, <3>1, <3>2, CreateWrites
  <2>4. ASSUME NEW p \in Proc, ImportStep(p)
        PROVE  creds'[s].secret >= creds[s].secret \/ Imports(s, p)
    <3>1. CASE WriteCredentials(p)
      <4>1. job'[p].at = "state" /\ Stands(p, {"import"}, "creds")
        <5>1. job[p] \in ImportJob
          BY <2>1, <3>1, AtImport DEF WriteCredentials
        <5> QED BY <2>1, <3>1, <5>1, ImportGoes DEF WriteCredentials, ArtifactInv, ImportSteps
      <4>2. CASE job[p].server = s
        BY <4>1, <4>2 DEF Imports
      <4>3. CASE job[p].server # s
        BY <2>2, <3>1, <4>3 DEF WriteCredentials
      <4> QED BY <4>2, <4>3
    <3> QED BY <2>2, <2>4, <3>1, ImportWrites
  <2>5. ASSUME NEW p \in Proc, DeleteStep(p) PROVE creds'[s].secret >= creds[s].secret
    <3>1. CASE ApproveDelete(p)
      <4>1. PICK t \in Server : Approve(p, t, "lock", Deletion("delete"))
        BY <3>1 DEF ApproveDelete
      <4> QED BY <2>1, <4>1, ApproveKeepsSecret
    <3>2. CASE RemoveArtifact(p)
      BY <2>1, <2>2, <3>2 DEF RemoveArtifact
    <3> QED BY <2>2, <2>5, <3>1, <3>2, DeleteWrites
  <2>6. ASSUME NEW p \in Proc, NamespaceStep(p) PROVE creds'[s].secret >= creds[s].secret
    <3>1. CASE DeleteNext(p)
      <4>1. PICK t \in job[p].todo : Approve(p, t, "server", [job[p] EXCEPT !.todo = @ \ {t}])
        BY <3>1 DEF DeleteNext
      <4>2. t \in Server
        BY <2>1, <4>1 DEF Approve, ArtifactInv, FilesTyped
      <4> QED BY <2>1, <4>1, <4>2, ApproveKeepsSecret
    <3> QED BY <2>1, <2>2, <2>6, <3>1, NamespaceWrites DEF RemoveConfigTree, NoneOf
  <2>7. ASSUME NEW p \in Proc, LockWorkflow(p) \/ StoreSecret(p) \/ Stop(p)
        PROVE  creds'[s].secret >= creds[s].secret
    <3>1. CASE StoreSecret(p)
      <4>1. PICK t \in Server : creds' = [creds EXCEPT ![t] = [Stored(t) EXCEPT !.secret = @ + 1]]
        BY <3>1 DEF StoreSecret
      <4>2. PICK c : c = [creds[s] EXCEPT !.secret = @ + 1]
        OBVIOUS
      <4>3. c.secret = creds[s].secret + 1
        BY <2>2, <4>2 DEF Creds
      <4>4. creds'[s] \in {creds[s], c}
        BY <2>2, <4>1, <4>2
      <4> QED BY <2>2, <4>3, <4>4
    <3> QED BY <2>2, <2>7, <3>1, OthersWrite
  <2>8. ASSUME Operator PROVE creds'[s].secret >= creds[s].secret
    BY <2>2, <2>8 DEF Operator, EditConfig, LoseState
  <2> QED BY <2>1, <2>3, <2>4, <2>5, <2>6, <2>7, <2>8 DEF Next
<1>2. Spec => [][A]_vars
  BY <1>1, ArtifactInvariant, PTL DEF Spec
<1> QED BY <1>2 DEF SecretsKept
=============================================================================
