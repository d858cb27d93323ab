---------------------------- MODULE LocalArtifacts ----------------------------
(***************************************************************************)
(* The files that make serverpro the authority over the servers of one     *)
(* namespace, and the commands that write and remove them: server create   *)
(* (its publication), server import, server delete (its local part),       *)
(* namespace create and namespace delete, and the commands of an existing  *)
(* server that store a credential.                                         *)
(*                                                                         *)
(* A server has a config, a credentials file, a state file, perhaps the    *)
(* marker of an unfinished import, and an entry in the registry.  No write *)
(* spans two of them; a command may fail, be interrupted or die between    *)
(* any two steps (Stop), and an operator edits or loses files meanwhile.   *)
(*                                                                         *)
(* Abstracted: the lock files (module LocalLocks: here only who holds      *)
(* what); the external resources and the order of a remote deletion        *)
(* (module ServerLifecycle: here one step); a config is the set of edits   *)
(* that an operator made to it; all secrets other than the provider's      *)
(* token are one version number; custom paths.                             *)
(***************************************************************************)
EXTENDS Naturals, FiniteSets

CONSTANTS Proc, NoProc,
          Server,
          Vendor, NoVendor,
          NoFile,
          Ids,       \* compute servers ever ordered: 1 .. Ids
          Edits,     \* edits of a config by an operator, at most
          Secrets,   \* versions of the other secrets: 0 (none) .. Secrets
          Acts,      \* commands started, edits and losses, all together
          Kinds,     \* the kinds of command that are started
          Stops,     \* commands that stop before their end
          Losses     \* state files that an operator loses, at most

ASSUME NoneAssumption == NoProc \notin Proc /\ NoVendor \notin Vendor
ASSUME ServerAssumption == IsFiniteSet(Server)
ASSUME BoundsAssumption ==
    Ids \in Nat /\ Edits \in Nat /\ Secrets \in Nat \ {0} /\ Acts \in Nat
        /\ Stops \in Nat /\ Losses \in Nat
ASSUME KindsAssumption ==
    Kinds \subseteq {"create", "import", "store", "delete", "nsdelete", "nscreate"}

Id == 1 .. Ids
State == [vendor : Vendor, id : Id, tracked : BOOLEAN]
Creds == [token : Vendor \union {NoVendor},   \* the vendor it was issued by
          name : Vendor \union {NoVendor},    \* server_provider_name
          secret : 0 .. Secrets]
NoCreds == [token |-> NoVendor, name |-> NoVendor, secret |-> 0]

ASSUME NoFileAssumption ==
    /\ NoFile \notin Server /\ NoFile \notin Id /\ NoFile \notin State /\ NoFile \notin Creds
    /\ \A content \in SUBSET (1 .. Edits) : content # NoFile

VARIABLES config,    \* config[s]: the edits its file contains
          creds,     \* creds[s]: the credentials file
          state,     \* state[s]: the state file; tracked: it records
                     \* external resources (serverDeleteCleanupRequired)
          marker,    \* marker[s]: the compute id of the import under way
          entries,   \* servers with a registry entry
          listed,    \* the registry knows the namespace
          live,      \* compute servers that exist: <<id, server, vendor>>
          made,
          shared, excl,  \* holders of the namespace lock
          lock,      \* lock[s]: who holds the server lock
          cleaning,  \* who holds the local artifact guard exclusively
          job,       \* job[p]: the command of p, its step and its memory
          starts, stops, losses, edits

files == <<config, creds, state, marker>>
registry == <<entries, listed>>
cloud == <<live, made>>
locks == <<shared, excl, lock, cleaning>>
bounds == <<starts, stops, losses, edits>>
vars == <<files, registry, cloud, locks, job, bounds>>

Idle == [kind |-> "idle", at |-> "idle"]
Busy(p) == job[p] # Idle
NoneOf == [s \in Server |-> NoFile]

(* In the beginning the namespace is empty or has complete servers.  A      *)
(* credentials file may record no provider, as in older releases, or lack   *)
(* the token, which the recovery of a mismatch asks an operator to remove.  *)
Init ==
    /\ \E have \in SUBSET Server, v \in Vendor :
         \E id \in [have -> 1 .. Cardinality(have)],
            token \in {v, NoVendor}, name \in {v, NoVendor} :
           /\ token = NoVendor => name = NoVendor
           /\ \A s, t \in have : s # t => id[s] # id[t]
           /\ Cardinality(have) <= Ids
           /\ config = [s \in Server |-> IF s \in have THEN {} ELSE NoFile]
           /\ creds = [s \in Server |-> IF s \in have
                        THEN [token |-> token, name |-> name, secret |-> 1] ELSE NoFile]
           /\ state = [s \in Server |-> IF s \in have
                        THEN [vendor |-> v, id |-> id[s], tracked |-> TRUE] ELSE NoFile]
           /\ entries = have
           /\ listed = (have # {})
           /\ live = {<<id[s], s, v>> : s \in have}
           /\ made = Cardinality(have)
    /\ marker = NoneOf
    /\ shared = {} /\ excl = NoProc /\ cleaning = NoProc
    /\ lock = [s \in Server |-> NoProc]
    /\ job = [p \in Proc |-> Idle]
    /\ starts = 0 /\ stops = 0 /\ losses = 0 /\ edits = 0
-----------------------------------------------------------------------------
(* Vocabulary *)

Stands(p, kinds, step) == job[p].kind \in kinds /\ job[p].at = step
Go(p, step) == job' = [job EXCEPT ![p].at = step]

More == starts + edits + losses < Acts

Begin(p, kind) ==
    /\ ~Busy(p)
    /\ kind \in Kinds
    /\ More
    /\ starts' = starts + 1
    /\ UNCHANGED <<stops, losses, edits>>

Start(p, command) == Begin(p, command.kind) /\ job' = [job EXCEPT ![p] = command]

(* The end of a command, good or bad: its deferred unlocks run. *)
Release(p) ==
    /\ job' = [job EXCEPT ![p] = Idle]
    /\ shared' = shared \ {p}
    /\ excl' = IF excl = p THEN NoProc ELSE excl
    /\ cleaning' = IF cleaning = p THEN NoProc ELSE cleaning
    /\ lock' = [s \in Server |-> IF lock[s] = p THEN NoProc ELSE lock[s]]

Fail(p) == Release(p) /\ UNCHANGED <<files, registry, cloud, bounds>>

(* credentials.LoadPartial *)
Stored(s) == IF creds[s] = NoFile THEN NoCreds ELSE creds[s]
Missing(c) == c.token = NoVendor \/ c.secret = 0

(* mergeCredentials fills the gaps of the stored set. *)
Fill(c, supplied) ==
    [token  |-> IF c.token = NoVendor THEN supplied.token ELSE c.token,
     name   |-> IF c.token = NoVendor THEN supplied.name ELSE c.name,
     secret |-> IF c.secret = 0 THEN supplied.secret ELSE c.secret]

(* What an operator types when asked: the token of the vendor in mind.     *)
Typed(vendor, name) == [token |-> vendor, name |-> name, secret |-> 1]

TokenMayBeFor(c, vendor) == c.name \in {NoVendor, vendor}

(* validateStoredTokenProvider *)
TokenIsFor(c, vendor) == c.token = NoVendor \/ c.name = vendor

(* serverProviderAccount: state is the authority, an unrecorded token passes. *)
Account(s) ==
    /\ Stored(s).token # NoVendor
    /\ Stored(s).name \in {NoVendor, state[s].vendor}

(* registeredNamespaceAuthority, validateNamespaceLocalAuthority *)
HasFiles(s) ==
    config[s] # NoFile \/ creds[s] # NoFile \/ state[s] # NoFile \/ marker[s] # NoFile
StateAuthority == \A s \in Server : state[s] # NoFile => s \in entries
LocalAuthority == \A s \in Server : HasFiles(s) => s \in entries

(* LockServerWorkflow *)
LockWorkflow(p) ==
    /\ Stands(p, {"create", "import"}, "lock")
    /\ excl = NoProc /\ lock[job[p].server] = NoProc
    /\ shared' = shared \union {p}
    /\ lock' = [lock EXCEPT ![job[p].server] = p]
    /\ Go(p, IF job[p].kind = "create" THEN "provider" ELSE "load")
    /\ UNCHANGED <<files, registry, cloud, excl, cleaning, bounds>>
-----------------------------------------------------------------------------
(* server create -p VENDOR *)

(* buildPreparedConfig: the source is read before the workflow is locked. *)
SnapshotConfig(p) ==
    /\ \E s \in Server, v \in Vendor :
        Start(p, [kind |-> "create", at |-> "lock", server |-> s, vendor |-> v,
                  config |-> config[s], creds |-> NoCreds])
    /\ UNCHANGED <<files, registry, cloud, locks>>

(* validateCreateProviderAgainstState *)
ProviderKnown(s, v) == state[s] # NoFile => state[s].vendor = v
NamesUnrecorded(s) ==
    state[s] # NoFile /\ Stored(s).token # NoVendor /\ Stored(s).name = NoVendor

CheckProvider(p) ==
    /\ Stands(p, {"create"}, "provider")
    /\ LET s == job[p].server
           v == job[p].vendor
       IN IF ProviderKnown(s, v) /\ (NamesUnrecorded(s) \/ TokenIsFor(Stored(s), v))
            THEN /\ creds' = IF NamesUnrecorded(s)
                               THEN [creds EXCEPT ![s].name = v] ELSE creds
                 /\ Go(p, "publish")
                 /\ UNCHANGED <<config, state, marker, registry, cloud, locks, bounds>>
            ELSE Fail(p)

SaveAnyway(s, source, content) == config' = [config EXCEPT ![s] = content]

(* SaveIfUnchanged *)
SaveConfig(s, source, content) ==
    /\ config[s] = source
    /\ config' = [config EXCEPT ![s] = content]

AsSaved(content) == IF content = NoFile THEN {} ELSE content

(* publishPreparedConfig *)
PublishConfig(p) ==
    /\ Stands(p, {"create"}, "publish")
    /\ \/ /\ SaveConfig(job[p].server, job[p].config, AsSaved(job[p].config))
          /\ Go(p, "ask")
          /\ UNCHANGED <<creds, state, marker, registry, cloud, locks, bounds>>
       \/ config[job[p].server] # job[p].config /\ Fail(p)

(* ensureCredentials: load, ask for what is missing ... *)
AskCredentials(p) ==
    /\ Stands(p, {"create"}, "ask")
    /\ LET c == Stored(job[p].server)
           v == job[p].vendor
       IN job' = [job EXCEPT ![p].creds = Fill(c, Typed(v, v)),
                             ![p].at = IF Missing(c) THEN "merge" ELSE "account"]
    /\ UNCHANGED <<files, registry, cloud, locks, bounds>>

SaveCredentials(p) ==
    /\ Stands(p, {"create"}, "merge")
    /\ creds' = [creds EXCEPT ![job[p].server] = job[p].creds]
    /\ Go(p, "account")
    /\ UNCHANGED <<config, state, marker, registry, cloud, locks, bounds>>

(* ... and merge it into what is stored by then. *)
MergeCredentials(p) ==
    /\ Stands(p, {"create"}, "merge")
    /\ LET s == job[p].server
       IN creds' = [creds EXCEPT ![s] = Fill(Stored(s), job[p].creds)]
    /\ Go(p, "account")
    /\ UNCHANGED <<config, state, marker, registry, cloud, locks, bounds>>

(* computeAccountForConfig, upsertRegistryEntry *)
Register(p) ==
    /\ Stands(p, {"create"}, "account")
    /\ IF TokenIsFor(job[p].creds, job[p].vendor)
         THEN /\ entries' = entries \union {job[p].server}
              /\ listed' = TRUE
              /\ Go(p, "order")
              /\ UNCHANGED <<files, cloud, locks, bounds>>
         ELSE Fail(p)

(* initializeProvisionState and the order of the server with its checkpoint. *)
Order(p) ==
    /\ Stands(p, {"create"}, "order")
    /\ LET s == job[p].server
           v == job[p].vendor
       IN IF state[s] # NoFile
            THEN UNCHANGED <<state, cloud>>
            ELSE /\ made < Ids
                 /\ made' = made + 1
                 /\ live' = live \union {<<made + 1, s, v>>}
                 /\ state' = [state EXCEPT ![s] =
                                [vendor |-> v, id |-> made + 1, tracked |-> TRUE]]
    /\ Release(p)
    /\ UNCHANGED <<config, creds, marker, registry, bounds>>
-----------------------------------------------------------------------------
(* server import *)

(* A candidate that discovery has found, by labels, with a token of its vendor. *)
Discover(p) ==
    /\ \E found \in live, force \in BOOLEAN :
        Start(p, [kind |-> "import", at |-> "lock", server |-> found[2],
                  vendor |-> found[3], id |-> found[1], force |-> force,
                  base |-> FALSE, config |-> NoFile, creds |-> NoCreds,
                  tracked |-> FALSE])
    /\ UNCHANGED <<files, registry, cloud, locks>>

Resumable(p) == marker[job[p].server] = job[p].id
ForeignMarker(p) == marker[job[p].server] \notin {NoFile, job[p].id}

(* executeImportAttempt: only where there is a state are the existing      *)
(* artifacts the baseline.                                                 *)
LoadBaseline(p) ==
    /\ Stands(p, {"import"}, "load")
    /\ LET s == job[p].server
           exists == state[s] # NoFile
       IN IF ForeignMarker(p) \/ (exists /\ ~job[p].force /\ ~Resumable(p))
            THEN Fail(p)
            ELSE /\ job' = [job EXCEPT
                      ![p].at = "marker",
                      ![p].base = exists,
                      ![p].config = IF exists THEN config[s] ELSE NoFile,
                      ![p].creds = IF exists /\ config[s] # NoFile
                                     THEN Stored(s) ELSE NoCreds,
                      ![p].tracked = exists /\ state[s].tracked]
                 /\ UNCHANGED <<files, registry, cloud, locks, bounds>>

SkipMarker(p) ==
    /\ Stands(p, {"import"}, "marker")
    /\ Go(p, "config")
    /\ UNCHANGED <<files, registry, cloud, locks, bounds>>

(* writeImportArtifacts after the enrichment and the tailnet policy lock *)
WriteMarker(p) ==
    /\ Stands(p, {"import"}, "marker")
    /\ IF ForeignMarker(p)
         THEN Fail(p)
         ELSE /\ marker' = [marker EXCEPT ![job[p].server] = job[p].id]
              /\ Go(p, "config")
              /\ UNCHANGED <<config, creds, state, registry, cloud, locks, bounds>>

WriteConfig(p) ==
    /\ Stands(p, {"import"}, "config")
    /\ LET s == job[p].server
       IN \/ /\ SaveConfig(s, IF job[p].base THEN job[p].config ELSE config[s],
                           AsSaved(job[p].config))
             /\ Go(p, "creds")
             /\ UNCHANGED <<creds, state, marker, registry, cloud, locks, bounds>>
          \/ /\ job[p].base /\ config[s] # job[p].config
             /\ Fail(p)

WriteCredentials(p) ==
    /\ Stands(p, {"import"}, "creds")
    /\ creds' = [creds EXCEPT ![job[p].server] =
                  [job[p].creds EXCEPT !.token = job[p].vendor, !.name = job[p].vendor]]
    /\ Go(p, "state")
    /\ UNCHANGED <<config, state, marker, registry, cloud, locks, bounds>>

WriteState(p) ==
    /\ Stands(p, {"import"}, "state")
    /\ \E enriched \in BOOLEAN :
        state' = [state EXCEPT ![job[p].server] =
                    [vendor |-> job[p].vendor, id |-> job[p].id,
                     tracked |-> job[p].tracked \/ enriched]]
    /\ Go(p, "registry")
    /\ UNCHANGED <<config, creds, marker, registry, cloud, locks, bounds>>

WriteRegistry(p) ==
    /\ Stands(p, {"import"}, "registry")
    /\ entries' = entries \union {job[p].server}
    /\ listed' = TRUE
    /\ Go(p, "finish")
    /\ UNCHANGED <<files, cloud, locks, bounds>>

RemoveMarker(p) ==
    /\ Stands(p, {"import"}, "finish")
    /\ marker' = [marker EXCEPT ![job[p].server] = NoFile]
    /\ Release(p)
    /\ UNCHANGED <<config, creds, state, registry, cloud, bounds>>
-----------------------------------------------------------------------------
(* storeSudoPassword, saveGitHubPAT, mergeCredentials of a command that    *)
(* works on an existing server: credentials.Update under the namespace     *)
(* lock, shared.                                                           *)
StoreSecret(p) ==
    /\ \E s \in Server :
        /\ Begin(p, "store")
        /\ excl = NoProc
        /\ state[s] # NoFile /\ config[s] # NoFile
        /\ Stored(s).secret < Secrets
        /\ creds' = [creds EXCEPT ![s] = [Stored(s) EXCEPT !.secret = @ + 1]]
    /\ UNCHANGED <<config, state, marker, registry, cloud, locks, job>>
-----------------------------------------------------------------------------
(* server delete, also as one step of namespace delete *)

(* approveServerDelete; prepareServerDeleteCleanup needs the config and     *)
(* complete credentials where external resources are tracked, and asks.     *)
Approve(p, s, step, memory) ==
    /\ s \in entries /\ state[s] # NoFile
    /\ IF state[s].tracked
         THEN /\ config[s] # NoFile
              /\ IF Missing(Stored(s))
                   THEN /\ cleaning \in {NoProc, p}
                        /\ \E name \in {NoVendor, state[s].vendor} :
                             creds' = [creds EXCEPT ![s] =
                                         Fill(Stored(s), Typed(state[s].vendor, name))]
                   ELSE UNCHANGED creds
         ELSE UNCHANGED creds
    /\ creds'[s] # NoFile /\ creds'[s].token # NoVendor
    /\ creds'[s].name \in {NoVendor, state[s].vendor}
    /\ job' = [job EXCEPT ![p] = [memory EXCEPT
                 !.at = step, !.server = s, !.state = state[s],
                 !.config = IF state[s].tracked THEN config[s] ELSE NoFile,
                 !.creds = IF state[s].tracked THEN creds'[s] ELSE NoCreds]]

Deletion(kind) ==
    [kind |-> kind, at |-> "lock", server |-> NoFile, state |-> NoFile,
     config |-> NoFile, creds |-> NoCreds, approved |-> [s \in {} |-> NoFile], todo |-> {}]

ApproveDelete(p) ==
    /\ Begin(p, "delete")
    /\ \E s \in Server : Approve(p, s, "lock", Deletion("delete"))
    /\ UNCHANGED <<config, state, marker, registry, cloud, locks>>

LockNamespaceShared(p) ==
    /\ Stands(p, {"delete", "nsdelete"}, "lock")
    /\ excl = NoProc
    /\ excl' = p
    /\ Go(p, IF job[p].kind = "delete" THEN "server" ELSE "again")
    /\ UNCHANGED <<files, registry, cloud, shared, lock, cleaning, bounds>>

(* LockNamespaceOperationExclusive *)
LockNamespace(p) ==
    /\ Stands(p, {"delete", "nsdelete"}, "lock")
    /\ shared = {} /\ excl = NoProc
    /\ excl' = p
    /\ Go(p, IF job[p].kind = "delete" THEN "server" ELSE "again")
    /\ UNCHANGED <<files, registry, cloud, shared, lock, cleaning, bounds>>

(* revalidateServerDelete under the server lock *)
Unchanged(p) ==
    LET s == job[p].server
    IN /\ state[s] = job[p].state /\ s \in entries
       /\ state[s].tracked => config[s] = job[p].config /\ creds[s] = job[p].creds
       /\ Account(s)

Revalidate(p) ==
    /\ Stands(p, {"delete", "nsdelete"}, "server")
    /\ lock[job[p].server] = NoProc
    /\ IF Unchanged(p)
         THEN /\ lock' = [lock EXCEPT ![job[p].server] = p]
              /\ Go(p, "remote")
              /\ UNCHANGED <<files, registry, cloud, shared, excl, cleaning, bounds>>
         ELSE Fail(p)

(* executeServerDeleteRemote with its last checkpoint; then unlockServer *)
DeleteRemote(p) ==
    /\ Stands(p, {"delete", "nsdelete"}, "remote")
    /\ LET s == job[p].server
       IN /\ live' = {l \in live : l[1] # job[p].state.id}
          /\ state' = IF state[s] # NoFile
                        THEN [state EXCEPT ![s].tracked = FALSE] ELSE state
          /\ lock' = [lock EXCEPT ![s] = NoProc]
    /\ Go(p, "guard")
    /\ UNCHANGED <<config, creds, marker, registry, made, shared, excl, cleaning, bounds>>

(* LockLocalArtifactCleanup *)
LockCleanup(p) ==
    /\ Stands(p, {"delete", "nsdelete"}, "guard")
    /\ cleaning = NoProc
    /\ cleaning' = p
    /\ Go(p, IF job[p].server = NoFile THEN "configs" ELSE "config")
    /\ UNCHANGED <<files, registry, cloud, shared, excl, lock, bounds>>

(* removeCanonicalServerDeleteLocalArtifacts *)
After == [config |-> "marker", marker |-> "state", state |-> "creds", creds |-> "registry"]
RemoveArtifact(p) ==
    /\ job[p].kind \in {"delete", "nsdelete"} /\ job[p].at \in DOMAIN After
    /\ LET gone(file, name) == IF job[p].at = name
                                 THEN [file EXCEPT ![job[p].server] = NoFile] ELSE file
       IN /\ config' = gone(config, "config") /\ marker' = gone(marker, "marker")
          /\ state' = gone(state, "state") /\ creds' = gone(creds, "creds")
    /\ Go(p, After[job[p].at])
    /\ UNCHANGED <<registry, cloud, locks, bounds>>

(* executeServerDeleteLocal: the registry entry is the last to go. *)
Unregister(p) ==
    /\ Stands(p, {"delete", "nsdelete"}, "registry")
    /\ entries' = entries \ {job[p].server}
    /\ IF job[p].kind = "delete" \/ job[p].server \notin entries
         THEN Release(p)
         ELSE /\ job' = [job EXCEPT ![p].at = "next", ![p].server = NoFile]
              /\ cleaning' = NoProc
              /\ UNCHANGED <<shared, excl, lock>>
    /\ UNCHANGED <<files, listed, cloud, bounds>>
-----------------------------------------------------------------------------
(* namespace delete *)

(* loadNamespaceDeleteAuthority, before the operator is asked *)
ApproveNamespace(p) ==
    /\ listed /\ LocalAuthority
    /\ Start(p, [Deletion("nsdelete") EXCEPT
                   !.approved = [s \in entries |-> state[s]],
                   !.todo = entries])
    /\ UNCHANGED <<files, registry, cloud, locks>>

TrustApproval(p) ==
    /\ Stands(p, {"nsdelete"}, "again")
    /\ Go(p, "next")
    /\ UNCHANGED <<files, registry, cloud, locks, bounds>>

(* revalidateNamespaceDeleteAuthority *)
RevalidateNamespace(p) ==
    /\ Stands(p, {"nsdelete"}, "again")
    /\ IF /\ listed /\ entries = job[p].todo
          /\ LocalAuthority
          /\ \A s \in job[p].todo : state[s] = job[p].approved[s]
         THEN Go(p, "next") /\ UNCHANGED <<files, registry, cloud, locks, bounds>>
         ELSE Fail(p)

(* executeNamespaceDelete: a server without a state loses its entry only. *)
RemoveStaleEntry(p) ==
    /\ Stands(p, {"nsdelete"}, "next")
    /\ \E s \in job[p].todo :
        /\ job[p].approved[s] = NoFile
        /\ entries' = entries \ {s}
        /\ job' = [job EXCEPT ![p].todo = @ \ {s}]
    /\ UNCHANGED <<files, listed, cloud, locks, bounds>>

(* deleteServerDestructiveInNamespace *)
DeleteNext(p) ==
    /\ Stands(p, {"nsdelete"}, "next")
    /\ \E s \in job[p].todo :
        /\ job[p].approved[s] # NoFile
        /\ state[s] = job[p].approved[s]
        /\ Approve(p, s, "server", [job[p] EXCEPT !.todo = @ \ {s}])
    /\ UNCHANGED <<config, state, marker, registry, cloud, locks, bounds>>

CleanUpNamespace(p) ==
    /\ Stands(p, {"nsdelete"}, "next")
    /\ job[p].todo = {}
    /\ Go(p, "guard")
    /\ UNCHANGED <<files, registry, cloud, locks, bounds>>

(* removeNamespaceLocalState: two trees *)
RemoveConfigTree(p) ==
    /\ Stands(p, {"nsdelete"}, "configs")
    /\ config' = NoneOf /\ creds' = NoneOf
    /\ Go(p, "states")
    /\ UNCHANGED <<state, marker, registry, cloud, locks, bounds>>

RemoveStateTree(p) ==
    /\ Stands(p, {"nsdelete"}, "states")
    /\ state' = NoneOf /\ marker' = NoneOf
    /\ Go(p, "unlist")
    /\ UNCHANGED <<config, creds, registry, cloud, locks, bounds>>

(* removeEmptyNamespaceRegistry *)
RemoveNamespace(p) ==
    /\ Stands(p, {"nsdelete"}, "unlist")
    /\ IF entries = {}
         THEN listed' = FALSE /\ Release(p) /\ UNCHANGED <<files, entries, cloud, bounds>>
         ELSE Fail(p)

(* runNamespaceCreate *)
CreateNamespace(p) ==
    /\ Begin(p, "nscreate")
    /\ shared = {} /\ excl = NoProc
    /\ listed' = TRUE
    /\ UNCHANGED <<files, entries, cloud, locks, job>>
-----------------------------------------------------------------------------
(* A refusal, an error of a call or of a write, a declined question, a      *)
(* timeout, a crash: nothing more happens and the locks are gone.           *)
Stop(p) ==
    /\ Busy(p)
    /\ stops < Stops
    /\ stops' = stops + 1
    /\ Release(p)
    /\ UNCHANGED <<files, registry, cloud, starts, losses, edits>>

(* An operator edits a config file, with no lock. *)
EditConfig(s) ==
    /\ config[s] # NoFile
    /\ edits < Edits /\ More
    /\ edits' = edits + 1
    /\ config' = [config EXCEPT ![s] = @ \union {edits + 1}]
    /\ UNCHANGED <<creds, state, marker, registry, cloud, locks, job, starts, stops, losses>>

(* A state file is lost with the tree it is in. *)
LoseState(s) ==
    /\ state[s] # NoFile
    /\ losses < Losses /\ More
    /\ losses' = losses + 1
    /\ state' = [state EXCEPT ![s] = NoFile]
    /\ UNCHANGED <<config, creds, marker, registry, cloud, locks, job, starts, stops, edits>>

CreateStep(p) ==
    \/ SnapshotConfig(p) \/ CheckProvider(p) \/ PublishConfig(p)
    \/ AskCredentials(p) \/ MergeCredentials(p) \/ Register(p) \/ Order(p)

ImportStep(p) ==
    \/ Discover(p) \/ LoadBaseline(p) \/ WriteMarker(p) \/ WriteConfig(p)
    \/ WriteCredentials(p) \/ WriteState(p) \/ WriteRegistry(p) \/ RemoveMarker(p)

DeleteStep(p) ==
    \/ ApproveDelete(p) \/ LockNamespace(p) \/ Revalidate(p) \/ DeleteRemote(p)
    \/ LockCleanup(p) \/ RemoveArtifact(p) \/ Unregister(p)

NamespaceStep(p) ==
    \/ ApproveNamespace(p) \/ RevalidateNamespace(p) \/ RemoveStaleEntry(p)
    \/ DeleteNext(p) \/ CleanUpNamespace(p) \/ RemoveConfigTree(p)
    \/ RemoveStateTree(p) \/ RemoveNamespace(p) \/ CreateNamespace(p)

Operator == \E s \in Server : EditConfig(s) \/ LoseState(s)

Next ==
    \/ \E p \in Proc :
         LockWorkflow(p) \/ CreateStep(p) \/ ImportStep(p) \/ StoreSecret(p)
           \/ DeleteStep(p) \/ NamespaceStep(p) \/ Stop(p)
    \/ Operator

Spec == Init /\ [][Next]_vars
-----------------------------------------------------------------------------
(* Properties *)

TypeOK ==
    /\ config \in [Server -> {NoFile} \union SUBSET (1 .. Edits)]
    /\ creds \in [Server -> {NoFile} \union Creds]
    /\ state \in [Server -> {NoFile} \union State]
    /\ marker \in [Server -> {NoFile} \union Id]
    /\ entries \subseteq Server /\ listed \in BOOLEAN
    /\ live \subseteq Id \X Server \X Vendor /\ made \in 0 .. Ids
    /\ shared \subseteq Proc /\ excl \in Proc \union {NoProc}
    /\ lock \in [Server -> Proc \union {NoProc}] /\ cleaning \in Proc \union {NoProc}
    /\ excl # NoProc => shared = {}
    /\ \A s \in Server : lock[s] # NoProc => lock[s] \in shared \union {excl}
    /\ \A p \in Proc : job[p].kind \in Kinds \union {"idle"}

(* A state file always has a registry entry or the marker of an import, so  *)
(* that a delete, or the rerun of the import, finds it: whatever died.      *)
StateIsRouted == \A s \in Server :
    state[s] # NoFile => s \in entries \/ marker[s] # NoFile

(* No command removes the state file of a server that still exists; only a  *)
(* remote deletion of the server it names lets it go.                       *)
StateOutlivesServer == [][
    losses' = losses =>
      \A s \in Server : state[s] # NoFile /\ state'[s] = NoFile =>
        \A l \in live : l[1] = state[s].id => l[2] # s
  ]_vars

(* What a namespace delete removes it had approved: the artifacts of a      *)
(* server that had no entry when the operator was asked, those of a partial *)
(* import among them, survive it.                                           *)
DeletesApprovedOnly == [][
    \A p \in Proc : job[p].kind = "nsdelete" /\ job[p].at \in {"configs", "states"} =>
      \A s \in Server \ DOMAIN job[p].approved :
        UNCHANGED <<config[s], creds[s], state[s], marker[s]>>
  ]_vars

(* While a server has a state file, no command drops an edit of its config: *)
(* create and import publish over the very bytes they read.                 *)
EditsKept == [][
    \A s \in Server :
      state[s] # NoFile /\ config[s] # NoFile /\ config'[s] # NoFile =>
        config[s] \subseteq config'[s]
  ]_vars

(* A secret that is stored is never rolled back by a command that read the  *)
(* file earlier.  An import is the exception: it saves what it read (see    *)
(* ImportKeepsSecrets).                                                     *)
Imports(s, p) == Stands(p, {"import"}, "creds") /\ job[p].server = s /\ job'[p].at = "state"
SecretsKept == [][
    \A s \in Server :
      creds[s] # NoFile /\ creds'[s] # NoFile /\ creds'[s].secret < creds[s].secret =>
        \E p \in Proc : Imports(s, p)
  ]_vars

(* The provider that a create or a delete calls with the stored token is    *)
(* the one that issued it, whatever -p says.                                *)
TokenGoesHome == \A p \in Proc :
    /\ Stands(p, {"create"}, "order") => job[p].creds.token = job[p].vendor
    /\ Stands(p, {"delete", "nsdelete"}, "remote") /\ state[job[p].server] # NoFile
         => Stored(job[p].server).token = state[job[p].server].vendor

(* USAGE.md: a forced import "preserves existing service tokens when        *)
(* replacements are omitted".                                               *)
ImportKeepsSecrets == [][
    \A p \in Proc, s \in Server :
      Imports(s, p) /\ job[p].force /\ creds[s] # NoFile =>
        creds'[s].secret >= creds[s].secret
  ]_vars

(* USAGE.md: "If any server deletion fails, the command stops and leaves    *)
(* the namespace and its remaining servers intact so the operation can be   *)
(* retried."  When a namespace delete stops in the deletion of a server,    *)
(* still holding its lock, the check a retry begins with must pass.         *)
NamespaceDeleteRetries == [][
    \A p \in Proc :
      Stands(p, {"nsdelete"}, "remote") /\ ~Busy(p)' => LocalAuthority
  ]_vars
=============================================================================
