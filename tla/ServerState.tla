----------------------------- MODULE ServerState -----------------------------
(***************************************************************************)
(* The state file of one server and the commands that write it             *)
(* (internal/state/state.go and its callers).                              *)
(*                                                                         *)
(* Every writer goes through state.Update, which loads, changes and        *)
(* replaces the file under its lock, or through state.Save, which replaces *)
(* it with what the caller has in memory.  A running create keeps a copy   *)
(* of the state for half an hour; add and remove of an ingress route, the  *)
(* refresh of the public addresses and ssh-policy write the same file      *)
(* meanwhile, each its own fields.                                         *)
(*                                                                         *)
(* The locks are those of module LocalLocks, here as the condition under   *)
(* which a command may begin: Update and Save are one step each because    *)
(* two commands never hold the lock of one artifact (ServerExclusion).     *)
(* Abstracted: all of the lifecycle checkpoints but two (the compute and   *)
(* the device), IPv4 and IPv6 as one address, the migration of old files.  *)
(***************************************************************************)
EXTENDS Naturals, FiniteSets

CONSTANTS Proc,
          Hostname,     \* ingress routes
          Address,      \* public addresses the provider may report
          Source,       \* automation sources a config may ask for
          Commands,     \* the kinds of command that run
          ImportsAlone, \* the operator runs nothing beside an import
          NoAddress, NoSource, Missing

Kind == {"create", "add", "remove", "refresh", "sshPolicy", "import", "delete"}

ASSUME CommandsAssumption == Commands \subseteq Kind
ASSUME ImportsAloneAssumption == ImportsAlone \in BOOLEAN
ASSUME NoAddressAssumption == NoAddress \notin Address
ASSUME NoSourceAssumption == NoSource \notin Source

State == [compute : BOOLEAN,                      \* Compute.ID recorded
          device  : BOOLEAN,                      \* Tailscale.NodeID recorded
          address : Address \union {NoAddress},   \* Compute.PublicIPv4/6
          source  : Source \union {NoSource},     \* PolicySSHAutomationSource
          ingress : SUBSET Hostname]

ASSUME MissingAssumption == Missing \notin State

VARIABLES file,     \* the state file, or Missing
          kind,     \* kind[p]: the command it runs
          step,     \* step[p]: how far it is
          copy,     \* copy[p]: the state it has in memory
          arg,      \* arg[p]: hostname, address or source it works with
          routes,   \* history: the routes whose add was reported a success
                    \* and whose removal was not
          granted   \* history: the automation source of the last write to
                    \* the tailnet policy for this server

vars == <<file, kind, step, copy, arg, routes, granted>>

Fresh == [compute |-> FALSE, device |-> FALSE, address |-> NoAddress,
          source |-> NoSource, ingress |-> {}]

Step == {"begin", "run", "publish"}

Init ==
    /\ file = Missing
    /\ kind = [p \in Proc |-> "idle"]
    /\ step = [p \in Proc |-> "begin"]
    /\ copy = [p \in Proc |-> Missing]
    /\ arg = [p \in Proc |-> NoSource]
    /\ routes = {}
    /\ granted = NoSource
-----------------------------------------------------------------------------
(* Locks, as conditions on the commands that run together *)

(* LockTailnetPolicy: create and ssh-policy hold it while they change the   *)
(* policy, import only while it publishes.                                  *)
HoldsPolicy(p) ==
    kind[p] \in {"create", "sshPolicy"} \/ step[p] = "publish"

PolicyFree == \A p \in Proc : ~HoldsPolicy(p)

Running(kinds) == \E p \in Proc : kind[p] \in kinds

(* LockServerWorkflow for create and import, the shared namespace lock for  *)
(* the others, the exclusive one for delete.                                *)
MayBeginBesideDelete(k) ==
    k \in {"create", "import", "sshPolicy"} => PolicyFree /\ ~Running({"create", "import"})
MayBegin(k) ==
    CASE k = "delete" -> ~Running(Kind)
      [] k \in {"create", "import"} ->
            ~Running({"create", "import", "delete"}) /\ (k = "create" => PolicyFree)
      [] k = "sshPolicy" -> ~Running({"delete"}) /\ PolicyFree
      [] OTHER -> ~Running({"delete"})

(* What the operator does not do, as opposed to what the locks prevent. *)
Avoids(k) ==
    /\ ImportsAlone
    /\ Running({"import"}) \/ (k = "import" /\ Running(Kind))

Begin(p, k, x) ==
    /\ kind[p] = "idle"
    /\ k \in Commands
    /\ MayBegin(k)
    /\ ~Avoids(k)
    /\ kind' = [kind EXCEPT ![p] = k]
    /\ step' = [step EXCEPT ![p] = "begin"]
    /\ arg' = [arg EXCEPT ![p] = x]

Leave(p) ==
    /\ kind' = [kind EXCEPT ![p] = "idle"]
    /\ step' = [step EXCEPT ![p] = "begin"]
    /\ copy' = [copy EXCEPT ![p] = Missing]
    /\ arg' = [arg EXCEPT ![p] = NoSource]

(* state.Update: the change is made to the file as it is under the lock.    *)
Update(change(_)) == file # Missing /\ file' = change(file)
-----------------------------------------------------------------------------
(* server create (lifecycle.Run) *)

(* initializeProvisionState; the config asks for this source. *)
BeginCreate(p, source) ==
    /\ Begin(p, "create", source)
    /\ file' = IF file = Missing THEN Fresh ELSE file
    /\ copy' = [copy EXCEPT ![p] = file']
    /\ UNCHANGED <<routes, granted>>

(* saveProvisionState: the candidate of the run, but the ingress of the     *)
(* file and, once the compute is recorded, its addresses.                   *)
CheckpointWholesale(current, candidate) == candidate
Checkpoint(current, candidate) ==
    [candidate EXCEPT
        !.ingress = current.ingress,
        !.address = IF current.compute THEN current.address ELSE @]

SaveProvision(p, candidate) ==
    /\ Update(LAMBDA current : Checkpoint(current, candidate))
    /\ copy' = [copy EXCEPT ![p] = candidate]
    /\ UNCHANGED <<kind, arg, routes>>

(* ensureTailscalePolicy with RecordTailscalePolicyChange *)
CreatePolicy(p) ==
    /\ kind[p] = "create" /\ step[p] = "begin"
    /\ SaveProvision(p, [copy[p] EXCEPT !.source = arg[p]])
    /\ step' = [step EXCEPT ![p] = "run"]
    /\ granted' = arg[p]

(* ensureComputeServer *)
CreateCompute(p) ==
    /\ kind[p] = "create" /\ step[p] = "run"
    /\ ~copy[p].compute
    /\ \E address \in Address :
        SaveProvision(p, [copy[p] EXCEPT !.compute = TRUE, !.address = address])
    /\ UNCHANGED <<step, granted>>

(* waitTailscaleDevice *)
CreateDevice(p) ==
    /\ kind[p] = "create" /\ step[p] = "run"
    /\ copy[p].compute
    /\ SaveProvision(p, [copy[p] EXCEPT !.device = TRUE])
    /\ UNCHANGED <<step, granted>>
-----------------------------------------------------------------------------
(* server ingress add and remove: the routes are read under the namespace   *)
(* lock, and once more inside Update.                                       *)

Read(p, k, x) ==
    /\ Begin(p, k, x)
    /\ file # Missing
    /\ copy' = [copy EXCEPT ![p] = file]
    /\ UNCHANGED <<file, routes, granted>>

BeginAdd(p, h) == Read(p, "add", h) /\ h \notin file.ingress

AddToCopy(p) ==
    /\ kind[p] = "add"
    /\ arg[p] \notin copy[p].ingress
    /\ Update(LAMBDA current : [current EXCEPT !.ingress = copy[p].ingress \union {arg[p]}])
    /\ routes' = routes \union {arg[p]}
    /\ Leave(p)
    /\ UNCHANGED granted
Add(p) ==
    /\ kind[p] = "add"
    /\ arg[p] \notin file.ingress
    /\ Update(LAMBDA current : [current EXCEPT !.ingress = @ \union {arg[p]}])
    /\ routes' = routes \union {arg[p]}
    /\ Leave(p)
    /\ UNCHANGED granted

(* The route appeared after the first check: the add is refused. *)
RefuseAdd(p) ==
    /\ kind[p] = "add"
    /\ arg[p] \in file.ingress
    /\ Leave(p)
    /\ UNCHANGED <<file, routes, granted>>

BeginRemove(p, h) == Read(p, "remove", h) /\ h \in file.ingress

Remove(p) ==
    /\ kind[p] = "remove"
    /\ Update(LAMBDA current : [current EXCEPT !.ingress = @ \ {arg[p]}])
    /\ routes' = routes \ {arg[p]}
    /\ Leave(p)
    /\ UNCHANGED granted
-----------------------------------------------------------------------------
(* refreshServerRow: provider.Status answers with an address before the     *)
(* update; nothing is written when it is the one already known.             *)

BeginRefresh(p, address) ==
    Read(p, "refresh", address) /\ file.compute /\ file.address # address

Refresh(p) ==
    /\ kind[p] = "refresh"
    /\ Update(LAMBDA current : [current EXCEPT !.address = arg[p]])
    /\ Leave(p)
    /\ UNCHANGED <<routes, granted>>
-----------------------------------------------------------------------------
(* applyServerSSHPolicy: a write to the tailnet and its record, under the   *)
(* policy lock.                                                             *)

BeginSSHPolicy(p, source) == Read(p, "sshPolicy", source)

RecordPolicy(p) ==
    /\ kind[p] = "sshPolicy"
    /\ Update(LAMBDA current : [current EXCEPT !.source = arg[p]])
    /\ granted' = arg[p]
    /\ Leave(p)
    /\ UNCHANGED routes
-----------------------------------------------------------------------------
(* server import --force, or the retry of an interrupted import: the        *)
(* baseline is loaded before discovery enriches it, and saved whole.        *)

BeginImport(p, address) ==
    /\ Begin(p, "import", address)
    /\ copy' = [copy EXCEPT ![p] = IF file = Missing THEN Fresh ELSE file]
    /\ UNCHANGED <<file, routes, granted>>

EnterPublish(p) ==
    /\ kind[p] = "import" /\ step[p] = "begin"
    /\ PolicyFree
    /\ step' = [step EXCEPT ![p] = "publish"]
    /\ UNCHANGED <<file, kind, copy, arg, routes, granted>>

(* writeImportArtifacts: state.Save *)
Publish(p) ==
    /\ kind[p] = "import" /\ step[p] = "publish"
    /\ file' = [copy[p] EXCEPT !.compute = TRUE, !.device = TRUE, !.address = arg[p]]
    /\ Leave(p)
    /\ UNCHANGED <<routes, granted>>
-----------------------------------------------------------------------------
(* server delete: the cleanup checkpoints, then the file goes *)

BeginDelete(p) == Read(p, "delete", NoSource)

(* checkpointCleanupState with clearTailscaleDeviceState *)
ClearDevice(p) ==
    /\ kind[p] = "delete"
    /\ file # Missing
    /\ file.device
    /\ Update(LAMBDA current : [current EXCEPT !.device = FALSE])
    /\ UNCHANGED <<kind, step, copy, arg, routes, granted>>

RemoveState(p) ==
    /\ kind[p] = "delete"
    /\ file # Missing
    /\ ~file.device
    /\ file' = Missing
    /\ granted' = NoSource
    /\ routes' = {}
    /\ Leave(p)

(* A create, an import or a delete returns, fails or dies between two of    *)
(* its writes; a short command before its only one.                         *)
End(p) ==
    /\ kind[p] # "idle"
    /\ Leave(p)
    /\ UNCHANGED <<file, routes, granted>>
-----------------------------------------------------------------------------
Next ==
    \E p \in Proc :
        \/ CreatePolicy(p) \/ CreateCompute(p) \/ CreateDevice(p)
        \/ \E h \in Hostname : BeginAdd(p, h) \/ BeginRemove(p, h)
        \/ Add(p) \/ RefuseAdd(p) \/ Remove(p)
        \/ \E a \in Address : BeginRefresh(p, a) \/ BeginImport(p, a)
        \/ Refresh(p)
        \/ \E s \in Source \union {NoSource} : BeginCreate(p, s) \/ BeginSSHPolicy(p, s)
        \/ RecordPolicy(p)
        \/ EnterPublish(p) \/ Publish(p)
        \/ BeginDelete(p) \/ ClearDevice(p) \/ RemoveState(p)
        \/ End(p)

Spec == Init /\ [][Next]_vars
-----------------------------------------------------------------------------
(* Properties *)

(* Well-formed files and commands; a command that is to update the state    *)
(* finds it there (delete holds the namespace lock against all of them).    *)
TypeOK ==
    /\ file \in State \union {Missing}
    /\ kind \in [Proc -> Kind \union {"idle"}]
    /\ step \in [Proc -> Step]
    /\ copy \in [Proc -> State \union {Missing}]
    /\ arg \in [Proc -> Hostname \union Address \union Source \union {NoSource}]
    /\ routes \subseteq Hostname /\ granted \in Source \union {NoSource}
    /\ \A p \in Proc :
        kind[p] \notin {"idle", "import"} => file # Missing

(* "Per-server state mutations use adjacent advisory locks and              *)
(* read-modify-write updates so concurrent status, ingress, and cleanup     *)
(* checkpoints preserve one another": a route whose add was reported is in  *)
(* the file until its removal is reported, no removed route comes back, and *)
(* the recorded automation source is that of the last policy write          *)
(* ("Provision, ssh-policy and the doctor repair share it, so state tells   *)
(* reconcile and doctor the same story whichever command wrote the policy").*)
ReportedKept ==
    file # Missing => file.ingress = routes /\ file.source = granted

(* Each command changes only the fields it answers for: no write puts back  *)
(* an old value of a field that another command has changed meanwhile.      *)
(* A create sets the addresses only together with the compute.              *)
Owned(k) ==
    CASE k = "create"  -> {"compute", "device", "source"}
      [] k = "refresh" -> {"address"}
      [] k = "delete"  -> {"device"}
      [] k \in {"add", "remove"} -> {"ingress"}
      [] k = "sshPolicy" -> {"source"}
      [] OTHER -> {"compute", "device", "address"}

OwnFieldsOnly ==
    [][file # Missing /\ file' # Missing =>
          \E p \in Proc : \A field \in DOMAIN Fresh :
              file'[field] # file[field] =>
                  \/ field \in Owned(kind[p])
                  \/ field = "address" /\ kind[p] = "create" /\ ~file.compute]_vars
=============================================================================
