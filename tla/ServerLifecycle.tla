--------------------------- MODULE ServerLifecycle ---------------------------
(***************************************************************************)
(* server create and server delete of one server, and what they make and   *)
(* destroy at the compute provider, at Cloudflare and in the tailnet       *)
(* (internal/lifecycle, the delete commands of internal/cli, the Create    *)
(* and Delete of the compute adapters).                                    *)
(*                                                                         *)
(* No transaction spans the providers and the state file.  Each mutation   *)
(* is followed by a checkpoint, and a create or delete that stopped        *)
(* anywhere is run again.  A step may fail without effect, a call may take *)
(* effect and its answer be lost, a process may die between two steps; the *)
(* faults of a behaviour are bounded by Budget.                            *)
(*                                                                         *)
(* Abstracted: the shared tailnet policy; the steps on the host after the  *)
(* device is bound (one step, "remote"); the wording of plans; ownership   *)
(* labels (every resource here carries them); the marker of an import.     *)
(* The lock that LockServerWorkflow and the deletes hold is owner.         *)
(***************************************************************************)
EXTENDS Naturals, FiniteSets

CONSTANTS Proc,
          NoProc,
          Ids,                \* resources of one type ever made: 1 .. Ids
          Creates,            \* creates the operator starts
          Faults,             \* the kinds of fault that happen
          Budget,             \* faults of one behaviour
          TunnelEnabled,      \* cloudflare.tunnel.enabled
          AttachmentVisible,  \* the provider reports what a policy is attached
                              \* to (Hetzner, Vultr; DigitalOcean selects by tag)
          NoState             \* the state file is absent

ASSUME NoProcAssumption == NoProc \notin Proc
ASSUME BoundsAssumption == Ids \in Nat /\ Creates \in Nat /\ Budget \in Nat
ASSUME FaultsAssumption == Faults \subseteq {"abort", "lost", "disk", "crash"}
ASSUME FlagsAssumption == TunnelEnabled \in BOOLEAN /\ AttachmentVisible \in BOOLEAN

Type == {"server", "policy", "device", "tunnel", "key"}
Id == 0 .. Ids          \* 0 is the empty identifier
Resource == Type \X (1 .. Ids)

(* What the state file says of one server.  window stands for               *)
(* AuthKeyCreatedAt: the key whose minting opened the enrolment window.     *)
State == [server : Id, policy : Id, device : Id, tunnel : Id, key : Id,
          window : Id, origin : {"none", "created", "adopted"}]

ASSUME NoStateAssumption == NoState \notin State

Blank == [server |-> 0, policy |-> 0, device |-> 0, tunnel |-> 0, key |-> 0,
          window |-> 0, origin |-> "none"]

File == {"config", "credentials", "registry"}

VARIABLES live,      \* resources that exist
          made,      \* made[type]: how many were ever made; the last one's id
          foreign,   \* tunnels of this name that serverpro did not create
          boot,      \* boot[s]: the policy and the key server s was made with
          joined,    \* joined[s]: keys minted when its device enrolled
          disk,      \* the state file
          files,     \* the other local artifacts
          owner,     \* who holds the locks of the server
          kind, at,  \* kind[p], at[p]: the command and its next step
          st,        \* st[p]: the state it has in memory
          plan,      \* plan[p]: the state whose deletion was approved
          policy,    \* policy[p]: the access policy for the server in the making
          key,       \* key[p]: keyID of lifecycle.Run
          minted,    \* minted[p]: its deferred clean-up of that key is set
          recorded,  \* history: what a checkpoint has recorded as serverpro's
          creates,
          faults, seen   \* how many faults happened, and of which kinds

cloud == <<live, made, foreign, boot, joined>>
memory == <<st, plan, policy, key, minted>>
trouble == <<faults, seen>>
vars == <<cloud, disk, files, owner, kind, at, memory, recorded, creates, trouble>>

Init ==
    /\ live = {} /\ foreign = {}
    /\ made = [t \in Type |-> 0]
    /\ boot = [s \in 1 .. Ids |-> [policy |-> 0, key |-> 0]]
    /\ joined = [s \in 1 .. Ids |-> 0]
    /\ disk = NoState /\ files = {}
    /\ owner = NoProc
    /\ kind = [p \in Proc |-> "idle"]
    /\ at = [p \in Proc |-> "idle"]
    /\ st = [p \in Proc |-> Blank] /\ plan = [p \in Proc |-> Blank]
    /\ policy = [p \in Proc |-> 0] /\ key = [p \in Proc |-> 0]
    /\ minted = [p \in Proc |-> FALSE]
    /\ recorded = {}
    /\ creates = 0 /\ faults = 0 /\ seen = {}
-----------------------------------------------------------------------------
(* Vocabulary *)

Live(type, id) == <<type, id>> \in live
AllLive(type) == {id \in 1 .. Ids : Live(type, id)}

(* CloudflareState.OwnsTunnel *)
OwnsAnyTunnel(state) == state.tunnel # 0
OwnsTunnel(state) == state.tunnel # 0 /\ state.origin = "created"

(* What serverpro may delete by the word of this state. *)
Refs(state) ==
    IF state = NoState THEN {}
    ELSE {<<type, state[type]>> : type \in {t \in Type \ {"tunnel"} : state[t] # 0}}
             \union {r \in {<<"tunnel", state.tunnel>>} : OwnsTunnel(state)}

(* serverDeleteCleanupRequired *)
Required(state) == OwnsTunnel(state) \/ state.device # 0 \/ state.key # 0

Attached(id) == \E s \in AllLive("server") : boot[s].policy = id

Go(p, step) == at' = [at EXCEPT ![p] = step]
InMemory(p, state) == st' = [st EXCEPT ![p] = state]

(* saveProvisionState and checkpointCleanupState, as far as this server's   *)
(* lifecycle fields go (see module ServerState).                            *)
Save(state) ==
    /\ disk' = state
    /\ recorded' = recorded \union Refs(state)
NoSave == UNCHANGED <<disk, recorded>>

Fault(f) ==
    /\ f \in Faults /\ faults < Budget
    /\ faults' = faults + 1
    /\ seen' = seen \union {f}

(* A call took effect; its answer arrives or is lost. *)
Answered(f) == IF f = "ok" THEN UNCHANGED trouble ELSE Fault(f)

Make(type) ==
    /\ made[type] < Ids
    /\ made' = [made EXCEPT ![type] = @ + 1]
    /\ live' = live \union {<<type, made[type] + 1>>}
-----------------------------------------------------------------------------
(* server create: the local artifacts come first *)

StartCreate(p) ==
    /\ kind[p] = "idle"
    /\ creates < Creates
    /\ owner = NoProc
    /\ owner' = p
    /\ creates' = creates + 1
    /\ kind' = [kind EXCEPT ![p] = "create"]
    /\ Go(p, "config")
    /\ UNCHANGED <<cloud, disk, files, memory, recorded, trouble>>

Following == [config |-> "credentials", credentials |-> "registry", registry |-> "init"]

(* publishPreparedConfig, ensureCredentials, upsertRegistryEntry *)
Publish(p) ==
    /\ kind[p] = "create" /\ at[p] \in File
    /\ files' = files \union {at[p]}
    /\ Go(p, Following[at[p]])
    /\ UNCHANGED <<cloud, disk, owner, kind, memory, recorded, creates, trouble>>

(* initializeProvisionState *)
InitializeState(p) ==
    /\ at[p] = "init"
    /\ IF disk = NoState THEN Save(Blank) ELSE NoSave
    /\ InMemory(p, disk')
    /\ Go(p, "makeTunnel")
    /\ UNCHANGED <<cloud, files, owner, kind, plan, policy, key, minted, creates, trouble>>
-----------------------------------------------------------------------------
(* ensureCloudflareTunnel *)

TunnelKnown(p) ==
    /\ at[p] = "makeTunnel"
    /\ ~TunnelEnabled \/ st[p].tunnel # 0
    /\ Go(p, "oldKey")
    /\ UNCHANGED <<cloud, disk, files, owner, kind, memory, recorded, creates, trouble>>

LacksTunnel(p) == at[p] = "makeTunnel" /\ TunnelEnabled /\ st[p].tunnel = 0

(* MatchTunnelByName: one match is adopted, two are an error. *)
AdoptTunnel(p) ==
    /\ LacksTunnel(p)
    /\ AllLive("tunnel") # {}
    /\ IF Cardinality(AllLive("tunnel")) = 1
         THEN /\ \E t \in AllLive("tunnel") :
                   InMemory(p, [st[p] EXCEPT !.tunnel = t, !.origin = "adopted"])
              /\ Go(p, "saveTunnel")
         ELSE Go(p, "unwind") /\ UNCHANGED st
    /\ UNCHANGED <<cloud, disk, files, owner, kind, plan, policy, key, minted,
                   recorded, creates, trouble>>

CreateTunnel(p) ==
    /\ LacksTunnel(p)
    /\ AllLive("tunnel") = {}
    /\ Make("tunnel")
    /\ \E answer \in {"ok", "lost"} :
        /\ Answered(answer)
        /\ IF answer = "ok"
             THEN /\ InMemory(p, [st[p] EXCEPT !.tunnel = made'["tunnel"],
                                               !.origin = "created"])
                  /\ Go(p, "saveTunnel")
             ELSE Go(p, "unwind") /\ UNCHANGED st
    /\ UNCHANGED <<foreign, boot, joined, disk, files, owner, kind, plan, policy,
                   key, minted, recorded, creates>>

SaveTunnel(p) ==
    /\ at[p] = "saveTunnel"
    /\ Save(st[p])
    /\ Go(p, "oldKey")
    /\ UNCHANGED <<cloud, files, owner, kind, memory, creates, trouble>>

(* The checkpoint fails: a fresh tunnel is deleted again, if that works. *)
RollBackTunnel(p) ==
    /\ at[p] = "saveTunnel"
    /\ Fault("disk")
    /\ OwnsTunnel(st[p])
    /\ live' = live \ {<<"tunnel", st[p].tunnel>>}
    /\ Go(p, "unwind")
    /\ UNCHANGED <<made, foreign, boot, joined, disk, files, owner, kind, memory,
                   recorded, creates>>
-----------------------------------------------------------------------------
(* The bootstrap key *)

(* cleanupProvisionAuthKey: revoke (a missing key is fine), forget, save    *)
(* everything the run has in memory.  Its answer or its save may be lost.   *)
CleanUpKey(p, id, answer) ==
    /\ live' = live \ {<<"key", id>>}
    /\ IF answer = "ok"
         THEN LET cleared == [st[p] EXCEPT !.key = 0] IN
              InMemory(p, cleared) /\ Save(cleared)
         ELSE NoSave /\ UNCHANGED st
    /\ UNCHANGED <<made, foreign, boot, joined>>

(* Compute recorded by an earlier run: keep its key until the end. *)
ResumeCompute(p) ==
    /\ at[p] = "oldKey"
    /\ st[p].server # 0
    /\ key' = [key EXCEPT ![p] = st[p].key]
    /\ Go(p, "bind")
    /\ UNCHANGED <<cloud, disk, files, owner, kind, st, plan, policy, minted,
                   recorded, creates, trouble>>

RetireOldKey(p) ==
    /\ at[p] = "oldKey"
    /\ st[p].server = 0
    /\ st[p].key # 0
    /\ \E answer \in {"ok", "lost"} :
        /\ Answered(answer)
        /\ CleanUpKey(p, st[p].key, answer)
        /\ Go(p, IF answer = "ok" THEN "mint" ELSE "unwind")
    /\ UNCHANGED <<files, owner, kind, plan, policy, key, minted, creates>>

KeepOldKey(p) ==
    /\ at[p] = "oldKey"
    /\ st[p].server = 0
    /\ Go(p, "mint")
    /\ UNCHANGED <<cloud, disk, files, owner, kind, memory, recorded, creates, trouble>>

NoOldKey(p) == st[p].key = 0 /\ KeepOldKey(p)

(* tailscaleAuthKey: from here on every return revokes the key. *)
MintKey(p) ==
    /\ at[p] = "mint"
    /\ Make("key")
    /\ \E answer \in {"ok", "lost"} :
        /\ Answered(answer)
        /\ IF answer = "ok"
             THEN /\ InMemory(p, [st[p] EXCEPT !.key = made'["key"],
                                               !.window = made'["key"]])
                  /\ key' = [key EXCEPT ![p] = made'["key"]]
                  /\ minted' = [minted EXCEPT ![p] = TRUE]
                  /\ Go(p, "saveKey")
             ELSE Go(p, "unwind") /\ UNCHANGED <<st, key, minted>>
    /\ UNCHANGED <<foreign, boot, joined, disk, files, owner, kind, plan, policy,
                   recorded, creates>>

SaveKey(p) ==
    /\ at[p] = "saveKey"
    /\ Save(st[p])
    /\ Go(p, "makePolicy")
    /\ UNCHANGED <<cloud, files, owner, kind, memory, creates, trouble>>
-----------------------------------------------------------------------------
(* compute.Provider.Create *)

ReusePolicyUnchecked(p) ==
    /\ at[p] = "makePolicy"
    /\ st[p].policy # 0
    /\ policy' = [policy EXCEPT ![p] = st[p].policy]
    /\ Go(p, "makeServer")
    /\ UNCHANGED <<cloud, disk, files, owner, kind, st, plan, key, minted,
                   recorded, creates, trouble>>

(* ensureAccessPolicy, ensureFirewallGroup, ensureFirewall: a checkpointed  *)
(* policy is used again when it is live and nothing is attached to it.      *)
ReusePolicy(p) ==
    /\ at[p] = "makePolicy"
    /\ st[p].policy # 0
    /\ LET id == st[p].policy IN
        IF Live("policy", id) /\ ~(AttachmentVisible /\ Attached(id))
          THEN policy' = [policy EXCEPT ![p] = id] /\ Go(p, "makeServer")
          ELSE UNCHANGED policy /\ Go(p, "unwind")
    /\ UNCHANGED <<cloud, disk, files, owner, kind, st, plan, key, minted,
                   recorded, creates, trouble>>

CreatePolicy(p) ==
    /\ at[p] = "makePolicy"
    /\ st[p].policy = 0
    /\ Make("policy")
    /\ \E answer \in {"ok", "lost"} :
        /\ Answered(answer)
        /\ IF answer = "ok"
             THEN policy' = [policy EXCEPT ![p] = made'["policy"]] /\ Go(p, "makeServer")
             ELSE UNCHANGED policy /\ Go(p, "unwind")
    /\ UNCHANGED <<foreign, boot, joined, disk, files, owner, kind, st, plan, key,
                   minted, recorded, creates>>

(* The answer may be lost, or the provider's operation fail afterwards. *)
WithCompute(p, s) == [st[p] EXCEPT !.server = s, !.policy = policy[p]]

CreateServer(p) ==
    /\ at[p] = "makeServer"
    /\ Make("server")
    /\ boot' = [boot EXCEPT ![made'["server"]] = [policy |-> policy[p], key |-> key[p]]]
    /\ \E answer \in {"ok", "abort", "lost"} :
        /\ Answered(answer)
        /\ IF answer = "lost"
             THEN UNCHANGED st /\ Go(p, "lookUp")
             ELSE /\ InMemory(p, WithCompute(p, made'["server"]))
                  /\ Go(p, IF answer = "ok" THEN "saveServer" ELSE "savePartial")
    /\ UNCHANGED <<foreign, joined, disk, files, owner, kind, plan, policy, key,
                   minted, recorded, creates>>

RefuseServer(p) ==
    /\ at[p] = "makeServer"
    /\ Fault("abort")
    /\ Go(p, "lookUp")
    /\ UNCHANGED <<cloud, disk, files, owner, kind, memory, recorded, creates>>

(* reconcileCreatedServer: the one server of that name, or no server but    *)
(* the policy alone when there are none, several, or the look-up fails.     *)
LookUp(p) ==
    /\ at[p] = "lookUp"
    /\ IF Cardinality(AllLive("server")) = 1
         THEN \/ /\ \E s \in AllLive("server") : InMemory(p, WithCompute(p, s))
                 /\ UNCHANGED trouble
              \/ InMemory(p, WithCompute(p, 0)) /\ Fault("abort")
         ELSE InMemory(p, WithCompute(p, 0)) /\ UNCHANGED trouble
    /\ Go(p, "savePartial")
    /\ UNCHANGED <<cloud, disk, files, owner, kind, plan, policy, key, minted,
                   recorded, creates>>

(* ensureComputeServer: applyComputeRecord and its checkpoint *)
SaveCompute(p) ==
    /\ at[p] \in {"saveServer", "savePartial"}
    /\ Save(st[p])
    /\ Go(p, IF at[p] = "saveServer" THEN "bind" ELSE "unwind")
    /\ UNCHANGED <<cloud, files, owner, kind, memory, creates, trouble>>
-----------------------------------------------------------------------------
(* waitTailscaleDevice *)

Online(d) == Live("server", d)

(* ManagedDeviceQuery and SelectDevice: the recorded device, or while the   *)
(* enrolment window is open the devices that enrolled since its key.        *)
Candidates(p) ==
    IF st[p].window = 0 /\ st[p].device # 0
      THEN {d \in AllLive("device") : d = st[p].device}
      ELSE {d \in AllLive("device") : joined[d] >= st[p].window}

BindDevice(p) ==
    /\ at[p] = "bind"
    /\ Cardinality(Candidates(p)) = 1
    /\ \E d \in Candidates(p) :
        /\ Online(d)
        /\ InMemory(p, [st[p] EXCEPT !.device = d, !.window = 0])
    /\ Go(p, "saveDevice")
    /\ UNCHANGED <<cloud, disk, files, owner, kind, plan, policy, key, minted,
                   recorded, creates, trouble>>

(* Ambiguous, or the recorded device is gone: terminal.  An absent or       *)
(* offline device is waited for until the create times out.                 *)
BindFails(p) ==
    /\ at[p] = "bind"
    /\ \A d \in Candidates(p) : Cardinality(Candidates(p)) = 1 => ~Online(d)
    /\ Go(p, "unwind")
    /\ UNCHANGED <<cloud, disk, files, owner, kind, memory, recorded, creates, trouble>>

SaveDevice(p) ==
    /\ at[p] = "saveDevice"
    /\ Save(st[p])
    /\ Go(p, "remote")
    /\ UNCHANGED <<cloud, files, owner, kind, memory, creates, trouble>>

(* waitRemoteReady .. disableOpenSSH: none of them touches these variables. *)
Remote(p) ==
    /\ at[p] = "remote"
    /\ Go(p, "finish")
    /\ UNCHANGED <<cloud, disk, files, owner, kind, memory, recorded, creates, trouble>>

(* The best-effort clean-up of the key, then completeProvision. *)
FinishKey(p) ==
    /\ at[p] = "finish"
    /\ IF key[p] = 0
         THEN UNCHANGED <<live, made, foreign, boot, joined, disk, recorded, st,
                          key, trouble>>
         ELSE \E answer \in {"ok", "lost"} :
                /\ Answered(answer)
                /\ CleanUpKey(p, key[p], answer)
                /\ key' = [key EXCEPT ![p] = IF answer = "ok" THEN 0 ELSE @]
    /\ Go(p, "complete")
    /\ UNCHANGED <<files, owner, kind, plan, policy, minted, creates>>

Complete(p) ==
    /\ at[p] = "complete"
    /\ Save(st[p])
    /\ Go(p, "unwind")
    /\ UNCHANGED <<cloud, files, owner, kind, memory, creates, trouble>>

Forget(p) ==
    /\ kind' = [kind EXCEPT ![p] = "idle"]
    /\ Go(p, "idle")
    /\ InMemory(p, Blank)
    /\ plan' = [plan EXCEPT ![p] = Blank]
    /\ policy' = [policy EXCEPT ![p] = 0]
    /\ key' = [key EXCEPT ![p] = 0]
    /\ minted' = [minted EXCEPT ![p] = FALSE]
    /\ owner' = IF owner = p THEN NoProc ELSE owner

(* The deferred clean-up, when the key was minted by this run and not yet   *)
(* revoked; its errors are dropped.                                         *)
DeferredCleanUp(p) ==
    /\ at[p] = "unwind"
    /\ minted[p] /\ key[p] # 0
    /\ \E answer \in {"ok", "lost"} :
        /\ Answered(answer)
        /\ CleanUpKey(p, key[p], answer)
    /\ minted' = [minted EXCEPT ![p] = FALSE]
    /\ UNCHANGED <<files, owner, kind, at, plan, policy, key, creates>>

DeferredCleanUpFails(p) ==
    /\ at[p] = "unwind"
    /\ minted[p] /\ key[p] # 0
    /\ Fault("abort")
    /\ minted' = [minted EXCEPT ![p] = FALSE]
    /\ UNCHANGED <<cloud, disk, files, owner, kind, at, st, plan, policy, key,
                   recorded, creates>>

Return(p) ==
    /\ at[p] = "unwind"
    /\ ~(minted[p] /\ key[p] # 0)
    /\ Forget(p)
    /\ UNCHANGED <<cloud, disk, files, recorded, creates, trouble>>
-----------------------------------------------------------------------------
(* server delete: approval without the lock *)

(* approveServerDelete up to the credentials *)
Approve(p) ==
    /\ kind[p] = "idle"
    /\ disk # NoState
    /\ "registry" \in files
    /\ Required(disk) => "config" \in files
    /\ kind' = [kind EXCEPT ![p] = "delete"]
    /\ plan' = [plan EXCEPT ![p] = disk]
    /\ Go(p, "authorize")
    /\ UNCHANGED <<cloud, disk, files, owner, st, policy, key, minted, recorded,
                   creates, trouble>>

(* The local artifacts go in this order, the registry entry last. *)
Removal ==
    [rmConfig |-> "rmState", rmState |-> "rmCredentials",
     rmCredentials |-> "rmRegistry", rmRegistry |-> "unwind"]

(* The local-artifact guard: a clean-up holds it exclusively. *)
GuardFree == \A p \in Proc : at[p] \notin DOMAIN Removal

(* ensureCredentials asks for missing tokens and writes them, when there is *)
(* external clean-up to do; otherwise the stored token must be there.       *)
Authorize(p) ==
    /\ at[p] = "authorize"
    /\ IF Required(plan[p])
         THEN /\ "credentials" \in files \/ GuardFree
              /\ files' = files \union {"credentials"}
              /\ Go(p, "await")
         ELSE /\ UNCHANGED files
              /\ Go(p, IF "credentials" \in files THEN "await" ELSE "unwind")
    /\ UNCHANGED <<cloud, disk, owner, kind, memory, recorded, creates, trouble>>

(* sameServerDeleteAuthority compares everything but the window. *)
SameAuthority(approved, current) ==
    /\ current # NoState
    /\ [approved EXCEPT !.window = 0] = [current EXCEPT !.window = 0]

RevalidateUnlocked(p) ==
    /\ at[p] = "await"
    /\ owner = NoProc
    /\ IF SameAuthority(plan[p], disk)
         THEN InMemory(p, disk) /\ Go(p, "server")
         ELSE UNCHANGED st /\ Go(p, "unwind")
    /\ UNCHANGED <<cloud, disk, files, owner, kind, plan, policy, key, minted,
                   recorded, creates, trouble>>

(* LockNamespaceOperationExclusive, LockServerOperation and                 *)
(* revalidateServerDelete.  The preflight that follows only reads.          *)
Revalidate(p) ==
    /\ at[p] = "await"
    /\ owner = NoProc
    /\ owner' = p
    /\ IF /\ SameAuthority(plan[p], disk)
          /\ {"registry", "credentials"} \subseteq files
          /\ Required(disk) => "config" \in files
         THEN InMemory(p, disk) /\ Go(p, "server")
         ELSE UNCHANGED st /\ Go(p, "unwind")
    /\ UNCHANGED <<cloud, disk, files, kind, plan, policy, key, minted, recorded,
                   creates, trouble>>
-----------------------------------------------------------------------------
(* compute.Provider.Delete: the server, then its access policy; a resource  *)
(* that is already gone counts as deleted.                                  *)

(* Neither is recorded: "provider server id missing". *)
RefuseDelete(p) ==
    /\ at[p] = "server"
    /\ st[p].server = 0 /\ st[p].policy = 0
    /\ Go(p, "refused")
    /\ UNCHANGED <<cloud, disk, files, owner, kind, memory, recorded, creates, trouble>>

DeleteServerThatExists(p) ==
    /\ at[p] = "server"
    /\ st[p].server # 0 \/ st[p].policy # 0
    /\ \E answer \in {"ok", "lost"} :
        /\ Answered(answer)
        /\ Go(p, IF answer = "ok" /\ (st[p].server = 0 \/ Live("server", st[p].server))
                   THEN "policy" ELSE "unwind")
    /\ live' = live \ {<<"server", st[p].server>>}
    /\ UNCHANGED <<made, foreign, boot, joined, disk, files, owner, kind, memory,
                   recorded, creates>>
DeleteServer(p) ==
    /\ at[p] = "server"
    /\ st[p].server # 0 \/ st[p].policy # 0
    /\ \E answer \in {"ok", "lost"} :
        /\ Answered(answer)
        /\ Go(p, IF answer = "ok" THEN "policy" ELSE "unwind")
    /\ live' = live \ {<<"server", st[p].server>>}
    /\ UNCHANGED <<made, foreign, boot, joined, disk, files, owner, kind, memory,
                   recorded, creates>>

(* A provider does not delete a policy that protects a server. *)
DeletePolicy(p) ==
    /\ at[p] = "policy"
    /\ ~Attached(st[p].policy) \/ st[p].policy = 0
    /\ \E answer \in {"ok", "lost"} :
        /\ Answered(answer)
        /\ Go(p, IF answer = "ok" THEN "device" ELSE "unwind")
    /\ live' = live \ {<<"policy", st[p].policy>>}
    /\ UNCHANGED <<made, foreign, boot, joined, disk, files, owner, kind, memory,
                   recorded, creates>>

PolicyInUse(p) ==
    /\ at[p] = "policy"
    /\ st[p].policy # 0 /\ Attached(st[p].policy)
    /\ Go(p, "unwind")
    /\ UNCHANGED <<cloud, disk, files, owner, kind, memory, recorded, creates, trouble>>
-----------------------------------------------------------------------------
(* deleteTrackedExternalResources *)

After == [device |-> "tunnel", tunnel |-> "key", key |-> "rmConfig"]

Cleared(state, type) ==
    CASE type = "tunnel" -> [state EXCEPT !.tunnel = 0, !.origin = "none"]
      [] type = "key"    -> [state EXCEPT !.key = 0, !.window = 0]
      [] OTHER           -> [state EXCEPT !.device = 0]

Tracked(state, type) == <<type, state[type]>> \in Refs(state)

SkipExternal(p) ==
    /\ at[p] \in DOMAIN After
    /\ ~Tracked(st[p], at[p])
    /\ Go(p, After[at[p]])
    /\ UNCHANGED <<cloud, disk, files, owner, kind, memory, recorded, creates, trouble>>

(* deleteTrackedTailscaleDevice, -CloudflareTunnel, -TailscaleAuthKey, each *)
(* with its checkpoint.                                                     *)
CheckpointBeforeDelete(p) ==
    /\ at[p] \in DOMAIN After
    /\ Tracked(st[p], at[p])
    /\ LET cleared == Cleared(st[p], at[p]) IN
        \E answer \in {"ok", "lost"} :
            /\ Answered(answer)
            /\ Save(cleared)
            /\ InMemory(p, cleared)
            /\ IF answer = "ok" THEN live' = live \ {<<at[p], st[p][at[p]]>>} /\ Go(p, After[at[p]])
                                ELSE UNCHANGED live /\ Go(p, "unwind")
    /\ UNCHANGED <<made, foreign, boot, joined, files, owner, kind, plan, policy,
                   key, minted, creates>>
DeleteExternal(p) ==
    /\ at[p] \in DOMAIN After
    /\ Tracked(st[p], at[p])
    /\ live' = live \ {<<at[p], st[p][at[p]]>>}
    /\ LET cleared == Cleared(st[p], at[p]) IN
        \E answer \in {"ok", "lost"} :
            /\ Answered(answer)
            /\ IF answer = "ok"
                 THEN Save(cleared) /\ InMemory(p, cleared) /\ Go(p, After[at[p]])
                 ELSE NoSave /\ UNCHANGED st /\ Go(p, "unwind")
    /\ UNCHANGED <<made, foreign, boot, joined, files, owner, kind, plan, policy,
                   key, minted, creates>>
-----------------------------------------------------------------------------
(* executeServerDeleteLocal: the registry entry goes last *)

Removed == [rmConfig |-> "config", rmCredentials |-> "credentials",
            rmRegistry |-> "registry", rmState |-> "state"]

RemoveLocal(p) ==
    /\ at[p] \in DOMAIN Removal
    /\ files' = files \ {Removed[at[p]]}
    /\ disk' = IF at[p] = "rmState" THEN NoState ELSE disk
    /\ Go(p, Removal[at[p]])
    /\ UNCHANGED <<cloud, owner, kind, memory, recorded, creates, trouble>>
-----------------------------------------------------------------------------
(* Faults and the world outside *)

Writes == {"init", "saveTunnel", "saveKey", "saveServer", "savePartial",
           "saveDevice", "complete"} \union File \union DOMAIN Removal

(* A call is refused, a local write fails, the operator or a deadline ends  *)
(* the command: it returns without having done its next step.               *)
Abort(p) ==
    /\ at[p] \notin {"idle", "unwind", "refused", "makeServer", "lookUp"}
    /\ Fault(IF at[p] \in Writes THEN "disk" ELSE "abort")
    /\ Go(p, "unwind")
    /\ UNCHANGED <<cloud, disk, files, owner, kind, memory, recorded, creates>>

RefusedReturn(p) ==
    /\ at[p] = "refused"
    /\ Forget(p)
    /\ UNCHANGED <<cloud, disk, files, recorded, creates, trouble>>

Crash(p) ==
    /\ kind[p] # "idle"
    /\ Fault("crash")
    /\ Forget(p)
    /\ UNCHANGED <<cloud, disk, files, recorded, creates>>

(* A booted server joins the tailnet with the single-use key it carries.    *)
Enrol(s) ==
    /\ Live("server", s)
    /\ joined[s] = 0
    /\ Live("key", boot[s].key)
    /\ live' = (live \ {<<"key", boot[s].key>>}) \union {<<"device", s>>}
    /\ joined' = [joined EXCEPT ![s] = made["key"]]
    /\ UNCHANGED <<made, foreign, boot, disk, files, owner, kind, at, memory,
                   recorded, creates, trouble>>

(* Someone makes a tunnel of the same name. *)
ForeignTunnel ==
    /\ Make("tunnel")
    /\ foreign' = foreign \union {made'["tunnel"]}
    /\ UNCHANGED <<boot, joined, disk, files, owner, kind, at, memory, recorded,
                   creates, trouble>>
-----------------------------------------------------------------------------
CreateStep(p) ==
    \/ Publish(p) \/ InitializeState(p)
    \/ TunnelKnown(p) \/ AdoptTunnel(p) \/ CreateTunnel(p) \/ SaveTunnel(p) \/ RollBackTunnel(p)
    \/ ResumeCompute(p) \/ RetireOldKey(p) \/ NoOldKey(p) \/ MintKey(p) \/ SaveKey(p)
    \/ ReusePolicy(p) \/ CreatePolicy(p) \/ CreateServer(p) \/ RefuseServer(p)
    \/ LookUp(p) \/ SaveCompute(p)
    \/ BindDevice(p) \/ BindFails(p) \/ SaveDevice(p) \/ Remote(p)
    \/ FinishKey(p) \/ Complete(p)
    \/ DeferredCleanUp(p) \/ DeferredCleanUpFails(p) \/ Return(p)

DeleteStep(p) ==
    \/ Authorize(p) \/ Revalidate(p) \/ RefuseDelete(p) \/ RefusedReturn(p)
    \/ DeleteServer(p) \/ DeletePolicy(p) \/ PolicyInUse(p)
    \/ SkipExternal(p) \/ DeleteExternal(p) \/ RemoveLocal(p)

Next ==
    \/ \E p \in Proc :
        \/ StartCreate(p) \/ CreateStep(p)
        \/ Approve(p) \/ DeleteStep(p)
        \/ Abort(p) \/ Crash(p)
    \/ \E s \in 1 .. Ids : Enrol(s)
    \/ ForeignTunnel

Spec == Init /\ [][Next]_vars
-----------------------------------------------------------------------------
(* Properties *)

At == {"idle", "init", "makeTunnel", "saveTunnel", "oldKey", "mint", "saveKey",
       "makePolicy", "makeServer", "lookUp", "saveServer", "savePartial", "bind",
       "saveDevice", "remote", "finish", "complete", "unwind", "authorize",
       "await", "server", "policy", "refused"}
          \union File \union DOMAIN After \union DOMAIN Removal

(* Well-formed state; only the holder of the locks is past the approval.    *)
TypeOK ==
    /\ live \subseteq Resource /\ recorded \subseteq Resource
    /\ made \in [Type -> Id] /\ foreign \subseteq 1 .. Ids
    /\ boot \in [1 .. Ids -> [policy : Id, key : Id]]
    /\ joined \in [1 .. Ids -> Id]
    /\ disk \in State \union {NoState} /\ files \subseteq File
    /\ owner \in Proc \union {NoProc}
    /\ kind \in [Proc -> {"idle", "create", "delete"}]
    /\ at \in [Proc -> At]
    /\ st \in [Proc -> State] /\ plan \in [Proc -> State]
    /\ policy \in [Proc -> Id] /\ key \in [Proc -> Id]
    /\ minted \in [Proc -> BOOLEAN]
    /\ creates \in 0 .. Creates /\ faults \in 0 .. Budget /\ seen \subseteq Faults
    /\ \A p \in Proc :
        at[p] \notin {"idle", "authorize", "await", "unwind"} => owner = p

(* Whatever a checkpoint has recorded as serverpro's is gone or still in    *)
(* the state file: no retry, roll-back or delete forgets a live resource,   *)
(* and the state file itself goes last ("Checkpoint each external mutation  *)
(* so retries never repeat completed work", deleteTrackedTailscaleDevice).  *)
NothingForgotten == recorded \intersect live \subseteq Refs(disk)

(* "server delete removes only tunnels proven created": a tunnel that       *)
(* someone else made survives adoption, roll-back and delete.               *)
ForeignTunnelsSurvive == \A t \in foreign : Live("tunnel", t)

(* A bind in an open enrolment window takes the device of the server just   *)
(* recorded, although earlier attempts may have left servers running, with  *)
(* keys of their own, that enrol at any moment: the old key is retired      *)
(* before the window opens (waitTailscaleDevice).                           *)
FirstBindIsOwn ==
    [][\A p \in Proc :
          at[p] = "bind" /\ at'[p] = "saveDevice" /\ st[p].window # 0
              => st'[p].device = st[p].server]_vars

(* "a first bind ignores devices that predate the single-use bootstrap      *)
(* key": the secrets of the remote steps never go to a device that an       *)
(* earlier attempt left behind.                                             *)
SecretsToOwnServer ==
    \A p \in Proc : at[p] = "remote" => st[p].device = st[p].server

(* As long as the local machine is well, refused calls and lost answers     *)
(* never make a retried create order a second server beside the first       *)
(* (validateCheckpointAccessPolicy rejects a policy with attachments).      *)
AtMostOneServer ==
    seen \subseteq {"abort", "lost"} => Cardinality(AllLive("server")) <= 1

(* "state that provider-scoped delete and status accept": no delete is      *)
(* refused because the create failed before it recorded compute.            *)
DeleteAcceptsEarlyFailure == \A p \in Proc : at[p] # "refused"

(* "removes canonical artifacts without a stale managed writer recreating   *)
(* them": an artifact comes back only for a server that has a state file or *)
(* is being created.                                                        *)
NoStaleWriter ==
    [][files' \subseteq files \/ disk # NoState
          \/ \E p \in Proc : owner = p /\ kind[p] = "create"]_vars

(* A command that can go on does, a waiting one gets the lock (lockContext  *)
(* tries until then), and the operator repeats the delete.                  *)
Fairness ==
    \A p \in Proc :
        /\ WF_vars(CreateStep(p))
        /\ WF_vars(DeleteStep(p))
        /\ WF_vars(Approve(p))

FairSpec == Spec /\ Fairness

(* A server that was recorded is deleted in the end, whatever failed on the *)
(* way, if the delete is repeated and faults are finite: no retry is        *)
(* refused because an earlier one did part of the work.                     *)
DeleteCompletes == (disk # NoState /\ disk.server # 0) ~> (disk = NoState)
=============================================================================
