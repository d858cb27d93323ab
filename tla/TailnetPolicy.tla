---------------------------- MODULE TailnetPolicy ----------------------------
(***************************************************************************)
(* The policy file of one tailnet and the commands that write it           *)
(* (internal/provider/tailscale/policy*.go and their callers).             *)
(*                                                                         *)
(* Servers share the file: a tag has one owner entry whoever carries it,   *)
(* and an SSH rule belongs to every server with the same destination tags. *)
(* Each server records in its state what it wrote.  server create,         *)
(* ssh-policy and doctor --fix add entries, ssh-policy revokes the accept  *)
(* rule of the automation node, reconcile removes what no state and no     *)
(* device gives evidence of.  They hold the lock of the tailnet; deletes,  *)
(* edits of the configurations and the administrators of the tailnet do    *)
(* not, and a write is refused when the file changed after it was read.    *)
(*                                                                         *)
(* Abstracted: one admin user; rules and owners as sets (a second copy of  *)
(* a rule is the rule); serverpro's own tags only, and what administrators *)
(* write beside them as the tags their definitions refer to; rules for     *)
(* root and the tests of the file; the text of the file.                   *)
(***************************************************************************)
EXTENDS Naturals, FiniteSets

CONSTANTS Proc, Server,
          Tag,       \* the tags of servers
          AutoTag,      \* mesh.AutomationSourceTag
          TagsOf,    \* TagsOf[s]: access.tailscale.tags of s
          Choices,   \* Choices[s]: the configurations of s, see Config
          Default,   \* Default[s]: the one an import writes
          MaxEdits,  \* bound on what operators and administrators change
          None

Config == [ssh   : SUBSET Tag,             \* SSHRuleTags
           auto  : BOOLEAN,                \* AutomationSource
           human : {"check", "accept"}]    \* HumanSSHAction

ASSUME AutoAssumption == AutoTag \notin Tag
ASSUME TagsOfAssumption == TagsOf \in [Server -> (SUBSET Tag) \ {{}}]
ASSUME ChoicesAssumption ==
    \A s \in Server :
        /\ Default[s] \in Choices[s]
        /\ \A c \in Choices[s] : c \in Config /\ c.ssh # {} /\ c.ssh \subseteq TagsOf[s]
ASSUME MaxEditsAssumption == MaxEdits \in Nat

(* What serverpro writes into the ssh section: the human rule with either   *)
(* action, from autogroup:admin, and the accept rule of the automation node.*)
Rule == [from : {"admin", "node"}, action : {"check", "accept"}, dst : SUBSET Tag]
HumanRule(c) == [from |-> "admin", action |-> c.human, dst |-> c.ssh]
AutoRule(c) == [from |-> "node", action |-> "accept", dst |-> c.ssh]

Policy == [owners : SUBSET (Tag \union {AutoTag}),  \* owned by autogroup:admin
           rules  : SUBSET Rule,
           refs   : SUBSET Tag]  \* named as owners by administrators' tags

(* What the state of a server records of the policy. *)
Record == [tags    : SUBSET Tag,   \* Tailscale.Tags, of its device
           owners  : SUBSET Tag,   \* PolicyTagOwners
           rule    : BOOLEAN,      \* PolicySSHRule
           sshTags : SUBSET Tag,   \* PolicySSHTags
           source  : BOOLEAN]      \* PolicySSHAutomationSource

VARIABLES policy,   \* the file at Tailscale
          config,   \* config[s]: the server's configuration file
          st,       \* st[s]: its record, None when it is not registered
          devices,  \* the servers with a live device
          kind,     \* kind[p]: the command of p
          at,       \* at[p]: its next step
          srv,      \* srv[p]: the server it is about
          cfg,      \* cfg[p]: the configuration it loaded
          read,     \* read[p]: the policy it read, with its ETag
          plan,     \* plan[p]: what its reconcile previewed
          evidence, \* evidence[p]: the tags its reconcile found in states
          applied,  \* history: applied[s] is the configuration that the last
                    \* write for s put in force, None when it went unrecorded
                    \* or anything but a serverpro command may have undone it
          edits     \* edits so far

job == <<kind, srv, cfg, plan, evidence>>
vars == <<policy, config, st, devices, at, read, applied, edits, job>>

Fresh == [tags |-> {}, owners |-> {}, rule |-> FALSE, sshTags |-> {}, source |-> FALSE]
Plan == [owners : SUBSET (Tag \union {AutoTag}), rules : SUBSET Rule]

ASSUME NoneAssumption ==
    None \notin Server /\ None \notin Config /\ None \notin Record
        /\ None \notin Policy /\ None \notin Plan

TypeOK ==
    /\ policy \in Policy
    /\ \A s \in Server : config[s] \in Choices[s]
    /\ st \in [Server -> Record \union {None}]
    /\ devices \subseteq Server
    /\ kind \in [Proc -> {"idle", "create", "fix", "sshPolicy", "reconcile"}]
    /\ at \in [Proc -> {"idle", "ensure", "publish", "record", "sharers", "revoke",
                        "unpublish", "validate", "bind", "preview", "confirm", "apply"}]
    /\ srv \in [Proc -> Server \union {None}]
    /\ cfg \in [Proc -> Config \union {None}]
    /\ read \in [Proc -> Policy \union {None}]
    /\ plan \in [Proc -> Plan \union {None}]
    /\ evidence \in [Proc -> SUBSET (Tag \union {AutoTag})]
    /\ applied \in [Server -> Config \union {None}]
    /\ edits \in 0 .. MaxEdits
    /\ Cardinality({p \in Proc : kind[p] # "idle"}) <= 1

Init ==
    /\ policy = [owners |-> {}, rules |-> {}, refs |-> {}]
    /\ config \in {c \in [Server -> UNION {Choices[s] : s \in Server}] :
                        \A s \in Server : c[s] \in Choices[s]}
    /\ st = [s \in Server |-> None]
    /\ devices = {}
    /\ kind = [p \in Proc |-> "idle"]
    /\ at = [p \in Proc |-> "idle"]
    /\ srv = [p \in Proc |-> None]
    /\ cfg = [p \in Proc |-> None]
    /\ read = [p \in Proc |-> None]
    /\ plan = [p \in Proc |-> None]
    /\ evidence = [p \in Proc |-> {}]
    /\ applied = [s \in Server |-> None]
    /\ edits = 0

Registered == {s \in Server : st[s] # None}
-----------------------------------------------------------------------------
(* The document *)

(* EnsureServerproPolicy: ensureTagOwners, ensureSSHRule, which leaves one  *)
(* human rule for these tags, and ensureAutomationSSHRule, which adds only. *)
HumanMatches(doc, c) ==
    {r \in doc.rules : r.from = "admin" /\ r.dst = c.ssh}

AddedOwners(doc, s, c) ==
    (TagsOf[s] \union (IF c.auto THEN {AutoTag} ELSE {})) \ doc.owners

Ensured(doc, s, c) ==
    [doc EXCEPT
        !.owners = @ \union AddedOwners(doc, s, c),
        !.rules = (@ \ HumanMatches(doc, c)) \union {HumanRule(c)}
                    \union (IF c.auto THEN {AutoRule(c)} ELSE {})]

(* removeAutomationSSHRule *)
Revoked(doc, c) == [doc EXCEPT !.rules = @ \ {AutoRule(c)}]

(* usedPolicyTags and serverproPolicyReconcilePlan *)
DeviceTags == UNION {TagsOf[s] : s \in devices}
RemovableDespiteReferences(doc, protected) == doc.owners \ (protected \union DeviceTags)
Removable(doc, protected) == doc.owners \ (protected \union DeviceTags \union doc.refs)

(* plannedServerproSSHRule: the whole accept rule goes with the tag of the  *)
(* node, any other rule loses its removable destinations.                   *)
Stale(r, removable) ==
    IF r.from = "node" /\ AutoTag \in removable THEN r.dst ELSE r.dst \intersect removable

PlanFor(doc, protected) ==
    LET removable == Removable(doc, protected)
    IN  [owners |-> removable,
         rules  |-> {[r EXCEPT !.dst = Stale(r, removable)] :
                        r \in {q \in doc.rules : Stale(q, removable) # {}}}]

(* removeTagOwners and rewritePlannedSSHRules: a planned rule stands for    *)
(* every rule of its shape.                                                 *)
Doomed(r, planned) ==
    UNION {q.dst : q \in {q \in planned : q.from = r.from /\ q.action = r.action}}

Without(doc, pl) ==
    [doc EXCEPT
        !.owners = @ \ pl.owners,
        !.rules = {r \in {[q EXCEPT !.dst = @ \ Doomed(q, pl.rules)] : q \in @} :
                        r.dst # {}}]

(* registeredTailnetTags over stateTailnetPolicyTags *)
Recorded(s) ==
    st[s].tags \union st[s].owners \union st[s].sshTags
        \union (IF st[s].source THEN {AutoTag} ELSE {})
ProtectedTags == UNION {Recorded(s) : s \in Registered}
-----------------------------------------------------------------------------
(* Commands *)

(* LockTailnetPolicy *)
PolicyShared == TRUE
PolicyFree == \A p \in Proc : kind[p] = "idle"

Enter(p, k, step) ==
    /\ kind[p] = "idle"
    /\ PolicyFree
    /\ kind' = [kind EXCEPT ![p] = k]
    /\ at' = [at EXCEPT ![p] = step]

Leave(p) ==
    /\ kind' = [kind EXCEPT ![p] = "idle"]
    /\ at' = [at EXCEPT ![p] = "idle"]
    /\ srv' = [srv EXCEPT ![p] = None]
    /\ cfg' = [cfg EXCEPT ![p] = None]
    /\ read' = [read EXCEPT ![p] = None]
    /\ plan' = [plan EXCEPT ![p] = None]
    /\ evidence' = [evidence EXCEPT ![p] = {}]

Go(p, step) == at' = [at EXCEPT ![p] = step]

(* server create up to initializeProvisionState, server ssh-policy and      *)
(* doctor --fix up to their policy lock.                                    *)
Start(p, k, s) ==
    /\ k = "create" \/ s \in Registered
    /\ Enter(p, k, "ensure")
    /\ srv' = [srv EXCEPT ![p] = s]
    /\ cfg' = [cfg EXCEPT ![p] = config[s]]
    /\ st' = IF s \in Registered THEN st ELSE [st EXCEPT ![s] = Fresh]
    /\ UNCHANGED <<policy, config, devices, read, plan, evidence, applied, edits>>

(* readPolicyFile *)
ReadPolicy(p) ==
    /\ at[p] \in {"ensure", "revoke"}
    /\ read' = [read EXCEPT ![p] = policy]
    /\ Go(p, IF at[p] = "ensure" THEN "publish" ELSE "unpublish")
    /\ UNCHANGED <<policy, config, st, devices, applied, edits, job>>

(* publishPolicyFile: the If-Match header; nothing is posted when nothing   *)
(* changed (publishPolicyChange).                                           *)
PostAnyway(p, doc) == policy' = IF doc = read[p] THEN policy ELSE doc
Post(p, doc) ==
    /\ doc # read[p] => policy = read[p]
    /\ policy' = IF doc = read[p] THEN policy ELSE doc

Publish(p) ==
    /\ at[p] = "publish"
    /\ Post(p, Ensured(read[p], srv[p], cfg[p]))
    /\ Go(p, "record")
    /\ LET inForce == IF config[srv[p]] = cfg[p] /\ policy = read[p] THEN cfg[p] ELSE None
       IN  applied' = [applied EXCEPT ![srv[p]] = inForce]
    /\ UNCHANGED <<config, st, devices, read, edits, job>>

(* RecordTailscalePolicyChange, with the change of the write just done. *)
Change(s, record, doc, c) ==
    LET wrote == HumanMatches(doc, c) # {HumanRule(c)}
        tags == IF wrote \/ record.rule \/ (c.auto /\ record.sshTags = {})
                THEN c.ssh ELSE record.sshTags
    IN  [record EXCEPT !.owners = @ \union (AddedOwners(doc, s, c) \ {AutoTag}),
                       !.rule = @ \/ wrote,
                       !.sshTags = tags,
                       !.source = c.auto]

RecordChange(p) ==
    /\ at[p] = "record"
    /\ st' = [st EXCEPT ![srv[p]] = Change(srv[p], @, read[p], cfg[p])]
    /\ Go(p, IF kind[p] = "sshPolicy" /\ ~cfg[p].auto THEN "sharers" ELSE "validate")
    /\ UNCHANGED <<policy, config, devices, read, applied, edits, job>>

(* automationRuleSharers *)
NoSharers(s, c) == {}
Sharers(s, c) ==
    {o \in Registered \ {s} : st[o].source /\ config[o].ssh = c.ssh}

DecideRevoke(p) ==
    /\ at[p] = "sharers"
    /\ Go(p, IF Sharers(srv[p], cfg[p]) = {} THEN "revoke" ELSE "validate")
    /\ UNCHANGED <<policy, config, st, devices, read, applied, edits, job>>

(* RemoveAutomationSSHRule *)
Revoke(p) ==
    /\ at[p] = "unpublish"
    /\ Post(p, Revoked(read[p], cfg[p]))
    /\ Go(p, "validate")
    /\ UNCHANGED <<config, st, devices, read, applied, edits, job>>

(* ValidateSSHPolicy, of the live policy: some rule lets the admin user in  *)
(* on one of the tags, and the rules that the configuration asks for.       *)
Valid(s, c) ==
    /\ \E r \in policy.rules : r.dst \intersect TagsOf[s] # {}
    /\ c.auto => AutoRule(c) \in policy.rules
    /\ c.human = "accept" => HumanRule(c) \in policy.rules

(* ssh-policy and doctor end here; create goes on to its server. *)
Validate(p) ==
    /\ at[p] = "validate"
    /\ Valid(srv[p], cfg[p])
    /\ IF kind[p] = "create" THEN Go(p, "bind") /\ UNCHANGED <<read, job>> ELSE Leave(p)
    /\ UNCHANGED <<policy, config, st, devices, applied, edits>>

(* waitTailscaleDevice, and the end of the create *)
Bind(p) ==
    /\ at[p] = "bind"
    /\ devices' = devices \union {srv[p]}
    /\ st' = [st EXCEPT ![srv[p]].tags = TagsOf[srv[p]]]
    /\ Leave(p)
    /\ UNCHANGED <<policy, config, applied, edits>>

(* An error or the end of the process at any step: a refused or unanswered  *)
(* request, a failed write of the state, a policy that does not validate,   *)
(* an operator who declines.  A post whose answer was lost is a Publish     *)
(* before this step.                                                        *)
Fail(p) ==
    /\ kind[p] # "idle"
    /\ applied' = IF at[p] = "record" THEN [applied EXCEPT ![srv[p]] = None] ELSE applied
    /\ Leave(p)
    /\ UNCHANGED <<policy, config, st, devices, edits>>
-----------------------------------------------------------------------------
(* tailnet reconcile *)

(* runTailnetReconcile up to registeredTailnetTags *)
BeginReconcile(p) ==
    /\ Enter(p, "reconcile", "preview")
    /\ evidence' = [evidence EXCEPT ![p] = ProtectedTags]
    /\ UNCHANGED <<policy, config, st, devices, srv, cfg, read, plan, applied, edits>>

(* PlanServerproPolicyReconcile; an empty plan ends the command. *)
Preview(p) ==
    /\ at[p] = "preview"
    /\ LET planned == PlanFor(policy, evidence[p]) IN
        IF planned.owners = {}
        THEN Leave(p)
        ELSE /\ plan' = [plan EXCEPT ![p] = planned]
             /\ Go(p, "confirm")
             /\ UNCHANGED <<kind, srv, cfg, evidence, read>>
    /\ UNCHANGED <<policy, config, st, devices, applied, edits>>

(* The operator approves; ApplyServerproPolicyReconcile plans again and     *)
(* refuses another plan.                                                    *)
Replan(p) ==
    /\ at[p] = "confirm"
    /\ PlanFor(policy, evidence[p]) = plan[p]
    /\ read' = [read EXCEPT ![p] = policy]
    /\ Go(p, "apply")
    /\ UNCHANGED <<policy, config, st, devices, applied, edits, job>>

Apply(p) ==
    /\ at[p] = "apply"
    /\ Post(p, Without(read[p], plan[p]))
    /\ Leave(p)
    /\ UNCHANGED <<config, st, devices, applied, edits>>
-----------------------------------------------------------------------------
(* What goes on beside the policy lock *)

Untouched(s) == \A p \in Proc : srv[p] # s

(* server delete, which takes its locks against every command on the server *)
(* and never edits the policy.                                              *)
DeleteServer(s) ==
    /\ s \in Registered
    /\ Untouched(s)
    /\ st' = [st EXCEPT ![s] = None]
    /\ devices' = devices \ {s}
    /\ applied' = [applied EXCEPT ![s] = None]
    /\ UNCHANGED <<policy, config, at, read, edits, job>>

(* server import of a server whose local files are gone: it publishes the   *)
(* state under the policy lock (publishImportArtifacts).                    *)
Import(s) ==
    /\ s \in devices \ Registered
    /\ PolicyFree
    /\ st' = [st EXCEPT ![s] = [Fresh EXCEPT !.tags = TagsOf[s]]]
    /\ config' = [config EXCEPT ![s] = Default[s]]
    /\ UNCHANGED <<policy, devices, at, read, applied, edits, job>>

DeviceLeaves(s) ==
    /\ s \in devices
    /\ devices' = devices \ {s}
    /\ UNCHANGED <<policy, config, st, at, read, applied, edits, job>>

Edit == edits < MaxEdits /\ edits' = edits + 1

LoseFiles(s) ==
    /\ Edit
    /\ s \in Registered
    /\ Untouched(s)
    /\ st' = [st EXCEPT ![s] = None]
    /\ applied' = [applied EXCEPT ![s] = None]
    /\ UNCHANGED <<policy, config, devices, at, read, job>>

EditConfig(s) ==
    /\ Edit
    /\ \E c \in Choices[s] \ {config[s]} : config' = [config EXCEPT ![s] = c]
    /\ applied' = [applied EXCEPT ![s] = None]
    /\ UNCHANGED <<policy, st, devices, at, read, job>>

HandRules == UNION {{HumanRule(c), AutoRule(c)} : c \in UNION {Choices[s] : s \in Server}}

AdminAdds ==
    /\ Edit
    /\ \/ \E t \in Tag : policy' = [policy EXCEPT !.refs = @ \union {t}]
       \/ \E t \in Tag \union {AutoTag} : policy' = [policy EXCEPT !.owners = @ \union {t}]
       \/ \E r \in HandRules : policy' = [policy EXCEPT !.rules = @ \union {r}]
    /\ UNCHANGED <<config, st, devices, at, read, applied, job>>

AdminRemoves ==
    /\ Edit
    /\ \/ \E t \in policy.owners : policy' = [policy EXCEPT !.owners = @ \ {t}]
       \/ \E r \in policy.rules : policy' = [policy EXCEPT !.rules = @ \ {r}]
    /\ applied' = [s \in Server |-> None]
    /\ UNCHANGED <<config, st, devices, at, read, job>>
-----------------------------------------------------------------------------
Next ==
    \/ \E p \in Proc :
        \/ \E s \in Server, k \in {"create", "fix", "sshPolicy"} : Start(p, k, s)
        \/ ReadPolicy(p) \/ Publish(p) \/ RecordChange(p) \/ DecideRevoke(p)
        \/ Revoke(p) \/ Validate(p) \/ Bind(p) \/ Fail(p)
        \/ BeginReconcile(p) \/ Preview(p) \/ Replan(p) \/ Apply(p)
    \/ \E s \in Server :
        DeleteServer(s) \/ Import(s) \/ DeviceLeaves(s) \/ LoseFiles(s) \/ EditConfig(s)
    \/ AdminAdds \/ AdminRemoves

Spec == Init /\ [][Next]_vars
-----------------------------------------------------------------------------
(* Properties *)

(* What a complete server (its device is recorded) had put in force and     *)
(* recorded stays in force: no other server's command, no revoke and no     *)
(* reconcile takes its tags, its human rule (whose action it shares with    *)
(* the servers of the same tags) or its accept rule away.                   *)
InForce(s, c) ==
    /\ TagsOf[s] \subseteq policy.owners
    /\ HumanMatches(policy, c) # {}
    /\ c.auto => AutoRule(c) \in policy.rules /\ AutoTag \in policy.owners
AccessKept ==
    \A s \in Registered :
        applied[s] # None /\ st[s].tags # {} => InForce(s, applied[s])

(* A write loses no edit that an administrator made after the file was      *)
(* read: a publish removes only the human rules it replaces, a revoke only  *)
(* its accept rule, a reconcile only what was previewed.                    *)
Lost == (policy.owners \ policy'.owners) \union (policy.refs \ policy'.refs)
LostRules == policy.rules \ policy'.rules
NoLostEdit ==
    [][\A p \in Proc :
        /\ Publish(p) => Lost = {} /\ LostRules \subseteq HumanMatches(policy, cfg[p])
        /\ Revoke(p) => Lost = {} /\ LostRules \subseteq {AutoRule(cfg[p])}
        /\ Apply(p) => /\ Lost \subseteq plan[p].owners
                      /\ policy' = Without(policy, plan[p])]_vars

(* A reconcile removes no tag owner that a registered server records or an  *)
(* administrator's tag refers to at the moment it writes, whatever happened *)
(* while its preview waited for the operator.                               *)
ReconcileSpares ==
    [][\A p \in Proc :
        Apply(p) => Lost \intersect (ProtectedTags \union policy.refs) = {}]_vars

(* USAGE.md: ssh-policy "removes the rule only when no other registered     *)
(* server on the tailnet records it".                                       *)
RevokesOnlyUnrecorded ==
    [][\A p \in Proc :
        Revoke(p) /\ LostRules # {} =>
            ~\E o \in Registered \ {srv[p]} :
                st[o].source /\ st[o].sshTags = cfg[p].ssh]_vars
=============================================================================
