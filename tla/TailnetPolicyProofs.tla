------------------------- MODULE TailnetPolicyProofs -------------------------
(***************************************************************************)
(* What holds of TailnetPolicy for any number of commands, servers, tags   *)
(* and configurations.                                                     *)
(*                                                                         *)
(* The policy lock keeps the commands apart, so the proofs are about what  *)
(* happens beside it: administrators edit the file between a read and the  *)
(* write that follows, servers are deleted while a preview waits, and      *)
(* configurations are edited between the decision to revoke and the        *)
(* revocation.                                                             *)
(***************************************************************************)
EXTENDS TailnetPolicy, FiniteSetTheorems, TLAPS

Working == {"create", "fix", "sshPolicy"}
AfterWrite == {"record", "sharers", "revoke", "unpublish", "validate", "bind"}

(* The type invariant, but for the count of the commands.                   *)
WellTyped ==
    /\ policy \in Policy
    /\ \A s \in Server : config[s] \in Choices[s]
    /\ config \in [Server -> Config]
    /\ st \in [Server -> Record \union {None}]
    /\ devices \subseteq Server
    /\ kind \in [Proc -> {"idle", "create", "fix", "sshPolicy", "reconcile"}]
    /\ at \in [Proc -> {"idle", "ensure", "publish", "record", "sharers", "revoke",
                        "unpublish", "validate", "bind", "preview", "confirm", "apply"}]
    /\ srv \in [Proc -> Server \union {None}]
    /\ cfg \in [Proc -> Config \union {None}]
    /\ read \in [Proc -> Policy \union {None}]
    /\ plan \in [Proc -> Plan \union {None}]
    /\ evidence \in [Proc -> SUBSET (Tag \union {AutoTag})]
    /\ applied \in [Server -> Config \union {None}]
    /\ edits \in 0 .. MaxEdits

(* A plan for a document rests on the evidence: it names owners that no     *)
(* state and no administrator's tag needs, and takes destinations from      *)
(* rules only with their owner, or with the tag of the automation node.     *)
Justified(pl, doc, protected) ==
    /\ pl.owners \subseteq doc.owners
    /\ pl.owners \intersect (protected \union doc.refs) = {}
    /\ \A r \in pl.rules :
         r.dst \subseteq pl.owners \/ (r.from = "node" /\ AutoTag \in pl.owners)

(* LockTailnetPolicy *)
OneCommand == \A p, q \in Proc : kind[p] # "idle" /\ kind[q] # "idle" => p = q

(* What a command has in hand at each step, and that nobody deletes the     *)
(* server it works on.                                                      *)
JobRight(p) ==
    /\ kind[p] = "idle" => at[p] = "idle" /\ srv[p] = None
    /\ kind[p] = "reconcile" => at[p] \in {"preview", "confirm", "apply"} /\ srv[p] = None
    /\ kind[p] \in Working =>
         /\ at[p] \in {"ensure", "publish"} \union AfterWrite
         /\ srv[p] \in Registered /\ cfg[p] \in Choices[srv[p]]
    /\ at[p] \in {"publish", "record", "unpublish", "apply"} => read[p] \in Policy
    /\ at[p] \in {"confirm", "apply"} => plan[p] \in Plan /\ plan[p].owners # {}
    /\ at[p] = "apply" => Justified(plan[p], read[p], evidence[p])
JobsRight == \A p \in Proc : JobRight(p)

(* While a reconcile waits for its operator, states only go: what it found  *)
(* in them still covers what is there.                                      *)
EvidenceHolds == \A p \in Proc :
    kind[p] = "reconcile" => ProtectedTags \subseteq evidence[p]

JobInv == WellTyped /\ OneCommand /\ JobsRight /\ EvidenceHolds

(* What is in force for a server is its configuration, and, but for the     *)
(* moment between the write and its record, its state says so.              *)
Recording(s) == \E p \in Proc : srv[p] = s /\ at[p] = "record"
AppliedRight ==
    /\ \A s \in Server : applied[s] # None =>
         /\ s \in Registered /\ applied[s] = config[s]
         /\ Recording(s) \/ st[s].source = applied[s].auto
    /\ \A p \in Proc : at[p] = "record" => applied[srv[p]] \in {None, cfg[p]}

TagsWhole == \A s \in Registered : st[s].tags \in {{}, TagsOf[s]}

(* A command that goes on to revoke an accept rule has seen that nobody     *)
(* else has it in force, and nobody can have put it in force since.         *)
RevokeRight == \A p \in Proc :
    /\ at[p] = "sharers" => ~st[srv[p]].source
    /\ at[p] \in {"revoke", "unpublish"} => \A s \in Server :
         applied[s] # None /\ applied[s].auto => applied[s].ssh # cfg[p].ssh

(* Access is kept from the write on, not only once the server is complete.  *)
Covered(s) ==
    st[s].tags # {} \/ \E p \in Proc : srv[p] = s /\ at[p] \in AfterWrite
AllInForce == \A s \in Server :
    applied[s] # None /\ Covered(s) => InForce(s, applied[s])

AccessInv == JobInv /\ AppliedRight /\ TagsWhole /\ RevokeRight /\ AllInForce
-----------------------------------------------------------------------------
(* The documents that the commands write *)

LEMMA ChoiceRight ==
  ASSUME NEW s \in Server, NEW c \in Choices[s]
  PROVE  c \in Config /\ c.ssh # {} /\ c.ssh \subseteq TagsOf[s]
  BY ChoicesAssumption

LEMMA RulesTyped ==
  ASSUME NEW c \in Config
  PROVE  HumanRule(c) \in Rule /\ AutoRule(c) \in Rule
  BY DEF HumanRule, AutoRule, Rule, Config

(* A document with two of its fields replaced.                             *)
LEMMA TwoFields ==
  ASSUME NEW doc \in Policy, NEW owners, NEW rules
  PROVE  [doc EXCEPT !.owners = owners, !.rules = rules]
           = [owners |-> owners, rules |-> rules, refs |-> doc.refs]
<1>1. doc = [owners |-> doc.owners, rules |-> doc.rules, refs |-> doc.refs]
  BY DEF Policy
<1>2. [doc EXCEPT !.owners = owners]
        = [owners |-> owners, rules |-> doc.rules, refs |-> doc.refs]
  BY <1>1
<1>3. \A d : d = [owners |-> owners, rules |-> doc.rules, refs |-> doc.refs]
        => [d EXCEPT !.rules = rules]
             = [owners |-> owners, rules |-> rules, refs |-> doc.refs]
  OBVIOUS
<1>4. [doc EXCEPT !.owners = owners, !.rules = rules]
         = [[doc EXCEPT !.owners = owners] EXCEPT !.rules = rules]
  OBVIOUS
<1> QED BY <1>2, <1>3, <1>4

LEMMA EnsuredShape ==
  ASSUME NEW doc \in Policy, NEW s \in Server, NEW c \in Config
  PROVE  LET new == Ensured(doc, s, c)
         IN /\ new \in Policy
            /\ new.owners = doc.owners \union AddedOwners(doc, s, c)
            /\ new.refs = doc.refs
            /\ new.rules = (doc.rules \ HumanMatches(doc, c)) \union {HumanRule(c)}
                             \union (IF c.auto THEN {AutoRule(c)} ELSE {})
<1> DEFINE rules == (doc.rules \ HumanMatches(doc, c)) \union {HumanRule(c)}
                             \union (IF c.auto THEN {AutoRule(c)} ELSE {})
           owners == doc.owners \union AddedOwners(doc, s, c)
<1>1. Ensured(doc, s, c) = [doc EXCEPT !.owners = owners, !.rules = rules]
  BY DEF Ensured, Policy
<1>2. rules \in SUBSET Rule
  BY RulesTyped DEF Policy
<1>3. owners \in SUBSET (Tag \union {AutoTag})
  BY TagsOfAssumption DEF AddedOwners, Policy
<1> HIDE DEF rules, owners
<1>4. [doc EXCEPT !.owners = owners, !.rules = rules]
        = [owners |-> owners, rules |-> rules, refs |-> doc.refs]
  BY TwoFields
<1>5. doc.refs \in SUBSET Tag
  BY DEF Policy
<1> QED BY <1>1, <1>2, <1>3, <1>4, <1>5 DEF Policy, rules, owners

LEMMA RevokedShape ==
  ASSUME NEW doc \in Policy, NEW c \in Config
  PROVE  LET new == Revoked(doc, c)
         IN /\ new \in Policy
            /\ new.owners = doc.owners /\ new.refs = doc.refs
            /\ new.rules = doc.rules \ {AutoRule(c)}
  BY DEF Revoked, Policy

LEMMA WithoutShape ==
  ASSUME NEW doc \in Policy, NEW pl \in Plan
  PROVE  LET new == Without(doc, pl)
         IN /\ new \in Policy
            /\ new.owners = doc.owners \ pl.owners /\ new.refs = doc.refs
            /\ new.rules = {r \in {[q EXCEPT !.dst = @ \ Doomed(q, pl.rules)] : q \in doc.rules} :
                              r.dst # {}}
<1> DEFINE rules == {r \in {[q EXCEPT !.dst = @ \ Doomed(q, pl.rules)] : q \in doc.rules} :
                        r.dst # {}}
           owners == doc.owners \ pl.owners
<1>1. Without(doc, pl) = [doc EXCEPT !.owners = owners, !.rules = rules]
  BY DEF Without, Policy
<1>2. rules \in SUBSET Rule
  <2>1. \A q \in Rule : \A D : [q EXCEPT !.dst = @ \ D] \in Rule
    BY DEF Rule
  <2> QED BY <2>1 DEF Policy
<1>3. owners \in SUBSET (Tag \union {AutoTag})
  BY DEF Policy
<1> HIDE DEF rules, owners
<1>4. [doc EXCEPT !.owners = owners, !.rules = rules]
        = [owners |-> owners, rules |-> rules, refs |-> doc.refs]
  BY TwoFields
<1>5. doc.refs \in SUBSET Tag
  BY DEF Policy
<1> QED BY <1>1, <1>2, <1>3, <1>4, <1>5 DEF Policy, rules, owners

(* A rule that is named in no planned destination stays as it is.           *)
LEMMA RuleSurvives ==
  ASSUME NEW doc \in Policy, NEW pl \in Plan, NEW r \in doc.rules, r.dst # {},
         \A q \in pl.rules : q.from = r.from => q.dst \intersect r.dst = {}
  PROVE  r \in Without(doc, pl).rules
<1>1. r \in Rule /\ Doomed(r, pl.rules) \intersect r.dst = {}
  BY DEF Doomed, Policy
<1>2. [r EXCEPT !.dst = @ \ Doomed(r, pl.rules)] = r
  <2> DEFINE D == Doomed(r, pl.rules)
  <2>1. r.dst \ D = r.dst
    BY <1>1
  <2> HIDE DEF D
  <2>2. [r EXCEPT !.dst = @ \ D] = r
    BY <1>1, <2>1 DEF Rule
  <2> QED BY <2>2 DEF D
<1> QED BY <1>2, WithoutShape

LEMMA PlanShape ==
  ASSUME NEW doc \in Policy, NEW protected
  PROVE  /\ PlanFor(doc, protected) \in Plan
         /\ Justified(PlanFor(doc, protected), doc, protected)
<1> DEFINE removable == Removable(doc, protected)
           planned == {[r EXCEPT !.dst = Stale(r, removable)] :
                          r \in {q \in doc.rules : Stale(q, removable) # {}}}
<1>1. PlanFor(doc, protected) = [owners |-> removable, rules |-> planned]
  BY DEF PlanFor
<1>2. /\ removable \subseteq doc.owners
      /\ removable \intersect (protected \union doc.refs) = {}
      /\ removable \subseteq Tag \union {AutoTag}
  BY DEF Removable, Policy
<1>3. \A r \in doc.rules : r \in Rule
  BY DEF Policy
<1>4. ASSUME NEW r \in Rule
      PROVE  /\ Stale(r, removable) \subseteq r.dst
             /\ Stale(r, removable) \subseteq removable
                  \/ (r.from = "node" /\ AutoTag \in removable)
  BY DEF Stale
<1> HIDE DEF removable
<1>5. ASSUME NEW r \in Rule
      PROVE  LET new == [r EXCEPT !.dst = Stale(r, removable)]
             IN new \in Rule /\ new.from = r.from /\ new.dst = Stale(r, removable)
  BY <1>4 DEF Rule
<1>6. planned \subseteq Rule
  BY <1>3, <1>5
<1>7. ASSUME NEW r \in planned
      PROVE  r.dst \subseteq removable \/ (r.from = "node" /\ AutoTag \in removable)
  <2>1. PICK q \in doc.rules : r = [q EXCEPT !.dst = Stale(q, removable)]
    OBVIOUS
  <2>2. q \in Rule /\ r.from = q.from /\ r.dst = Stale(q, removable)
    BY <1>3, <1>5, <2>1
  <2> QED BY <1>4, <2>2
<1> HIDE DEF planned
<1> QED BY <1>1, <1>2, <1>6, <1>7 DEF Justified, Plan

(* publishPolicyFile: what is written is the document made from the file as *)
(* it was, or nothing.                                                      *)
LEMMA PostShape ==
  ASSUME NEW p, NEW doc, Post(p, doc)
  PROVE  \/ doc # read[p] /\ policy = read[p] /\ policy' = doc
         \/ doc = read[p] /\ policy' = policy
  BY DEF Post
-----------------------------------------------------------------------------
(* The commands and the evidence *)

LEMMA ProtectedMember ==
  ASSUME NEW t
  PROVE  t \in ProtectedTags <=> \E s \in Registered : t \in Recorded(s)
  BY DEF ProtectedTags

(* A state that goes takes evidence away and adds none.                     *)
LEMMA StatesOnlyGo ==
  ASSUME \A s \in Server : st'[s] = None \/ st'[s] = st[s]
  PROVE  ProtectedTags' \subseteq ProtectedTags
<1>1. SUFFICES ASSUME NEW t \in ProtectedTags' PROVE t \in ProtectedTags
  OBVIOUS
<1>2. PICK s \in Registered' : t \in Recorded(s)'
  BY <1>1 DEF ProtectedTags
<1>3. s \in Registered /\ Recorded(s)' = Recorded(s)
  BY <1>2 DEF Registered, Recorded
<1> QED BY <1>2, <1>3, ProtectedMember

(* What a step beside the lock owes the commands.                           *)
LEMMA BesideKeeps ==
  ASSUME JobInv, WellTyped', UNCHANGED <<at, read, job>>,
         \A p \in Proc : srv[p] \in Registered => srv[p] \in Registered',
         PolicyFree \/ \A s \in Server : st'[s] = None \/ st'[s] = st[s]
  PROVE  JobInv'
<1>1. OneCommand'
  BY DEF JobInv, OneCommand, job
<1>2. JobsRight'
  <2> SUFFICES ASSUME NEW p \in Proc PROVE JobRight(p)'
    BY DEF JobsRight
  <2>1. JobRight(p)
    BY DEF JobInv, JobsRight
  <2> QED BY <2>1 DEF JobRight, job, Justified
<1>3. EvidenceHolds'
  <2>1. CASE PolicyFree
    BY <2>1 DEF EvidenceHolds, PolicyFree, job
  <2>2. CASE \A s \in Server : st'[s] = None \/ st'[s] = st[s]
    BY <2>2, StatesOnlyGo DEF JobInv, EvidenceHolds, job
  <2> QED BY <2>1, <2>2
<1> QED BY <1>1, <1>2, <1>3 DEF JobInv

(* What a step of a command owes itself: the others are not running.        *)
OthersWait(p) == \A q \in Proc \ {p} :
    /\ kind'[q] = kind[q] /\ at'[q] = at[q] /\ srv'[q] = srv[q] /\ cfg'[q] = cfg[q]
    /\ read'[q] = read[q] /\ plan'[q] = plan[q] /\ evidence'[q] = evidence[q]

LEMMA CommandKeeps ==
  ASSUME JobInv, WellTyped', NEW p \in Proc, OthersWait(p),
         kind[p] # "idle" \/ PolicyFree,
         JobRight(p)',
         kind'[p] = "reconcile" => ProtectedTags' \subseteq evidence'[p]
  PROVE  JobInv'
<1>1. \A q \in Proc \ {p} : kind[q] = "idle" /\ kind'[q] = "idle"
  BY DEF JobInv, OneCommand, PolicyFree, OthersWait
<1>2. OneCommand'
  BY <1>1 DEF OneCommand
<1>3. JobsRight'
  <2> SUFFICES ASSUME NEW q \in Proc \ {p} PROVE JobRight(q)'
    BY DEF JobsRight
  <2>1. JobRight(q)
    BY DEF JobInv, JobsRight
  <2> QED BY <1>1, <2>1 DEF JobRight, OthersWait, Working
<1>4. EvidenceHolds'
  BY <1>1 DEF EvidenceHolds
<1> QED BY <1>2, <1>3, <1>4 DEF JobInv

(* Leave: nothing is left in hand.                                          *)
LEMMA LeaveKeeps ==
  ASSUME JobInv, NEW p \in Proc, Leave(p), kind[p] # "idle",
         policy' \in Policy, UNCHANGED config, st' \in [Server -> Record \union {None}],
         devices' \subseteq Server, applied' \in [Server -> Config \union {None}],
         UNCHANGED edits
  PROVE  JobInv'
<1>1. WellTyped'
  BY DEF JobInv, WellTyped, Leave
<1>2. OthersWait(p)
  BY DEF JobInv, WellTyped, Leave, OthersWait
<1>3. kind'[p] = "idle" /\ at'[p] = "idle" /\ srv'[p] = None
  BY DEF JobInv, WellTyped, Leave
<1>4. JobRight(p)'
  BY <1>3 DEF JobRight, Working
<1> QED BY <1>1, <1>2, <1>3, <1>4, CommandKeeps
-----------------------------------------------------------------------------
(* The steps *)

(* What a command at a step has in hand.                                    *)
LEMMA InHand ==
  ASSUME JobInv, NEW p \in Proc
  PROVE  /\ at[p] # "idle" => kind[p] # "idle"
         /\ at[p] \in {"ensure", "publish"} \union AfterWrite =>
              /\ kind[p] \in Working
              /\ srv[p] \in Registered /\ srv[p] \in Server /\ st[srv[p]] \in Record
              /\ cfg[p] \in Choices[srv[p]] /\ cfg[p] \in Config
         /\ at[p] \in {"preview", "confirm", "apply"} => kind[p] = "reconcile"
<1>1. JobRight(p)
  BY DEF JobInv, JobsRight
<1>2. kind[p] \in {"idle", "reconcile"} \union Working
  BY DEF JobInv, WellTyped, Working
<1>3. kind[p] \in Working =>
         /\ srv[p] \in Server /\ st[srv[p]] \in Record /\ cfg[p] \in Config
  <2> SUFFICES ASSUME kind[p] \in Working
               PROVE  srv[p] \in Server /\ st[srv[p]] \in Record /\ cfg[p] \in Config
    OBVIOUS
  <2>1. srv[p] \in Server /\ st[srv[p]] # None
    BY <1>1 DEF JobRight, Registered
  <2>2. st[srv[p]] \in Record
    BY <2>1 DEF JobInv, WellTyped
  <2> QED BY <1>1, <2>1, <2>2, ChoiceRight DEF JobRight
<1> QED BY <1>1, <1>2, <1>3 DEF JobRight, AfterWrite

LEMMA StartKeeps ==
  ASSUME JobInv, NEW p \in Proc, NEW k \in Working, NEW s \in Server, Start(p, k, s)
  PROVE  JobInv'
<1>1. Fresh \in Record
  BY DEF Fresh, Record
<1>2. config[s] \in Config /\ config[s] \in Choices[s]
  BY DEF JobInv, WellTyped
<1>3. WellTyped'
  BY <1>1, <1>2 DEF JobInv, WellTyped, Start, Enter, Working
<1>4. OthersWait(p)
  BY DEF JobInv, WellTyped, Start, Enter, OthersWait
<1>5. kind'[p] = k /\ at'[p] = "ensure" /\ srv'[p] = s /\ cfg'[p] = config[s]
  BY DEF JobInv, WellTyped, Start, Enter
<1>6. s \in Registered'
  BY <1>1, NoneAssumption DEF JobInv, WellTyped, Start, Registered
<1>7. JobRight(p)'
  BY <1>2, <1>5, <1>6 DEF JobRight, Working
<1> QED BY <1>3, <1>4, <1>5, <1>7, CommandKeeps DEF Start, Enter, Working

LEMMA ReadPolicyKeeps ==
  ASSUME JobInv, NEW p \in Proc, ReadPolicy(p)
  PROVE  JobInv'
<1>1. WellTyped'
  BY DEF JobInv, WellTyped, ReadPolicy, Go, job
<1>2. OthersWait(p)
  BY DEF JobInv, WellTyped, ReadPolicy, Go, job, OthersWait
<1>3. kind[p] \in Working /\ kind'[p] = kind[p]
  BY InHand DEF ReadPolicy, AfterWrite, job
<1>4. JobRight(p)'
  BY <1>3 DEF JobInv, JobsRight, JobRight, WellTyped, ReadPolicy, Go, job, AfterWrite,
              Working, Registered
<1> QED BY <1>1, <1>2, <1>3, <1>4, CommandKeeps DEF Working

LEMMA PublishKeeps ==
  ASSUME JobInv, NEW p \in Proc, Publish(p)
  PROVE  JobInv'
<1>1. /\ kind[p] \in Working /\ srv[p] \in Server /\ cfg[p] \in Config
      /\ read[p] \in Policy
  BY InHand DEF JobInv, JobsRight, JobRight, Publish
<1>2. policy' \in Policy
  BY <1>1, EnsuredShape DEF JobInv, WellTyped, Publish, Post
<1>3. applied' \in [Server -> Config \union {None}]
  BY <1>1 DEF JobInv, WellTyped, Publish
<1>4. WellTyped'
  BY <1>2, <1>3 DEF JobInv, WellTyped, Publish, Go, job
<1>5. OthersWait(p)
  BY DEF JobInv, WellTyped, Publish, Go, job, OthersWait
<1>6. JobRight(p)'
  BY <1>1 DEF JobInv, JobsRight, JobRight, WellTyped, Publish, Go, job, AfterWrite,
              Working, Registered
<1> QED BY <1>1, <1>4, <1>5, <1>6, CommandKeeps DEF Working, Publish, job

(* RecordTailscalePolicyChange *)
LEMMA ChangeShape ==
  ASSUME NEW s \in Server, NEW record \in Record, NEW doc \in Policy, NEW c \in Config
  PROVE  LET new == Change(s, record, doc, c)
         IN /\ new \in Record /\ new.tags = record.tags /\ new.source = c.auto
            /\ record.owners \subseteq new.owners
<1> DEFINE owners == record.owners \union (AddedOwners(doc, s, c) \ {AutoTag})
           wrote == HumanMatches(doc, c) # {HumanRule(c)}
           rule == record.rule \/ wrote
           tags == IF wrote \/ record.rule \/ (c.auto /\ record.sshTags = {})
                   THEN c.ssh ELSE record.sshTags
<1>1. Change(s, record, doc, c)
        = [record EXCEPT !.owners = owners, !.rule = rule, !.sshTags = tags, !.source = c.auto]
  BY DEF Change
<1>2. owners \in SUBSET Tag
  BY TagsOfAssumption DEF AddedOwners, Record
<1>3. rule \in BOOLEAN
  BY DEF Record
<1>4. tags \in SUBSET Tag /\ c.auto \in BOOLEAN
  BY DEF Record, Config
<1>5. record.owners \subseteq owners
  OBVIOUS
<1> HIDE DEF owners, rule, tags
<1>6. LET new == [record EXCEPT !.owners = owners, !.rule = rule, !.sshTags = tags,
                                !.source = c.auto]
      IN new \in Record /\ new.tags = record.tags /\ new.source = c.auto /\ new.owners = owners
  BY <1>2, <1>3, <1>4 DEF Record
<1> QED BY <1>1, <1>5, <1>6

LEMMA RecordChangeKeeps ==
  ASSUME JobInv, NEW p \in Proc, RecordChange(p)
  PROVE  JobInv'
<1>1. /\ kind[p] \in Working /\ srv[p] \in Server /\ cfg[p] \in Config
      /\ read[p] \in Policy /\ st[srv[p]] \in Record
  BY InHand DEF JobInv, JobsRight, JobRight, RecordChange, AfterWrite
<1>2. Change(srv[p], st[srv[p]], read[p], cfg[p]) \in Record
  BY <1>1, ChangeShape
<1>3. WellTyped'
  BY <1>2 DEF JobInv, WellTyped, RecordChange, Go, job
<1>4. OthersWait(p)
  BY DEF JobInv, WellTyped, RecordChange, Go, job, OthersWait
<1>5. srv[p] \in Registered'
  BY <1>1, <1>2, NoneAssumption DEF JobInv, WellTyped, RecordChange, Registered
<1>6. JobRight(p)'
  BY <1>1, <1>5 DEF JobInv, JobsRight, JobRight, WellTyped, RecordChange, Go, job,
              AfterWrite, Working
<1> QED BY <1>1, <1>3, <1>4, <1>6, CommandKeeps DEF Working, RecordChange, job

LEMMA DecideRevokeKeeps ==
  ASSUME JobInv, NEW p \in Proc, DecideRevoke(p)
  PROVE  JobInv'
<1>1. kind[p] \in Working /\ kind'[p] = kind[p]
  BY InHand DEF DecideRevoke, AfterWrite, job
<1>2. WellTyped'
  BY DEF JobInv, WellTyped, DecideRevoke, Go, job
<1>3. OthersWait(p)
  BY DEF JobInv, WellTyped, DecideRevoke, Go, job, OthersWait
<1>4. JobRight(p)'
  BY <1>1 DEF JobInv, JobsRight, JobRight, WellTyped, DecideRevoke, Go, job, AfterWrite,
              Working, Registered
<1> QED BY <1>1, <1>2, <1>3, <1>4, CommandKeeps DEF Working

LEMMA RevokeKeeps ==
  ASSUME JobInv, NEW p \in Proc, Revoke(p)
  PROVE  JobInv'
<1>1. kind[p] \in Working /\ kind'[p] = kind[p] /\ cfg[p] \in Config /\ read[p] \in Policy
  BY InHand DEF JobInv, JobsRight, JobRight, Revoke, AfterWrite, job
<1>2. policy' \in Policy
  BY <1>1, RevokedShape DEF JobInv, WellTyped, Revoke, Post
<1>3. WellTyped'
  BY <1>2 DEF JobInv, WellTyped, Revoke, Go, job
<1>4. OthersWait(p)
  BY DEF JobInv, WellTyped, Revoke, Go, job, OthersWait
<1>5. JobRight(p)'
  BY <1>1 DEF JobInv, JobsRight, JobRight, WellTyped, Revoke, Go, job, AfterWrite,
              Working, Registered
<1> QED BY <1>1, <1>3, <1>4, <1>5, CommandKeeps DEF Working

LEMMA ValidateKeeps ==
  ASSUME JobInv, NEW p \in Proc, Validate(p)
  PROVE  JobInv'
<1>1. kind[p] \in Working
  BY InHand DEF Validate, AfterWrite
<1>2. CASE Leave(p)
  BY <1>1, <1>2, LeaveKeeps DEF JobInv, WellTyped, Validate, Working
<1>3. CASE Go(p, "bind") /\ UNCHANGED <<read, job>>
  <2>1. WellTyped'
    BY <1>3 DEF JobInv, WellTyped, Validate, Go, job
  <2>2. OthersWait(p)
    BY <1>3 DEF JobInv, WellTyped, Go, job, OthersWait
  <2>3. JobRight(p)'
    BY <1>1, <1>3 DEF JobInv, JobsRight, JobRight, WellTyped, Validate, Go, job,
                      AfterWrite, Working, Registered
  <2> QED BY <1>1, <1>3, <2>1, <2>2, <2>3, CommandKeeps DEF Working, job
<1> QED BY <1>2, <1>3 DEF Validate

LEMMA BindKeeps ==
  ASSUME JobInv, NEW p \in Proc, Bind(p)
  PROVE  JobInv'
<1>1. kind[p] \in Working /\ srv[p] \in Server /\ st[srv[p]] \in Record
  BY InHand DEF Bind, AfterWrite
<1>2. TagsOf[srv[p]] \in SUBSET Tag
  BY <1>1, TagsOfAssumption
<1>3. [st[srv[p]] EXCEPT !.tags = TagsOf[srv[p]]] \in Record
  BY <1>1, <1>2 DEF Record
<1>4. st' \in [Server -> Record \union {None}]
  BY <1>3 DEF JobInv, WellTyped, Bind
<1> QED BY <1>1, <1>4, LeaveKeeps DEF JobInv, WellTyped, Bind, Working

LEMMA FailKeeps ==
  ASSUME JobInv, NEW p \in Proc, Fail(p)
  PROVE  JobInv'
<1>1. applied' \in [Server -> Config \union {None}]
  BY DEF JobInv, WellTyped, Fail
<1> QED BY <1>1, LeaveKeeps DEF JobInv, WellTyped, Fail

LEMMA BeginReconcileKeeps ==
  ASSUME JobInv, NEW p \in Proc, BeginReconcile(p)
  PROVE  JobInv'
<1>1. \A s \in Registered : Recorded(s) \subseteq Tag \union {AutoTag}
  BY DEF JobInv, WellTyped, Registered, Recorded, Record
<1>2. ProtectedTags \in SUBSET (Tag \union {AutoTag})
  BY <1>1, ProtectedMember
<1>3. WellTyped'
  BY <1>2 DEF JobInv, WellTyped, BeginReconcile, Enter
<1>4. OthersWait(p)
  BY DEF JobInv, WellTyped, BeginReconcile, Enter, OthersWait
<1>5. /\ kind'[p] = "reconcile" /\ at'[p] = "preview" /\ srv'[p] = srv[p]
      /\ evidence'[p] = ProtectedTags /\ srv[p] = None
  BY DEF JobInv, WellTyped, JobsRight, JobRight, BeginReconcile, Enter
<1>6. JobRight(p)'
  BY <1>5 DEF JobRight, Working
<1>7. ProtectedTags' \subseteq evidence'[p]
  BY <1>5, StatesOnlyGo DEF BeginReconcile
<1> QED BY <1>3, <1>4, <1>6, <1>7, CommandKeeps DEF BeginReconcile, Enter

LEMMA PreviewKeeps ==
  ASSUME JobInv, NEW p \in Proc, Preview(p)
  PROVE  JobInv'
<1> DEFINE planned == PlanFor(policy, evidence[p])
<1>1. kind[p] = "reconcile" /\ planned \in Plan
  BY InHand, PlanShape DEF JobInv, WellTyped, Preview
<1> HIDE DEF planned
<1>2. CASE Leave(p)
  BY <1>1, <1>2, LeaveKeeps DEF JobInv, WellTyped, Preview
<1>3. CASE planned.owners # {} /\ plan' = [plan EXCEPT ![p] = planned] /\ Go(p, "confirm")
             /\ UNCHANGED <<kind, srv, cfg, evidence, read>>
  <2>1. WellTyped'
    BY <1>1, <1>3 DEF JobInv, WellTyped, Preview, Go
  <2>2. OthersWait(p)
    BY <1>3 DEF JobInv, WellTyped, Go, OthersWait
  <2>3. JobRight(p)'
    BY <1>1, <1>3 DEF JobInv, JobsRight, JobRight, WellTyped, Go, Working
  <2>4. ProtectedTags' \subseteq evidence'[p]
    BY <1>1, <1>3, StatesOnlyGo DEF JobInv, EvidenceHolds, Preview
  <2> QED BY <1>1, <2>1, <2>2, <2>3, <2>4, CommandKeeps
<1> QED BY <1>2, <1>3 DEF Preview, planned

LEMMA ReplanKeeps ==
  ASSUME JobInv, NEW p \in Proc, Replan(p)
  PROVE  JobInv'
<1>1. kind[p] = "reconcile" /\ Justified(plan[p], policy, evidence[p])
  BY InHand, PlanShape DEF JobInv, WellTyped, Replan
<1>2. WellTyped'
  BY DEF JobInv, WellTyped, Replan, Go, job
<1>3. OthersWait(p)
  BY DEF JobInv, WellTyped, Replan, Go, job, OthersWait
<1>4. read'[p] = policy /\ plan'[p] = plan[p] /\ evidence'[p] = evidence[p]
  BY DEF JobInv, WellTyped, Replan, job
<1>5. JobRight(p)'
  <2>1. Justified(plan[p], read[p], evidence[p])'
    BY <1>1, <1>4 DEF Justified
  <2> QED BY <1>1, <2>1 DEF JobInv, JobsRight, JobRight, WellTyped, Replan, Go, job, Working
<1>6. ProtectedTags' \subseteq evidence'[p]
  BY <1>1, <1>4, StatesOnlyGo DEF JobInv, EvidenceHolds, Replan
<1> QED BY <1>1, <1>2, <1>3, <1>5, <1>6, CommandKeeps

(* ApplyServerproPolicyReconcile writes what it planned, over the file that  *)
(* it planned for.                                                          *)
LEMMA ApplyShape ==
  ASSUME JobInv, NEW p \in Proc, Apply(p)
  PROVE  /\ kind[p] = "reconcile" /\ plan[p] \in Plan
         /\ policy = read[p] /\ policy' = Without(policy, plan[p])
         /\ Lost \subseteq plan[p].owners
         /\ Justified(plan[p], policy, evidence[p]) /\ ProtectedTags \subseteq evidence[p]
<1>1. kind[p] = "reconcile"
  BY InHand DEF Apply
<1>2. /\ read[p] \in Policy /\ plan[p] \in Plan /\ plan[p].owners # {}
      /\ Justified(plan[p], read[p], evidence[p])
  BY DEF JobInv, JobsRight, JobRight, Apply
<1> DEFINE doc == Without(read[p], plan[p])
<1>3. doc.owners = read[p].owners \ plan[p].owners /\ doc.refs = read[p].refs
  BY <1>2, WithoutShape
<1>4. doc # read[p]
  BY <1>2, <1>3 DEF Justified
<1>5. policy = read[p] /\ policy' = doc
  BY <1>4 DEF Apply, Post
<1>6. Lost \subseteq plan[p].owners
  BY <1>3, <1>5 DEF Lost
<1>7. ProtectedTags \subseteq evidence[p]
  BY <1>1 DEF JobInv, EvidenceHolds
<1> QED BY <1>1, <1>2, <1>5, <1>6, <1>7

LEMMA ApplyKeeps ==
  ASSUME JobInv, NEW p \in Proc, Apply(p)
  PROVE  JobInv'
<1>1. kind[p] = "reconcile" /\ read[p] \in Policy /\ plan[p] \in Plan
  BY InHand DEF JobInv, JobsRight, JobRight, Apply
<1>2. policy' \in Policy
  BY <1>1, WithoutShape DEF JobInv, WellTyped, Apply, Post
<1> QED BY <1>1, <1>2, LeaveKeeps DEF JobInv, WellTyped, Apply

LEMMA BesideLock ==
  ASSUME JobInv,
         \/ \E s \in Server :
              DeleteServer(s) \/ Import(s) \/ DeviceLeaves(s) \/ LoseFiles(s) \/ EditConfig(s)
         \/ AdminAdds \/ AdminRemoves
  PROVE  JobInv'
<1>1. ASSUME NEW s \in Server, DeleteServer(s)
      PROVE  JobInv'
  <2>1. WellTyped'
    BY <1>1 DEF JobInv, WellTyped, DeleteServer, job
  <2>2. \A p \in Proc : srv[p] \in Registered => srv[p] \in Registered'
    BY <1>1 DEF JobInv, WellTyped, DeleteServer, Untouched, Registered
  <2>3. \A q \in Server : st'[q] = None \/ st'[q] = st[q]
    BY <1>1 DEF JobInv, WellTyped, DeleteServer
  <2> QED BY <1>1, <2>1, <2>2, <2>3, BesideKeeps DEF DeleteServer
<1>2. ASSUME NEW s \in Server, Import(s)
      PROVE  JobInv'
  <2>1. [Fresh EXCEPT !.tags = TagsOf[s]] \in Record
    BY TagsOfAssumption DEF Fresh, Record
  <2>2. Default[s] \in Choices[s] /\ Default[s] \in Config
    BY ChoicesAssumption
  <2>3. WellTyped'
    BY <1>2, <2>1, <2>2 DEF JobInv, WellTyped, Import, job
  <2>4. \A p \in Proc : srv[p] \in Registered => srv[p] \in Registered'
    BY <1>2, <2>1, NoneAssumption DEF JobInv, WellTyped, Import, Registered
  <2> QED BY <1>2, <2>3, <2>4, BesideKeeps DEF Import
<1>3. ASSUME NEW s \in Server, DeviceLeaves(s)
      PROVE  JobInv'
  <2>1. WellTyped'
    BY <1>3 DEF JobInv, WellTyped, DeviceLeaves, job
  <2> QED BY <1>3, <2>1, BesideKeeps DEF DeviceLeaves, Registered
<1>4. ASSUME NEW s \in Server, LoseFiles(s)
      PROVE  JobInv'
  <2>1. WellTyped'
    BY <1>4, MaxEditsAssumption DEF JobInv, WellTyped, LoseFiles, Edit, job
  <2>2. \A p \in Proc : srv[p] \in Registered => srv[p] \in Registered'
    BY <1>4 DEF JobInv, WellTyped, LoseFiles, Untouched, Registered
  <2>3. \A q \in Server : st'[q] = None \/ st'[q] = st[q]
    BY <1>4 DEF JobInv, WellTyped, LoseFiles
  <2> QED BY <1>4, <2>1, <2>2, <2>3, BesideKeeps DEF LoseFiles
<1>5. ASSUME NEW s \in Server, EditConfig(s)
      PROVE  JobInv'
  <2>1. PICK c \in Choices[s] : config' = [config EXCEPT ![s] = c]
    BY <1>5 DEF EditConfig
  <2>2. WellTyped'
    BY <1>5, <2>1, ChoiceRight, MaxEditsAssumption DEF JobInv, WellTyped, EditConfig, Edit, job
  <2> QED BY <1>5, <2>2, BesideKeeps DEF EditConfig, Registered
<1>6. CASE AdminAdds
  <2>1. HandRules \subseteq Rule
    BY RulesTyped, ChoicesAssumption DEF HandRules
  <2>2. policy' \in Policy
    BY <1>6, <2>1 DEF JobInv, WellTyped, AdminAdds, Policy
  <2>3. WellTyped'
    BY <1>6, <2>2, MaxEditsAssumption DEF JobInv, WellTyped, AdminAdds, Edit, job
  <2> QED BY <1>6, <2>3, BesideKeeps DEF AdminAdds, Registered
<1>7. CASE AdminRemoves
  <2>1. policy' \in Policy
    BY <1>7 DEF JobInv, WellTyped, AdminRemoves, Policy
  <2>2. WellTyped'
    BY <1>7, <2>1, MaxEditsAssumption DEF JobInv, WellTyped, AdminRemoves, Edit, job
  <2> QED BY <1>7, <2>2, BesideKeeps DEF AdminRemoves, Registered
<1> QED BY <1>1, <1>2, <1>3, <1>4, <1>5, <1>6, <1>7

LEMMA JobStep ==
  ASSUME JobInv, [Next]_vars
  PROVE  JobInv'
<1>1. CASE UNCHANGED vars
  <2>1. WellTyped'
    BY <1>1 DEF JobInv, WellTyped, vars, job
  <2> QED BY <1>1, <2>1, BesideKeeps DEF vars, Registered
<1>2. ASSUME NEW p \in Proc, NEW s \in Server, NEW k \in Working, Start(p, k, s)
      PROVE  JobInv'
  BY <1>2, StartKeeps
<1>3. ASSUME NEW p \in Proc,
             \/ ReadPolicy(p) \/ Publish(p) \/ RecordChange(p) \/ DecideRevoke(p)
             \/ Revoke(p) \/ Validate(p) \/ Bind(p) \/ Fail(p)
             \/ BeginReconcile(p) \/ Preview(p) \/ Replan(p) \/ Apply(p)
      PROVE  JobInv'
  BY <1>3, ReadPolicyKeeps, PublishKeeps, RecordChangeKeeps, DecideRevokeKeeps, RevokeKeeps,
     ValidateKeeps, BindKeeps, FailKeeps, BeginReconcileKeeps, PreviewKeeps, ReplanKeeps,
     ApplyKeeps
<1> QED BY <1>1, <1>2, <1>3, BesideLock DEF Next, Working

LEMMA JobInit ==
  ASSUME Init
  PROVE  JobInv
<1>1. config \in [Server -> Config]
  <2>1. config \in [Server -> UNION {Choices[s] : s \in Server}]
          /\ \A s \in Server : config[s] \in Choices[s]
    BY DEF Init
  <2> QED BY <2>1, ChoicesAssumption
<1>2. WellTyped
  BY <1>1, MaxEditsAssumption DEF Init, WellTyped, Policy
<1>3. OneCommand /\ EvidenceHolds
  BY DEF Init, OneCommand, EvidenceHolds
<1>4. JobsRight
  BY DEF Init, JobsRight, JobRight, Working
<1> QED BY <1>2, <1>3, <1>4 DEF JobInv
-----------------------------------------------------------------------------
(* The type invariant, and what the writes may lose *)

(* In every reachable state the file, the states and what the commands hold *)
(* have their types, and at most one command has passed LockTailnetPolicy.  *)
THEOREM TypeCorrect == Spec => []TypeOK
<1>1. JobInv => TypeOK
  <2> SUFFICES ASSUME JobInv PROVE TypeOK
    OBVIOUS
  <2> DEFINE running == {p \in Proc : kind[p] # "idle"}
  <2>1. Cardinality(running) <= 1
    <3>1. CASE running = {}
      BY <3>1, FS_EmptySet
    <3>2. CASE running # {}
      <4>1. PICK p \in Proc : p \in running
        BY <3>2
      <4>2. running = {p}
        BY <4>1 DEF JobInv, OneCommand
      <4> QED BY <4>2, FS_Singleton
    <3> QED BY <3>1, <3>2
  <2> HIDE DEF running
  <2> QED BY <2>1 DEF JobInv, WellTyped, TypeOK, running
<1> QED BY <1>1, JobInit, JobStep, PTL DEF Spec

(* Under any interleaving with the administrators of the tailnet, a publish *)
(* loses only the human rules it replaces, a revoke only its accept rule,   *)
(* and a reconcile only what was previewed: the If-Match of                 *)
(* publishPolicyFile refuses a write over any other file.                   *)
THEOREM NoEditLost == Spec => NoLostEdit
<1> DEFINE Spared ==
        \A p \in Proc :
          /\ Publish(p) => Lost = {} /\ LostRules \subseteq HumanMatches(policy, cfg[p])
          /\ Revoke(p) => Lost = {} /\ LostRules \subseteq {AutoRule(cfg[p])}
          /\ Apply(p) => /\ Lost \subseteq plan[p].owners
                        /\ policy' = Without(policy, plan[p])
<1>1. ASSUME JobInv, NEW p \in Proc, Publish(p)
      PROVE  Lost = {} /\ LostRules \subseteq HumanMatches(policy, cfg[p])
  <2>1. read[p] \in Policy /\ srv[p] \in Server /\ cfg[p] \in Config
    BY <1>1, InHand DEF JobInv, JobsRight, JobRight, Publish
  <2> DEFINE doc == Ensured(read[p], srv[p], cfg[p])
  <2>2. Post(p, doc)
    BY <1>1 DEF Publish
  <2>3. /\ read[p].owners \subseteq doc.owners /\ doc.refs = read[p].refs
        /\ read[p].rules \ doc.rules \subseteq HumanMatches(read[p], cfg[p])
    BY <2>1, EnsuredShape
  <2> QED BY <2>2, <2>3, PostShape DEF Lost, LostRules
<1>2. ASSUME JobInv, NEW p \in Proc, Revoke(p)
      PROVE  Lost = {} /\ LostRules \subseteq {AutoRule(cfg[p])}
  <2>1. read[p] \in Policy /\ cfg[p] \in Config
    BY <1>2, InHand DEF JobInv, JobsRight, JobRight, Revoke, AfterWrite
  <2> DEFINE doc == Revoked(read[p], cfg[p])
  <2>2. Post(p, doc)
    BY <1>2 DEF Revoke
  <2>3. /\ doc.owners = read[p].owners /\ doc.refs = read[p].refs
        /\ doc.rules = read[p].rules \ {AutoRule(cfg[p])}
    BY <2>1, RevokedShape
  <2> QED BY <2>2, <2>3, PostShape DEF Lost, LostRules
<1>3. ASSUME JobInv, NEW p \in Proc, Apply(p)
      PROVE  Lost \subseteq plan[p].owners /\ policy' = Without(policy, plan[p])
  BY <1>3, ApplyShape
<1>4. JobInv => Spared
  BY <1>1, <1>2, <1>3
<1>5. JobInv /\ [Next]_vars => [Spared]_vars
  BY <1>4
<1>6. Spec => [][Spared]_vars
  BY <1>5, JobInit, JobStep, PTL DEF Spec
<1> QED BY <1>6 DEF NoLostEdit

(* A reconcile never removes the owner of a tag that a registered server    *)
(* records, or that an administrator's tag refers to, when it writes:       *)
(* states are only deleted while its preview waits, and a file that changed *)
(* is refused.                                                              *)
THEOREM ReconcileSparesRecorded == Spec => ReconcileSpares
<1> DEFINE Spared ==
        \A p \in Proc : Apply(p) => Lost \intersect (ProtectedTags \union policy.refs) = {}
<1>1. ASSUME JobInv, NEW p \in Proc, Apply(p)
      PROVE  Lost \intersect (ProtectedTags \union policy.refs) = {}
  <2>1. /\ Lost \subseteq plan[p].owners /\ policy = read[p]
        /\ Justified(plan[p], policy, evidence[p]) /\ ProtectedTags \subseteq evidence[p]
    BY <1>1, ApplyShape
  <2> QED BY <2>1 DEF Justified
<1>2. JobInv => Spared
  BY <1>1
<1>3. JobInv /\ [Next]_vars => [Spared]_vars
  BY <1>2
<1>4. Spec => [][Spared]_vars
  BY <1>3, JobInit, JobStep, PTL DEF Spec
<1> QED BY <1>4 DEF ReconcileSpares
-----------------------------------------------------------------------------
(* Access *)

(* While a command runs, no other is at any step.                           *)
LEMMA NobodyElse ==
  ASSUME JobInv, NEW p \in Proc, kind[p] # "idle" \/ PolicyFree, NEW q \in Proc \ {p}
  PROVE  kind[q] = "idle" /\ at[q] = "idle" /\ srv[q] = None
  BY DEF JobInv, OneCommand, PolicyFree, JobsRight, JobRight

(* Access stated of the configuration in force by name.                     *)
LEMMA ForceBy ==
  ASSUME \A s \in Server : \A c :
           c = applied'[s] /\ c # None /\ Covered(s)' => InForce(s, c)'
  PROVE  AllInForce'
  BY DEF AllInForce, InForce, HumanMatches

(* A step that neither writes the policy nor puts anything in force keeps   *)
(* access, when it covers no new server that has something in force.        *)
LEMMA ForceStays ==
  ASSUME AllInForce, UNCHANGED policy,
         \A s \in Server : applied'[s] # None => applied'[s] = applied[s],
         \A s \in Server : applied'[s] # None /\ Covered(s)' => Covered(s)
  PROVE  AllInForce'
<1> SUFFICES ASSUME NEW s \in Server, applied'[s] # None, Covered(s)'
             PROVE  InForce(s, applied[s])'
  BY DEF AllInForce
<1>1. InForce(s, applied[s])
  BY DEF AllInForce
<1> QED BY <1>1 DEF InForce, HumanMatches

(* What a step of the running command owes for access, when the file stays. *)
LEMMA AccessBy ==
  ASSUME AccessInv, JobInv', NEW p \in Proc, OthersWait(p), kind[p] # "idle" \/ PolicyFree,
         UNCHANGED config,
         \A s \in Server : applied'[s] # None =>
             /\ s \in Registered' /\ applied'[s] = config[s]
             /\ Recording(s)' \/ st'[s].source = applied'[s].auto,
         at'[p] = "record" => applied'[srv'[p]] \in {None, cfg'[p]},
         TagsWhole',
         at'[p] = "sharers" => ~st'[srv'[p]].source,
         at'[p] \in {"revoke", "unpublish"} => \A s \in Server :
             applied'[s] # None /\ applied'[s].auto => applied'[s].ssh # cfg'[p].ssh,
         AllInForce'
  PROVE  AccessInv'
<1>1. \A q \in Proc \ {p} : at'[q] = "idle"
  BY NobodyElse DEF AccessInv, OthersWait
<1>2. AppliedRight'
  BY <1>1 DEF AppliedRight
<1>3. RevokeRight'
  BY <1>1 DEF RevokeRight
<1> QED BY <1>2, <1>3 DEF AccessInv

LEMMA StartAccess ==
  ASSUME AccessInv, NEW p \in Proc, NEW k \in Working, NEW s \in Server, Start(p, k, s)
  PROVE  AccessInv'
<1>1. JobInv'
  BY StartKeeps DEF AccessInv
<1>2. JobInv /\ WellTyped
  BY DEF AccessInv, JobInv
<1>3. OthersWait(p) /\ PolicyFree
  BY <1>2 DEF WellTyped, Start, Enter, OthersWait
<1>4. at[p] = "idle" /\ srv[p] = None /\ at'[p] = "ensure"
  BY <1>2 DEF JobInv, WellTyped, JobsRight, JobRight, Start, Enter
<1>5. \A o \in Registered : st'[o] = st[o] /\ o \in Registered'
  BY <1>2 DEF WellTyped, Start, Registered
<1>6. \A o \in Server \ Registered : st'[o] # None => st'[o] = Fresh /\ o = s
  BY <1>2 DEF WellTyped, Start, Registered
<1>7. TagsWhole'
  BY <1>5, <1>6 DEF AccessInv, TagsWhole, Registered, Fresh
<1>8. \A q \in Proc : at[q] = "idle" /\ at'[q] \in {"idle", "ensure"}
  BY <1>2, <1>3, <1>4, NobodyElse DEF OthersWait
<1>9. ASSUME NEW o \in Server, applied'[o] # None
      PROVE  /\ o \in Registered /\ applied'[o] = applied[o]
             /\ applied[o] = config[o] /\ st[o].source = applied[o].auto
  BY <1>8, <1>9 DEF AccessInv, AppliedRight, Recording, Start
<1>10. AllInForce'
  BY <1>5, <1>8, <1>9, ForceStays DEF AccessInv, Covered, AfterWrite, Start
<1> QED BY <1>1, <1>3, <1>4, <1>5, <1>7, <1>9, <1>10, AccessBy DEF Start

LEMMA ReadPolicyAccess ==
  ASSUME AccessInv, NEW p \in Proc, ReadPolicy(p)
  PROVE  AccessInv'
<1>1. JobInv'
  BY ReadPolicyKeeps DEF AccessInv
<1>2. JobInv /\ WellTyped
  BY DEF AccessInv, JobInv
<1>3. OthersWait(p) /\ kind[p] # "idle" /\ srv'[p] = srv[p] /\ cfg'[p] = cfg[p]
  BY <1>2, InHand DEF WellTyped, ReadPolicy, Go, job, OthersWait, AfterWrite
<1>4. \/ at[p] = "ensure" /\ at'[p] = "publish"
      \/ at[p] = "revoke" /\ at'[p] = "unpublish"
  BY <1>2 DEF WellTyped, ReadPolicy, Go
<1>5. \A s \in Server : Recording(s) = Recording(s)' /\ (Covered(s)' => Covered(s))
  BY <1>3, <1>4 DEF Recording, Covered, AfterWrite, OthersWait, ReadPolicy
<1>6. AllInForce'
  BY <1>5, ForceStays DEF AccessInv, ReadPolicy
<1>7. at'[p] = "unpublish" => \A s \in Server :
         applied'[s] # None /\ applied'[s].auto => applied'[s].ssh # cfg'[p].ssh
  BY <1>3, <1>4 DEF AccessInv, RevokeRight, ReadPolicy
<1>8. TagsWhole'
  BY DEF AccessInv, TagsWhole, ReadPolicy, Registered
<1>9. \A s \in Server : applied'[s] # None =>
         /\ s \in Registered' /\ applied'[s] = config[s]
         /\ Recording(s)' \/ st'[s].source = applied'[s].auto
  BY <1>5 DEF AccessInv, AppliedRight, ReadPolicy, Registered
<1> QED BY <1>1, <1>3, <1>4, <1>6, <1>7, <1>8, <1>9, AccessBy DEF ReadPolicy

(* EnsureServerproPolicy puts the configuration of its server in force and  *)
(* takes from no other server what it has.                                  *)
LEMMA EnsureKeepsForce ==
  ASSUME NEW doc \in Policy, NEW s \in Server, NEW c \in Choices[s],
         NEW o \in Server, NEW d \in Config,
         policy' = Ensured(doc, s, c),
         (policy = doc /\ InForce(o, d)) \/ (o = s /\ d = c)
  PROVE  InForce(o, d)'
<1> DEFINE new == Ensured(doc, s, c)
<1>1. c \in Config
  BY ChoiceRight
<1>2. /\ new \in Policy
      /\ new.owners = doc.owners \union AddedOwners(doc, s, c)
      /\ new.rules = (doc.rules \ HumanMatches(doc, c)) \union {HumanRule(c)}
                       \union (IF c.auto THEN {AutoRule(c)} ELSE {})
  BY <1>1, EnsuredShape
<1>3. policy' = new
  OBVIOUS
<1> HIDE DEF new
<1>4. CASE o = s /\ d = c
  <2>1. TagsOf[s] \subseteq new.owners /\ (c.auto => AutoTag \in new.owners)
    BY <1>2 DEF AddedOwners
  <2>2. HumanRule(c) \in {r \in new.rules : r.from = "admin" /\ r.dst = c.ssh}
    BY <1>2 DEF HumanRule
  <2>3. c.auto => AutoRule(c) \in new.rules
    BY <1>2
  <2> QED BY <1>3, <1>4, <2>1, <2>2, <2>3 DEF InForce, HumanMatches
<1>5. CASE policy = doc /\ InForce(o, d)
  <2>1. TagsOf[o] \subseteq new.owners /\ (d.auto => AutoTag \in new.owners)
    BY <1>2, <1>5 DEF InForce
  <2>2. PICK r \in doc.rules : r.from = "admin" /\ r.dst = d.ssh
    BY <1>5 DEF InForce, HumanMatches
  <2>3. {q \in new.rules : q.from = "admin" /\ q.dst = d.ssh} # {}
    <3>1. CASE r \in HumanMatches(doc, c)
      <4>1. d.ssh = c.ssh
        BY <2>2, <3>1 DEF HumanMatches
      <4>2. HumanRule(c) \in new.rules /\ HumanRule(c).from = "admin"
              /\ HumanRule(c).dst = c.ssh
        BY <1>2 DEF HumanRule
      <4> QED BY <4>1, <4>2
    <3>2. CASE r \notin HumanMatches(doc, c)
      BY <1>2, <2>2, <3>2
    <3> QED BY <3>1, <3>2
  <2>4. d.auto => AutoRule(d) \in new.rules
    <3>1. AutoRule(d).from = "node"
      BY DEF AutoRule
    <3>2. AutoRule(d) \notin HumanMatches(doc, c)
      BY <3>1 DEF HumanMatches
    <3> QED BY <1>2, <1>5, <3>2 DEF InForce
  <2> QED BY <1>3, <2>1, <2>3, <2>4 DEF InForce, HumanMatches
<1> QED BY <1>4, <1>5

LEMMA PublishAccess ==
  ASSUME AccessInv, NEW p \in Proc, Publish(p)
  PROVE  AccessInv'
<1>1. JobInv'
  BY PublishKeeps DEF AccessInv
<1>2. JobInv /\ WellTyped
  BY DEF AccessInv, JobInv
<1>3. OthersWait(p) /\ kind[p] # "idle" /\ srv'[p] = srv[p] /\ cfg'[p] = cfg[p]
  BY <1>2, InHand DEF WellTyped, Publish, Go, job, OthersWait, Working
<1>4. at[p] = "publish" /\ at'[p] = "record"
  BY <1>2 DEF WellTyped, Publish, Go
<1>5. /\ srv[p] \in Server /\ srv[p] \in Registered /\ cfg[p] \in Choices[srv[p]]
      /\ read[p] \in Policy
  BY <1>2, <1>4, InHand DEF JobInv, JobsRight, JobRight
<1>6. \A s \in Server \ {srv[p]} : applied'[s] = applied[s]
  BY <1>2, <1>5 DEF WellTyped, Publish
<1>7. applied'[srv[p]] # None =>
        applied'[srv[p]] = cfg[p] /\ config[srv[p]] = cfg[p] /\ policy = read[p]
  BY <1>2, <1>5 DEF WellTyped, Publish
<1>8. \A s : s = srv[p] => Recording(s)'
  BY <1>3, <1>4 DEF Recording
<1>9. \A s \in Server \ {srv[p]} :
        (Recording(s) => Recording(s)') /\ (Covered(s)' => Covered(s))
  BY <1>3, <1>4 DEF Recording, Covered, OthersWait, Publish
<1>10. \A s \in Server : applied'[s] # None =>
         /\ s \in Registered' /\ applied'[s] = config[s]
         /\ Recording(s)' \/ st'[s].source = applied'[s].auto
  <2> SUFFICES ASSUME NEW s \in Server, applied'[s] # None
               PROVE  /\ s \in Registered' /\ applied'[s] = config[s]
                      /\ Recording(s)' \/ st'[s].source = applied'[s].auto
    OBVIOUS
  <2>1. st' = st /\ Registered' = Registered
    BY DEF Publish, Registered
  <2>2. CASE s = srv[p]
    BY <1>5, <1>7, <1>8, <2>1, <2>2
  <2>3. CASE s # srv[p]
    BY <1>6, <1>9, <2>1, <2>3 DEF AccessInv, AppliedRight
  <2> QED BY <2>2, <2>3
<1>11. TagsWhole'
  BY DEF AccessInv, TagsWhole, Publish, Registered
<1>12. AllInForce'
  <2> SUFFICES ASSUME NEW s \in Server, NEW c, c = applied'[s], c # None, Covered(s)'
               PROVE  InForce(s, c)'
    BY ForceBy
  <2> DEFINE doc == Ensured(read[p], srv[p], cfg[p])
  <2>1. Post(p, doc)
    BY DEF Publish
  <2>2. c \in Config
    BY <1>1 DEF JobInv, WellTyped
  <2>3. CASE s = srv[p]
    <3>1. policy' = doc /\ c = cfg[p]
      BY <1>7, <2>1, <2>3, PostShape
    <3> QED BY <1>5, <2>2, <2>3, <3>1, EnsureKeepsForce
  <2>4. CASE s # srv[p]
    <3>1. InForce(s, c)
      BY <1>6, <1>9, <2>4 DEF AccessInv, AllInForce
    <3>2. CASE policy' = policy
      BY <3>1, <3>2 DEF InForce, HumanMatches
    <3>3. CASE policy = read[p] /\ policy' = doc
      BY <1>5, <2>2, <3>1, <3>3, EnsureKeepsForce
    <3> QED BY <2>1, <3>2, <3>3, PostShape
  <2> QED BY <2>3, <2>4
<1> QED BY <1>1, <1>3, <1>4, <1>5, <1>7, <1>10, <1>11, <1>12, AccessBy DEF Publish

LEMMA RecordChangeAccess ==
  ASSUME AccessInv, NEW p \in Proc, RecordChange(p)
  PROVE  AccessInv'
<1>1. JobInv'
  BY RecordChangeKeeps DEF AccessInv
<1>2. JobInv /\ WellTyped
  BY DEF AccessInv, JobInv
<1>3. OthersWait(p) /\ kind[p] # "idle" /\ srv'[p] = srv[p] /\ cfg'[p] = cfg[p]
  BY <1>2, InHand DEF WellTyped, RecordChange, Go, job, OthersWait, Working, AfterWrite
<1>4. at[p] = "record" /\ at'[p] \in {"sharers", "validate"}
  BY <1>2 DEF WellTyped, RecordChange, Go
<1>5. at'[p] = "sharers" => ~cfg[p].auto
  BY <1>2 DEF WellTyped, RecordChange, Go
<1>6. /\ srv[p] \in Server /\ srv[p] \in Registered /\ st[srv[p]] \in Record
      /\ cfg[p] \in Config /\ read[p] \in Policy
  BY <1>2, <1>4, InHand DEF JobInv, JobsRight, JobRight, AfterWrite
<1>7. /\ st'[srv[p]] \in Record /\ st'[srv[p]].tags = st[srv[p]].tags
      /\ st'[srv[p]].source = cfg[p].auto
  BY <1>2, <1>6, ChangeShape DEF WellTyped, RecordChange
<1>8. \A s \in Server \ {srv[p]} : st'[s] = st[s]
  BY <1>2, <1>6 DEF WellTyped, RecordChange
<1>9. Registered' = Registered
  BY <1>6, <1>7, <1>8, NoneAssumption DEF Registered
<1>10. applied[srv[p]] # None => applied[srv[p]] = cfg[p]
  BY <1>4 DEF AccessInv, AppliedRight
<1>11. ASSUME NEW s \in Server, applied'[s] # None
       PROVE  /\ s \in Registered' /\ applied'[s] = config[s]
              /\ Recording(s)' \/ st'[s].source = applied'[s].auto
  <2>1. applied'[s] = applied[s] /\ s \in Registered /\ applied[s] = config[s]
    BY <1>11 DEF AccessInv, AppliedRight, RecordChange
  <2>2. CASE s = srv[p]
    BY <1>7, <1>9, <1>10, <1>11, <2>1, <2>2
  <2>3. CASE s # srv[p]
    <3>1. ~Recording(s)
      BY <1>2, <1>3, <2>3, NobodyElse DEF Recording
    <3> QED BY <1>8, <1>9, <1>11, <2>1, <2>3, <3>1 DEF AccessInv, AppliedRight
  <2> QED BY <2>2, <2>3
<1>12. TagsWhole'
  BY <1>6, <1>7, <1>8, <1>9 DEF AccessInv, TagsWhole, Registered
<1>13. \A s \in Server : Covered(s)' => Covered(s)
  BY <1>3, <1>4, <1>6, <1>7, <1>8 DEF Covered, OthersWait, AfterWrite
<1>14. AllInForce'
  BY <1>13, ForceStays DEF AccessInv, RecordChange
<1> QED BY <1>1, <1>3, <1>4, <1>5, <1>7, <1>11, <1>12, <1>14, AccessBy DEF RecordChange

(* automationRuleSharers sees every server that has the accept rule in      *)
(* force: its state records the source, and nobody else is writing.         *)
LEMMA DecideRevokeAccess ==
  ASSUME AccessInv, NEW p \in Proc, DecideRevoke(p)
  PROVE  AccessInv'
<1>1. JobInv'
  BY DecideRevokeKeeps DEF AccessInv
<1>2. JobInv /\ WellTyped
  BY DEF AccessInv, JobInv
<1>3. OthersWait(p) /\ kind[p] # "idle" /\ srv'[p] = srv[p] /\ cfg'[p] = cfg[p]
  BY <1>2, InHand DEF WellTyped, DecideRevoke, Go, job, OthersWait, Working, AfterWrite
<1>4. at[p] = "sharers" /\ at'[p] \in {"revoke", "validate"}
  BY <1>2 DEF WellTyped, DecideRevoke, Go
<1>5. \A s \in Server : ~Recording(s)
  BY <1>2, <1>3, <1>4, NobodyElse DEF Recording
<1>6. \A s \in Server : applied[s] # None =>
        s \in Registered /\ applied[s] = config[s] /\ st[s].source = applied[s].auto
  BY <1>5 DEF AccessInv, AppliedRight
<1>7. at'[p] = "revoke" => Sharers(srv[p], cfg[p]) = {}
  BY <1>2 DEF WellTyped, DecideRevoke, Go
<1>8. ~st[srv[p]].source
  BY <1>4 DEF AccessInv, RevokeRight
<1>9. at'[p] = "revoke" => \A s \in Server :
        applied'[s] # None /\ applied'[s].auto => applied'[s].ssh # cfg'[p].ssh
  <2> SUFFICES ASSUME at'[p] = "revoke", NEW s \in Server, applied[s] # None, applied[s].auto
               PROVE  applied[s].ssh # cfg[p].ssh
    BY <1>3 DEF DecideRevoke
  <2>1. st[s].source /\ s \in Registered \ {srv[p]}
    BY <1>6, <1>8
  <2>2. s \notin Sharers(srv[p], cfg[p])
    BY <1>7
  <2> QED BY <1>6, <2>1, <2>2 DEF Sharers
<1>10. TagsWhole'
  BY DEF AccessInv, TagsWhole, DecideRevoke, Registered
<1>11. \A s \in Server : Covered(s)' => Covered(s)
  BY <1>3, <1>4 DEF Covered, OthersWait, AfterWrite, DecideRevoke
<1>12. AllInForce'
  BY <1>11, ForceStays DEF AccessInv, DecideRevoke
<1>13. \A s \in Server : applied'[s] # None =>
         /\ s \in Registered' /\ applied'[s] = config[s]
         /\ Recording(s)' \/ st'[s].source = applied'[s].auto
  BY <1>6 DEF DecideRevoke, Registered
<1> QED BY <1>1, <1>3, <1>4, <1>9, <1>10, <1>12, <1>13, AccessBy DEF DecideRevoke

(* RemoveAutomationSSHRule takes its rule from nobody who has it in force.  *)
LEMMA RevokeAccess ==
  ASSUME AccessInv, NEW p \in Proc, Revoke(p)
  PROVE  AccessInv'
<1>1. JobInv'
  BY RevokeKeeps DEF AccessInv
<1>2. JobInv /\ WellTyped
  BY DEF AccessInv, JobInv
<1>3. OthersWait(p) /\ kind[p] # "idle" /\ srv'[p] = srv[p] /\ cfg'[p] = cfg[p]
  BY <1>2, InHand DEF WellTyped, Revoke, Go, job, OthersWait, Working, AfterWrite
<1>4. at[p] = "unpublish" /\ at'[p] = "validate"
  BY <1>2 DEF WellTyped, Revoke, Go
<1>5. cfg[p] \in Config /\ read[p] \in Policy
  BY <1>2, <1>4, InHand DEF JobInv, JobsRight, JobRight, AfterWrite
<1>6. \A s \in Server : Recording(s) = Recording(s)' /\ (Covered(s)' => Covered(s))
  BY <1>3, <1>4 DEF Recording, Covered, AfterWrite, OthersWait, Revoke
<1>7. /\ policy.owners \subseteq policy'.owners
      /\ policy.rules \ policy'.rules \subseteq {AutoRule(cfg[p])}
  <2> DEFINE doc == Revoked(read[p], cfg[p])
  <2>1. Post(p, doc)
    BY DEF Revoke
  <2>2. doc.owners = read[p].owners /\ doc.rules = read[p].rules \ {AutoRule(cfg[p])}
    BY <1>5, RevokedShape
  <2> QED BY <2>1, <2>2, PostShape
<1>8. AllInForce'
  <2> SUFFICES ASSUME NEW s \in Server, NEW c, c = applied'[s], c # None, Covered(s)'
               PROVE  InForce(s, c)'
    BY ForceBy
  <2>1. c = applied[s] /\ InForce(s, c)
    BY <1>6 DEF AccessInv, AllInForce, Revoke
  <2>2. c.auto => c.ssh # cfg[p].ssh
    BY <1>4, <2>1 DEF AccessInv, RevokeRight
  <2>3. c.auto => AutoRule(c) \in policy'.rules
    <3>1. c.auto => AutoRule(c) # AutoRule(cfg[p])
      BY <2>2 DEF AutoRule
    <3> QED BY <1>7, <2>1, <3>1 DEF InForce
  <2>4. PICK r \in policy.rules : r.from = "admin" /\ r.dst = c.ssh
    BY <2>1 DEF InForce, HumanMatches
  <2>5. r \in policy'.rules
    BY <1>7, <2>4 DEF AutoRule
  <2> QED BY <1>7, <2>1, <2>3, <2>4, <2>5 DEF InForce, HumanMatches
<1>9. TagsWhole'
  BY DEF AccessInv, TagsWhole, Revoke, Registered
<1>10. \A s \in Server : applied'[s] # None =>
         /\ s \in Registered' /\ applied'[s] = config[s]
         /\ Recording(s)' \/ st'[s].source = applied'[s].auto
  BY <1>6 DEF AccessInv, AppliedRight, Revoke, Registered
<1> QED BY <1>1, <1>3, <1>4, <1>8, <1>9, <1>10, AccessBy DEF Revoke

(* A command that ends owes what it leaves behind.                          *)
LEMMA LeaveAccess ==
  ASSUME AccessInv, JobInv', NEW p \in Proc, Leave(p), kind[p] # "idle", UNCHANGED config,
         \A s \in Registered :
           s \in Registered' /\ st'[s].source = st[s].source,
         TagsWhole',
         \A s \in Server : applied'[s] # None =>
           applied'[s] = applied[s] /\ (at[p] = "record" => srv[p] # s),
         AllInForce'
  PROVE  AccessInv'
<1>1. JobInv /\ WellTyped
  BY DEF AccessInv, JobInv
<1>2. OthersWait(p) /\ at'[p] = "idle"
  BY <1>1 DEF WellTyped, Leave, OthersWait
<1>3. ASSUME NEW s \in Server, applied'[s] # None
      PROVE  /\ s \in Registered' /\ applied'[s] = config[s]
             /\ Recording(s)' \/ st'[s].source = applied'[s].auto
  <2>1. applied'[s] = applied[s] /\ applied[s] # None /\ ~Recording(s)
    BY <1>1, <1>3, NobodyElse DEF Recording
  <2> QED BY <2>1 DEF AccessInv, AppliedRight
<1> QED BY <1>2, <1>3, AccessBy

LEMMA ValidateAccess ==
  ASSUME AccessInv, NEW p \in Proc, Validate(p)
  PROVE  AccessInv'
<1>1. JobInv'
  BY ValidateKeeps DEF AccessInv
<1>2. JobInv /\ WellTyped
  BY DEF AccessInv, JobInv
<1>3. kind[p] # "idle" /\ at[p] = "validate"
  BY <1>2, InHand DEF Validate
<1>4. TagsWhole'
  BY DEF AccessInv, TagsWhole, Validate, Registered
<1>5. CASE Leave(p)
  <2>1. \A s \in Server : Covered(s)' => Covered(s)
    BY <1>2, <1>5 DEF WellTyped, Leave, Covered, AfterWrite, Validate
  <2>2. AllInForce'
    BY <2>1, ForceStays DEF AccessInv, Validate
  <2> QED BY <1>1, <1>3, <1>4, <1>5, <2>2, LeaveAccess DEF Validate, Registered
<1>6. CASE Go(p, "bind") /\ UNCHANGED <<read, job>>
  <2>1. OthersWait(p) /\ at'[p] = "bind" /\ srv'[p] = srv[p] /\ cfg'[p] = cfg[p]
    BY <1>2, <1>6 DEF WellTyped, Go, job, OthersWait
  <2>2. \A s \in Server : Recording(s) = Recording(s)' /\ (Covered(s)' => Covered(s))
    BY <1>3, <1>6, <2>1 DEF Recording, Covered, AfterWrite, OthersWait, Validate, job
  <2>3. AllInForce'
    BY <2>2, ForceStays DEF AccessInv, Validate
  <2>4. \A s \in Server : applied'[s] # None =>
           /\ s \in Registered' /\ applied'[s] = config[s]
           /\ Recording(s)' \/ st'[s].source = applied'[s].auto
    BY <2>2 DEF AccessInv, AppliedRight, Validate, Registered
  <2> QED BY <1>1, <1>3, <1>4, <2>1, <2>3, <2>4, AccessBy DEF Validate
<1> QED BY <1>5, <1>6 DEF Validate

LEMMA BindAccess ==
  ASSUME AccessInv, NEW p \in Proc, Bind(p)
  PROVE  AccessInv'
<1>1. JobInv'
  BY BindKeeps DEF AccessInv
<1>2. JobInv /\ WellTyped
  BY DEF AccessInv, JobInv
<1>3. kind[p] # "idle" /\ at[p] = "bind" /\ srv[p] \in Server /\ st[srv[p]] \in Record
        /\ srv[p] \in Registered
  BY <1>2, InHand DEF Bind, AfterWrite, Working
<1>4. /\ st'[srv[p]] = [st[srv[p]] EXCEPT !.tags = TagsOf[srv[p]]]
      /\ \A s \in Server \ {srv[p]} : st'[s] = st[s]
  BY <1>2, <1>3 DEF WellTyped, Bind
<1>5. /\ st'[srv[p]] \in Record /\ st'[srv[p]].tags = TagsOf[srv[p]]
      /\ st'[srv[p]].source = st[srv[p]].source
  BY <1>3, <1>4, TagsOfAssumption DEF Record
<1>6. Registered' = Registered
  BY <1>3, <1>4, <1>5, NoneAssumption DEF Registered
<1>7. TagsWhole'
  BY <1>4, <1>5, <1>6 DEF AccessInv, TagsWhole, Registered
<1>8. \A s \in Server : Covered(s)' => Covered(s)
  BY <1>2, <1>3, <1>4 DEF WellTyped, Bind, Leave, Covered, AfterWrite
<1>9. AllInForce'
  BY <1>8, ForceStays DEF AccessInv, Bind
<1>10. \A s \in Registered : s \in Registered' /\ st'[s].source = st[s].source
  BY <1>4, <1>5, <1>6 DEF Registered
<1> QED BY <1>1, <1>3, <1>7, <1>9, <1>10, LeaveAccess DEF Bind

LEMMA FailAccess ==
  ASSUME AccessInv, NEW p \in Proc, Fail(p)
  PROVE  AccessInv'
<1>1. JobInv'
  BY FailKeeps DEF AccessInv
<1>2. JobInv /\ WellTyped
  BY DEF AccessInv, JobInv
<1>3. TagsWhole'
  BY DEF AccessInv, TagsWhole, Fail, Registered
<1>4. \A s \in Server : Covered(s)' => Covered(s)
  BY <1>2 DEF WellTyped, Leave, Covered, AfterWrite, Fail
<1>5. ASSUME NEW s \in Server, applied'[s] # None
      PROVE  applied'[s] = applied[s] /\ (at[p] = "record" => srv[p] # s)
  BY <1>2, <1>5 DEF WellTyped, Fail
<1>6. AllInForce'
  BY <1>4, <1>5, ForceStays DEF AccessInv, Fail
<1> QED BY <1>1, <1>3, <1>5, <1>6, LeaveAccess DEF Fail, Registered

(* The steps of a reconcile before it writes.                               *)
LEMMA PreviewAccess ==
  ASSUME AccessInv, NEW p \in Proc, BeginReconcile(p) \/ Preview(p) \/ Replan(p)
  PROVE  AccessInv'
<1>1. JobInv'
  BY BeginReconcileKeeps, PreviewKeeps, ReplanKeeps DEF AccessInv
<1>2. JobInv /\ WellTyped
  BY DEF AccessInv, JobInv
<1>3. UNCHANGED <<policy, config, st, devices, applied, srv>>
  <2>1. at[p] = "preview" => srv[p] = None
    BY <1>2, InHand DEF JobInv, JobsRight, JobRight
  <2>2. Preview(p) => srv' = srv
    BY <1>2, <2>1 DEF WellTyped, Preview, Leave
  <2> QED BY <2>2 DEF BeginReconcile, Preview, Replan, job
<1>4. OthersWait(p)
  BY <1>2 DEF WellTyped, BeginReconcile, Preview, Replan, Enter, Leave, Go, job, OthersWait
<1>5. /\ at[p] \in {"idle", "preview", "confirm"}
      /\ at'[p] \in {"idle", "preview", "confirm", "apply"}
      /\ kind[p] # "idle" \/ PolicyFree
  BY <1>2, InHand DEF WellTyped, JobInv, JobsRight, JobRight, BeginReconcile, Preview, Replan,
                      Enter, Leave, Go
<1>6. \A s \in Server : Recording(s) = Recording(s)' /\ (Covered(s)' => Covered(s))
  BY <1>3, <1>4, <1>5 DEF Recording, Covered, AfterWrite, OthersWait
<1>7. AllInForce'
  BY <1>3, <1>6, ForceStays DEF AccessInv
<1>8. TagsWhole'
  BY <1>3 DEF AccessInv, TagsWhole, Registered
<1>9. \A s \in Server : applied'[s] # None =>
         /\ s \in Registered' /\ applied'[s] = config[s]
         /\ Recording(s)' \/ st'[s].source = applied'[s].auto
  BY <1>3, <1>6 DEF AccessInv, AppliedRight, Registered
<1> QED BY <1>1, <1>3, <1>4, <1>5, <1>7, <1>8, <1>9, AccessBy

(* A reconcile removes nothing that a server with a device has in force:    *)
(* the states it read name the tags, and the source of the accept rule.     *)
LEMMA ApplyAccess ==
  ASSUME AccessInv, NEW p \in Proc, Apply(p)
  PROVE  AccessInv'
<1>1. JobInv'
  BY ApplyKeeps DEF AccessInv
<1>2. JobInv /\ WellTyped
  BY DEF AccessInv, JobInv
<1>3. /\ kind[p] = "reconcile" /\ at[p] = "apply"
      /\ plan[p] \in Plan /\ policy \in Policy /\ policy' = Without(policy, plan[p])
      /\ Justified(plan[p], policy, evidence[p]) /\ ProtectedTags \subseteq evidence[p]
  BY <1>2, ApplyShape DEF WellTyped, Apply
<1>4. /\ policy'.owners = policy.owners \ plan[p].owners
      /\ plan[p].owners \intersect ProtectedTags = {}
  BY <1>3, WithoutShape DEF Justified
<1>5. \A s \in Server : ~Recording(s) /\ (Covered(s)' => st[s].tags # {})
  BY <1>2, <1>3, NobodyElse DEF WellTyped, Recording, Covered, AfterWrite, Apply, Leave
<1>6. ASSUME NEW s \in Server, NEW c, c = applied'[s], c # None, Covered(s)'
      PROVE  InForce(s, c)'
  <2>1. /\ c = applied[s] /\ s \in Registered /\ c = config[s] /\ st[s].tags # {}
        /\ st[s].source = c.auto
    BY <1>5, <1>6 DEF AccessInv, AppliedRight, Apply
  <2>2. InForce(s, c)
    BY <1>6, <2>1 DEF AccessInv, AllInForce, Covered
  <2>3. TagsOf[s] \subseteq ProtectedTags /\ (c.auto => AutoTag \in ProtectedTags)
    <3>1. st[s].tags = TagsOf[s]
      BY <2>1 DEF AccessInv, TagsWhole
    <3>2. TagsOf[s] \subseteq Recorded(s) /\ (c.auto => AutoTag \in Recorded(s))
      BY <2>1, <3>1 DEF Recorded
    <3> QED BY <2>1, <3>2, ProtectedMember
  <2>4. c.ssh # {} /\ c.ssh \subseteq TagsOf[s]
    BY <1>2, <2>1, ChoiceRight DEF WellTyped
  <2>5. ASSUME NEW r \in policy.rules, r.dst = c.ssh,
               r.from = "admin" \/ c.auto
        PROVE  r \in policy'.rules
    <3>1. ASSUME NEW q \in plan[p].rules, q.from = r.from
          PROVE  q.dst \intersect r.dst = {}
      <4>1. q.dst \subseteq plan[p].owners
        BY <1>3, <1>4, <2>3, <2>5, <3>1 DEF Justified
      <4> QED BY <1>4, <2>3, <2>4, <2>5, <4>1
    <3> QED BY <1>3, <2>4, <2>5, <3>1, RuleSurvives
  <2>6. TagsOf[s] \subseteq policy'.owners /\ (c.auto => AutoTag \in policy'.owners)
    BY <1>4, <2>2, <2>3 DEF InForce
  <2>7. c.auto => AutoRule(c) \in policy'.rules
    <3>1. AutoRule(c).dst = c.ssh
      BY DEF AutoRule
    <3> QED BY <2>2, <2>5, <3>1 DEF InForce
  <2>8. PICK r \in policy.rules : r.from = "admin" /\ r.dst = c.ssh
    BY <2>2 DEF InForce, HumanMatches
  <2>9. r \in policy'.rules
    BY <2>5, <2>8
  <2> QED BY <2>6, <2>7, <2>8, <2>9 DEF InForce, HumanMatches
<1>7. AllInForce'
  BY <1>6, ForceBy
<1>8. TagsWhole'
  BY DEF AccessInv, TagsWhole, Apply, Registered
<1> QED BY <1>1, <1>3, <1>7, <1>8, LeaveAccess DEF Apply, Registered

(* Deletes, imports, lost files and edits take what they touch out of what  *)
(* is in force; administrators who only add take nothing away.              *)
LEMMA BesideAccess ==
  ASSUME AccessInv,
         \/ \E s \in Server :
              DeleteServer(s) \/ Import(s) \/ DeviceLeaves(s) \/ LoseFiles(s) \/ EditConfig(s)
         \/ AdminAdds \/ AdminRemoves \/ UNCHANGED vars
  PROVE  AccessInv'
<1>1. JobInv'
  BY BesideLock, JobStep DEF AccessInv
<1>2. JobInv /\ WellTyped
  BY DEF AccessInv, JobInv
<1>3. UNCHANGED <<at, srv, cfg, read>>
  BY DEF DeleteServer, Import, DeviceLeaves, LoseFiles, EditConfig, AdminAdds, AdminRemoves,
         vars, job
<1>4. ASSUME NEW s \in Server, applied'[s] # None
      PROVE  /\ applied'[s] = applied[s] /\ s \in Registered
             /\ s \in Registered' /\ st'[s] = st[s] /\ config'[s] = config[s]
  <2>1. applied'[s] = applied[s]
    BY <1>2, <1>4 DEF WellTyped, DeleteServer, Import, DeviceLeaves, LoseFiles, EditConfig,
                      AdminAdds, AdminRemoves, vars
  <2>2. s \in Registered
    BY <1>4, <2>1 DEF AccessInv, AppliedRight
  <2>3. st'[s] = st[s]
    BY <1>2, <1>4, <2>2 DEF WellTyped, DeleteServer, Import, DeviceLeaves, LoseFiles,
                      EditConfig, AdminAdds, AdminRemoves, vars
  <2>4. config'[s] = config[s]
    BY <1>2, <1>4, <2>2 DEF WellTyped, DeleteServer, Import, DeviceLeaves, LoseFiles,
                      EditConfig, AdminAdds, AdminRemoves, vars
  <2> QED BY <2>1, <2>2, <2>3, <2>4 DEF Registered
<1>5. \A s \in Server : applied'[s] # None =>
         /\ Recording(s)' = Recording(s) /\ (Covered(s)' => Covered(s))
  BY <1>3, <1>4 DEF Recording, Covered
<1>6. AppliedRight'
  <2>1. \A s \in Server : applied'[s] # None =>
         /\ s \in Registered' /\ applied'[s] = config'[s]
         /\ Recording(s)' \/ st'[s].source = applied'[s].auto
    BY <1>4, <1>5 DEF AccessInv, AppliedRight
  <2>2. ASSUME NEW p \in Proc, at'[p] = "record"
        PROVE  applied'[srv'[p]] \in {None, cfg'[p]}
    <3>1. srv[p] \in Server /\ applied[srv[p]] \in {None, cfg[p]}
      BY <1>2, <1>3, <2>2, InHand DEF AccessInv, AppliedRight, AfterWrite
    <3> QED BY <1>3, <1>4, <3>1
  <2> QED BY <2>1, <2>2 DEF AppliedRight
<1>7. TagsWhole'
  <2> SUFFICES ASSUME NEW s \in Server, st'[s] # None
               PROVE  st'[s].tags \in {{}, TagsOf[s]}
    BY DEF TagsWhole, Registered
  <2>1. [Fresh EXCEPT !.tags = TagsOf[s]].tags = TagsOf[s]
    BY DEF Fresh
  <2>2. st'[s] = st[s] \/ st'[s] = [Fresh EXCEPT !.tags = TagsOf[s]]
    BY <1>2 DEF WellTyped, DeleteServer, Import, DeviceLeaves, LoseFiles, EditConfig,
                AdminAdds, AdminRemoves, vars
  <2> QED BY <2>1, <2>2 DEF AccessInv, TagsWhole, Registered
<1>8. RevokeRight'
  <2> SUFFICES ASSUME NEW p \in Proc
               PROVE  /\ at[p] = "sharers" => ~st'[srv[p]].source
                      /\ at[p] \in {"revoke", "unpublish"} => \A s \in Server :
                           applied'[s] # None /\ applied'[s].auto => applied'[s].ssh # cfg[p].ssh
    BY <1>3 DEF RevokeRight
  <2>1. at[p] = "sharers" => st'[srv[p]] = st[srv[p]]
    <3> SUFFICES ASSUME at[p] = "sharers" PROVE st'[srv[p]] = st[srv[p]]
      OBVIOUS
    <3>1. srv[p] \in Server /\ srv[p] \in Registered
      BY <1>2, InHand DEF AfterWrite
    <3> QED BY <1>2, <3>1 DEF WellTyped, DeleteServer, Import, DeviceLeaves, LoseFiles,
                 EditConfig, AdminAdds, AdminRemoves, vars, Untouched
  <2> QED BY <1>4, <2>1 DEF AccessInv, RevokeRight
<1>9. AllInForce'
  <2> SUFFICES ASSUME NEW s \in Server, NEW c, c = applied'[s], c # None, Covered(s)'
               PROVE  InForce(s, c)'
    BY ForceBy
  <2>1. InForce(s, c)
    BY <1>4, <1>5 DEF AccessInv, AllInForce
  <2>2. policy.owners \subseteq policy'.owners /\ policy.rules \subseteq policy'.rules
    <3>1. CASE AdminAdds
      BY <1>2, <3>1 DEF WellTyped, AdminAdds, Policy
    <3>2. CASE AdminRemoves
      BY <3>2 DEF AdminRemoves
    <3> QED BY <3>1, <3>2 DEF DeleteServer, Import, DeviceLeaves, LoseFiles, EditConfig, vars
  <2> QED BY <2>1, <2>2 DEF InForce, HumanMatches
<1> QED BY <1>1, <1>6, <1>7, <1>8, <1>9 DEF AccessInv

LEMMA AccessStep ==
  ASSUME AccessInv, [Next]_vars
  PROVE  AccessInv'
<1>1. ASSUME NEW p \in Proc, NEW s \in Server, NEW k \in Working, Start(p, k, s)
      PROVE  AccessInv'
  BY <1>1, StartAccess
<1>2. ASSUME NEW p \in Proc,
             \/ ReadPolicy(p) \/ Publish(p) \/ RecordChange(p) \/ DecideRevoke(p)
             \/ Revoke(p) \/ Validate(p) \/ Bind(p) \/ Fail(p)
             \/ BeginReconcile(p) \/ Preview(p) \/ Replan(p) \/ Apply(p)
      PROVE  AccessInv'
  BY <1>2, ReadPolicyAccess, PublishAccess, RecordChangeAccess, DecideRevokeAccess,
     RevokeAccess, ValidateAccess, BindAccess, FailAccess, PreviewAccess, ApplyAccess
<1> QED BY <1>1, <1>2, BesideAccess DEF Next, Working

(* Everything that the policy file, the states and the running command owe  *)
(* each other.                                                              *)
THEOREM AccessInvariant == Spec => []AccessInv
<1>1. Init => AccessInv
  BY JobInit DEF Init, AccessInv, AppliedRight, TagsWhole, RevokeRight, AllInForce, Registered
<1> QED BY <1>1, AccessStep, PTL DEF Spec

(* What a complete server put in force stays in force, whatever the other   *)
(* servers, their deletes, ssh-policy and reconcile do: its tags keep their *)
(* owner, its human rule and its accept rule stay.                          *)
THEOREM AccessIsKept == Spec => []AccessKept
<1>1. AccessInv => AccessKept
  BY DEF AccessInv, AllInForce, Covered, AccessKept, Registered
<1> QED BY <1>1, AccessInvariant, PTL
=============================================================================
