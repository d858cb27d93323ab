--------------------------- MODULE HostAccessProofs ---------------------------
(***************************************************************************)
(* What holds of HostAccess for any passwords, configurations, operator's  *)
(* rules and dependants, and any number of failures and acts.              *)
(*                                                                         *)
(* Each facet of the host has a part of the invariant that says what a     *)
(* script relies on between two of its commands, and what it vouched for;  *)
(* a script never touches another's facet except to undo it.               *)
(***************************************************************************)
EXTENDS HostAccess, TLAPS

StepNames == {"ready", "password", "users", "connector", "tools", "lockdown", "gate", "openssh"}
SudoSteps == {"strip cloud", "strip boot", "verify sudo"}
UserSteps == {"processes", "drop-ins", "userdel"}
ConnectorSteps == {"candidate", "unit", "restart"}
EgressSteps == {"allow", "prove"}
OpensshSteps == {"preflight", "record", "disable", "mask", "condition"}

Record == [unit : {"none", "enabled"}, cond : BOOLEAN, changed : BOOLEAN]

(* What a run has in hand.                                                  *)
JobTyped ==
    /\ config \in [tunnel : BOOLEAN, restricted : BOOLEAN, reboot : BOOLEAN, off : BOOLEAN]
    /\ at \in {"rest"} \union StepNames \union SudoSteps \union UserSteps \union ConnectorSteps
                \union EgressSteps \union OpensshSteps
    /\ who \in {"none", "create", "bootstrap", "fix"} /\ (at = "rest" <=> who = "none")
    /\ key \in Passwords \union {"none"} /\ (who = "none" <=> key = "none")
    /\ script \in [cloud : SUBSET Forms, boot : SUBSET Forms, seen : SUBSET Dependants]
    /\ script.cloud \union script.boot # {} => at \in {"strip boot", "verify sudo"}
    /\ kept \subseteq Facets /\ faults \in 0 .. Faults /\ edits \in 0 .. Edits

(* The password is set before the grant goes, and nothing that the grant's  *)
(* removal vouched for comes back unless its script runs again.             *)
SudoRight ==
    /\ pw \in Passwords \union {"none"} /\ sudoers \in [Files -> SUBSET Forms]
    /\ pw = "none" => "free" \in sudoers["boot"]
    /\ at \in SudoSteps => pw # "none" /\ "sudo" \notin kept
    /\ "sudo" \in kept => pw # "none" /\ ~Free

(* A removal goes on only on a host whose rules sudo reads as the script    *)
(* does, and first locks the account, so that nobody logs in as it after    *)
(* its processes were looked for; no backup of the password script names an *)
(* account that is removed.                                                 *)
UsersRight ==
    /\ account \in {"open", "locked", "gone"} /\ busy \in BOOLEAN
    /\ busy => account # "gone"
    /\ at \in UserSteps => account # "open" /\ sudoers["elsewhere"] = {} /\ "account" \notin kept
    /\ at \in {"drop-ins", "userdel"} => ~busy
    /\ "account" \in kept =>
         /\ account = "gone" /\ \A f \in Files : ~Named(f)
         /\ (script.cloud \union script.boot) \cap {"own", "list"} = {}

(* A unit starts a connector whose receipt names it; a repair has a unit to *)
(* restart, or nothing to run.                                              *)
ConnectorRight ==
    /\ conn \in [trust : {"none", "ours"}, source : {"none", "legacy", "ours", "changed"},
                 build : Builds, receipt : {"none", "cloudflare"}, unit : BOOLEAN, running : Builds]
    /\ at \in {"unit", "restart"} => Provenance
    /\ at \in ConnectorSteps => "connector" \notin kept
    /\ at = "restart" => who # "create"
    /\ at \in {"candidate", "restart"} /\ who # "create" =>
         "process" \notin kept /\ (config.tunnel => conn.unit)
    /\ "connector" \in kept => Provenance /\ (config.tunnel => conn.unit)
    /\ "process" \in kept => Provenance /\ conn.running = conn.build

EgressRight ==
    /\ ufw \in [on : BOOLEAN, out : {"allow", "deny"}, rules : BOOLEAN]
    /\ at \in EgressSteps => config.restricted
    /\ "egress" \in kept => config.restricted /\ InForce

GateRight == gate \in BOOLEAN /\ ("gate" \in kept => gate)

(* The units change only after they were recorded, and sshd stops only once *)
(* nothing that was seen gets to it.                                        *)
OpensshRight ==
    /\ ssh \in [unit : {"enabled", "disabled", "masked"}, cond : BOOLEAN, live : BOOLEAN,
                stray : BOOLEAN, changed : BOOLEAN, record : Record]
    /\ served \in BOOLEAN /\ uses \subseteq Dependants
    /\ ssh.record = NoRecord => ssh.unit = "enabled" /\ ~ssh.changed
    /\ ~ssh.record.changed
    /\ at \in {"disable", "mask", "condition"} => ssh.record # NoRecord
    /\ at = "condition" => ssh.unit = "masked"
    /\ at \in OpensshSteps => "openssh" \notin kept
    /\ "openssh" \in kept => ssh.unit = "masked" /\ ssh.cond /\ ~ssh.live /\ ~ssh.stray
    /\ ~config.tunnel => \A u \in uses : u.at # "cloud"
    /\ at \in {"preflight", "record", "disable"} => \A u \in script.seen : ~Reaches(u)

HostInv ==
    /\ JobTyped /\ SudoRight /\ UsersRight /\ ConnectorRight /\ EgressRight
    /\ GateRight /\ OpensshRight
-----------------------------------------------------------------------------
(* How scripts end *)

LEMMA StepsAre == {Steps[i] : i \in DOMAIN Steps} = StepNames
  BY DEF Steps, StepNames

LEMMA AfterIs ==
  ASSUME NEW step
  PROVE  After(step) \in {"rest"} \union StepNames
<1> DEFINE later == {i \in DOMAIN Steps : Due(Steps[i]) /\ \E j \in 1 .. i - 1 : Steps[j] = step}
<1>1. later \subseteq 1 .. 8
  BY DEF Steps
<1> HIDE DEF later
<1>2. later # {} => \E i \in later : \A j \in later : i <= j
  <2>1. CASE \E i \in later : i = 1
    BY <1>1, <2>1
  <2>2. CASE 1 \notin later /\ 2 \in later
    BY <1>1, <2>2
  <2>3. CASE 1 \notin later /\ 2 \notin later /\ 3 \in later
    BY <1>1, <2>3
  <2>4. CASE 1 \notin later /\ 2 \notin later /\ 3 \notin later /\ 4 \in later
    BY <1>1, <2>4
  <2>5. CASE later \subseteq 5 .. 8 /\ 5 \in later
    BY <2>5
  <2>6. CASE later \subseteq 6 .. 8 /\ 6 \in later
    BY <2>6
  <2>7. CASE later \subseteq 7 .. 8 /\ 7 \in later
    BY <2>7
  <2>8. CASE \A i \in later : i = 8
    BY <2>8
  <2> QED BY <1>1, <2>1, <2>2, <2>3, <2>4, <2>5, <2>6, <2>7, <2>8
<1>3. later # {} => (CHOOSE i \in later : \A j \in later : i <= j) \in 1 .. 8
  BY <1>1, <1>2
<1>4. DOMAIN Steps = 1 .. 8
  BY DEF Steps
<1> QED BY <1>3, <1>4, StepsAre DEF After, later

(* Finish and Stop: the next step that is due, or rest.                     *)
Concludes ==
    /\ config' = config /\ script' = NoScript
    /\ \/ at' = "rest" /\ who' = "none" /\ key' = "none"
       \/ at' \in StepNames /\ who' = who /\ key' = key

LEMMA StopShape ==
  ASSUME Stop
  PROVE  Concludes /\ kept' = kept
  BY DEF Stop, Rest, Concludes

LEMMA FinishShape ==
  ASSUME NEW step, NEW facets, Finish(step, facets)
  PROVE  Concludes /\ kept' = kept \union facets
<1>1. After(step) \in {"rest"} \union StepNames
  BY AfterIs
<1> QED BY <1>1 DEF Finish, Rest, Concludes, session
-----------------------------------------------------------------------------
(* A facet that a step leaves alone *)

LEMMA CountersStay ==
  ASSUME HostAssumption, faults \in 0 .. Faults, edits \in 0 .. Edits, NoFault \/ Fault \/ Edit
  PROVE  faults' \in 0 .. Faults /\ edits' \in 0 .. Edits
  BY DEF HostAssumption, NoFault, Fault, Edit, counters

(* A script that ends, well or not.                                         *)
LEMMA JobEnds ==
  ASSUME HostAssumption, JobTyped, at # "rest", Concludes, kept' \subseteq Facets, NoFault \/ Fault
  PROVE  JobTyped'
<1>1. faults' \in 0 .. Faults /\ edits' \in 0 .. Edits
  BY CountersStay DEF JobTyped
<1>2. "rest" \notin StepNames
  BY DEF StepNames
<1>3. script' = NoScript /\ config' = config
  BY DEF Concludes
<1>4. script' \in [cloud : SUBSET Forms, boot : SUBSET Forms, seen : SUBSET Dependants]
      /\ script'.cloud \union script'.boot = {}
  BY <1>3 DEF NoScript
<1>5. /\ at' \in {"rest"} \union StepNames
      /\ who' \in {"none", "create", "bootstrap", "fix"} /\ (at' = "rest" <=> who' = "none")
      /\ key' \in Passwords \union {"none"} /\ (who' = "none" <=> key' = "none")
  BY <1>2 DEF JobTyped, Concludes
<1> QED BY <1>1, <1>3, <1>4, <1>5 DEF JobTyped

(* A script that goes on.                                                   *)
LEMMA JobGoes ==
  ASSUME HostAssumption, JobTyped, at # "rest", UNCHANGED session, kept' \subseteq Facets, NoFault \/ Fault,
         at' \in SudoSteps \union UserSteps \union ConnectorSteps \union EgressSteps \union OpensshSteps,
         script' \in [cloud : SUBSET Forms, boot : SUBSET Forms, seen : SUBSET Dependants],
         script'.cloud \union script'.boot # {} => at' \in {"strip boot", "verify sudo"}
  PROVE  JobTyped'
<1>1. faults' \in 0 .. Faults /\ edits' \in 0 .. Edits
  BY CountersStay DEF JobTyped
<1>2. at' # "rest"
  BY DEF SudoSteps, UserSteps, ConnectorSteps, EgressSteps, OpensshSteps
<1> QED BY <1>1, <1>2 DEF JobTyped, session

LEMMA SudoStays ==
  ASSUME SudoRight, UNCHANGED admin, "sudo" \in kept' => "sudo" \in kept, at' \in SudoSteps => at' = at
  PROVE  SudoRight'
  BY DEF SudoRight, admin, Free

LEMMA UsersStay ==
  ASSUME UsersRight, UNCHANGED <<sudoers, account, busy>>,
         "account" \in kept' => "account" \in kept, at' \in UserSteps => at' = at,
         script'.cloud \union script'.boot \subseteq script.cloud \union script.boot
  PROVE  UsersRight'
<1>1. \A f : Named(f)' <=> Named(f)
  BY DEF Named
<1> QED BY <1>1 DEF UsersRight, UserSteps

LEMMA ConnectorStays ==
  ASSUME ConnectorRight, UNCHANGED conn, config'.tunnel = config.tunnel,
         kept' \cap {"connector", "process"} \subseteq kept,
         at' \in ConnectorSteps => at' = at /\ who' = who
  PROVE  ConnectorRight'
<1>1. Provenance' <=> Provenance
  BY DEF Provenance
<1> QED BY <1>1 DEF ConnectorRight, ConnectorSteps

LEMMA EgressStays ==
  ASSUME EgressRight, UNCHANGED ufw, config'.restricted = config.restricted,
         "egress" \in kept' => "egress" \in kept, at' \in EgressSteps => at' = at
  PROVE  EgressRight'
  BY DEF EgressRight, InForce

LEMMA GateStays ==
  ASSUME GateRight, UNCHANGED gate, "gate" \in kept' => "gate" \in kept
  PROVE  GateRight'
  BY DEF GateRight

LEMMA OpensshStays ==
  ASSUME OpensshRight, UNCHANGED openssh, config'.tunnel = config.tunnel,
         "openssh" \in kept' => "openssh" \in kept,
         at' \in OpensshSteps => at' = at /\ script'.seen = script.seen
  PROVE  OpensshRight'
  BY DEF OpensshRight, openssh, OpensshSteps, Reaches

(* A step of a script whose own commands are steps and which vouches for    *)
(* facets.                                                                  *)
Moves(steps, facets) ==
    /\ at # "rest" /\ config' = config
    /\ kept' \subseteq Facets /\ kept' \ facets \subseteq kept
    /\ at' \in {"rest"} \union StepNames \union steps
    /\ NoFault \/ Fault

LEMMA FinishMoves ==
  ASSUME HostInv, at # "rest", NEW steps, NEW facets, facets \subseteq Facets,
         NEW step, NEW gained, gained \subseteq facets, Finish(step, gained), NoFault \/ Fault
  PROVE  Moves(steps, facets) /\ Concludes
<1>1. Concludes /\ kept' = kept \union gained
  BY FinishShape
<1> QED BY <1>1 DEF Moves, Concludes, HostInv, JobTyped

LEMMA StopMoves ==
  ASSUME HostInv, at # "rest", NEW steps, NEW facets, Stop, NoFault \/ Fault
  PROVE  Moves(steps, facets) /\ Concludes /\ kept' = kept
<1>1. Concludes /\ kept' = kept
  BY StopShape
<1> QED BY <1>1 DEF Moves, Concludes, HostInv, JobTyped

LEMMA GoMoves ==
  ASSUME HostInv, at # "rest", NEW steps, NEW facets, NEW step \in steps, Go(step), NoFault
  PROVE  Moves(steps, facets) /\ UNCHANGED session /\ kept' = kept /\ script' = script
  BY DEF Go, Moves, HostInv, JobTyped, session

LEMMA OpenMoves ==
  ASSUME HostInv, at # "rest", NEW steps, NEW facets, NEW step \in steps, Open(facets, step), NoFault
  PROVE  Moves(steps, facets) /\ UNCHANGED session /\ kept' = kept \ facets
  BY DEF Open, Moves, HostInv, JobTyped, session

(* A script that ends and leaves the host as it was.                        *)
LEMMA NothingTouched ==
  ASSUME HostAssumption, HostInv, Concludes, Moves({}, {}), UNCHANGED <<admin, image, network, openssh>>
  PROVE  HostInv'
<1>1. JobTyped'
  BY JobEnds DEF HostInv, Moves
<1>2. script'.cloud \union script'.boot = {}
  BY DEF Concludes, NoScript
<1>3. /\ at' \notin SudoSteps /\ at' \notin UserSteps /\ at' \notin ConnectorSteps
      /\ at' \notin EgressSteps /\ at' \notin OpensshSteps
  BY DEF Moves, StepNames, SudoSteps, UserSteps, ConnectorSteps, EgressSteps, OpensshSteps
<1>4. kept' \subseteq kept /\ config' = config
  BY DEF Moves
<1>5. SudoRight'
  BY <1>3, <1>4, SudoStays DEF HostInv
<1>6. UsersRight'
  BY <1>2, <1>3, <1>4, UsersStay DEF HostInv, admin, image
<1>7. ConnectorRight'
  BY <1>3, <1>4, ConnectorStays DEF HostInv, network
<1>8. EgressRight' /\ GateRight'
  BY <1>3, <1>4, EgressStays, GateStays DEF HostInv, network
<1>9. OpensshRight'
  BY <1>3, <1>4, OpensshStays DEF HostInv
<1> QED BY <1>1, <1>5, <1>6, <1>7, <1>8, <1>9 DEF HostInv

LEMMA StopKeeps ==
  ASSUME HostAssumption, HostInv, at # "rest", Stop, NoFault \/ Fault,
         UNCHANGED <<admin, image, network, openssh>>
  PROVE  HostInv'
<1>1. Moves({}, {}) /\ Concludes
  BY StopMoves
<1> QED BY <1>1, NothingTouched

LEMMA FinishKeeps ==
  ASSUME HostAssumption, HostInv, at # "rest", NEW step, Finish(step, {}), NoFault,
         UNCHANGED <<admin, image, network, openssh>>
  PROVE  HostInv'
<1>1. Moves({}, {}) /\ Concludes
  BY FinishMoves
<1> QED BY <1>1, NothingTouched
-----------------------------------------------------------------------------
(* AdminPasswordScript *)

LEMMA ChangePasswordKeeps == ASSUME HostAssumption, HostInv, ChangePassword PROVE HostInv'
<1>1. at = "password" /\ UNCHANGED <<sudoers, image, network, openssh>>
  BY DEF ChangePassword
<1>2. key \in Passwords
  BY <1>1 DEF HostInv, JobTyped
<1>3. CASE pw' = key /\ Open({"sudo"}, "strip cloud") /\ script' = script /\ NoFault
  <2>1. Moves(SudoSteps, {"sudo"}) /\ UNCHANGED session /\ kept' = kept \ {"sudo"} /\ at' = "strip cloud"
    BY <1>1, <1>3, OpenMoves DEF SudoSteps, Open
  <2>2. JobTyped'
    BY <1>1, <1>3, <2>1, JobGoes DEF HostInv, JobTyped, Moves, SudoSteps
  <2>3. SudoRight'
    BY <1>1, <1>2, <1>3, <2>1 DEF HostAssumption, HostInv, SudoRight
  <2>4. UsersRight'
    BY <1>1, <1>3, <2>1, UsersStay DEF HostInv, image, UserSteps
  <2> QED BY <1>1, <2>1, <2>2, <2>3, <2>4, ConnectorStays, EgressStays, GateStays, OpensshStays
          DEF HostInv, network, session, ConnectorSteps, EgressSteps, OpensshSteps
<1>4. CASE pw' = pw /\ Stop /\ Fault
  BY <1>1, <1>4, StopKeeps DEF admin
<1> QED BY <1>3, <1>4 DEF ChangePassword

LEMMA StripCloudKeeps == ASSUME HostAssumption, HostInv, StripCloud PROVE HostInv'
<1>1. at = "strip cloud" /\ UNCHANGED <<pw, image, network, openssh>>
  BY DEF StripCloud
<1>2. CASE sudoers' = sudoers /\ Stop /\ Fault
  BY <1>1, <1>2, StopKeeps DEF admin
<1>3. CASE /\ sudoers' = [sudoers EXCEPT !["cloud"] = @ \ {"free", "own"}]
           /\ script' = [script EXCEPT !.cloud = sudoers["cloud"]]
           /\ at' = "strip boot" /\ UNCHANGED <<session, kept>> /\ NoFault
  <2>1. /\ sudoers \in [Files -> SUBSET Forms] /\ sudoers' \in [Files -> SUBSET Forms]
        /\ sudoers'["cloud"] = sudoers["cloud"] \ {"free", "own"}
        /\ \A f \in Files : sudoers'[f] \subseteq sudoers[f] /\ (f # "cloud" => sudoers'[f] = sudoers[f])
    BY <1>3 DEF HostInv, SudoRight, Files
  <2>2. /\ script' \in [cloud : SUBSET Forms, boot : SUBSET Forms, seen : SUBSET Dependants]
        /\ script'.cloud = sudoers["cloud"] /\ script'.boot = script.boot
    BY <1>3, <2>1 DEF HostInv, JobTyped, Files
  <2>3. JobTyped'
    BY <1>1, <1>3, <2>2, JobGoes DEF HostInv, JobTyped, SudoSteps
  <2>4. SudoRight'
    BY <1>1, <1>3, <2>1 DEF HostInv, SudoRight, SudoSteps, Files, Free
  <2>5. UsersRight'
    BY <1>1, <1>3, <2>1, <2>2 DEF HostInv, UsersRight, UserSteps, image, Named, Files
  <2> QED BY <1>1, <1>3, <2>3, <2>4, <2>5, ConnectorStays, EgressStays, GateStays, OpensshStays
          DEF HostInv, network, session, ConnectorSteps, EgressSteps, OpensshSteps
<1> QED BY <1>2, <1>3 DEF StripCloud

(* What is put back had been there when the script began.                   *)
LEMMA RestoredStop ==
  ASSUME HostAssumption, HostInv, at \in SudoSteps, sudoers' = Restored, Stop, NoFault \/ Fault,
         UNCHANGED <<pw, image, network, openssh>>
  PROVE  HostInv'
<1>1. at # "rest"
  BY DEF SudoSteps
<1>2. Moves({}, {}) /\ Concludes /\ kept' = kept
  BY <1>1, StopMoves
<1>3. JobTyped'
  BY <1>1, <1>2, JobEnds DEF HostInv, Moves
<1>4. script \in [cloud : SUBSET Forms, boot : SUBSET Forms, seen : SUBSET Dependants]
      /\ script'.cloud \union script'.boot = {}
  BY <1>2 DEF HostInv, JobTyped, Concludes, NoScript
<1>5. sudoers \in [Files -> SUBSET Forms] /\ sudoers' \in [Files -> SUBSET Forms]
      /\ \A f \in Files : sudoers'[f] \in {sudoers[f], script.cloud, script.boot}
      /\ sudoers'["elsewhere"] = sudoers["elsewhere"]
  BY <1>4 DEF HostInv, SudoRight, Restored, Files
<1>6. at' \in {"rest"} \union StepNames
  BY <1>2 DEF Moves
<1>7. at' \notin SudoSteps /\ at' \notin UserSteps /\ at' \notin ConnectorSteps
      /\ at' \notin EgressSteps /\ at' \notin OpensshSteps
  BY <1>6 DEF StepNames, SudoSteps, UserSteps, ConnectorSteps, EgressSteps, OpensshSteps
<1>8. SudoRight'
  BY <1>2, <1>5, <1>7 DEF HostInv, SudoRight
<1>9. UsersRight'
  BY <1>2, <1>4, <1>5, <1>7 DEF HostInv, UsersRight, UserSteps, image, Named
<1> QED BY <1>2, <1>3, <1>7, <1>8, <1>9, ConnectorStays, EgressStays, GateStays, OpensshStays
        DEF HostInv, network, Moves

LEMMA StripBootKeeps == ASSUME HostAssumption, HostInv, StripBoot PROVE HostInv'
<1>1. at = "strip boot" /\ UNCHANGED <<pw, image, network, openssh>>
  BY DEF StripBoot
<1>2. CASE sudoers' = Restored /\ Stop /\ Fault
  BY <1>1, <1>2, RestoredStop DEF SudoSteps
<1>3. CASE /\ sudoers' = [sudoers EXCEPT !["boot"] = {}]
           /\ script' = [script EXCEPT !.boot = sudoers["boot"]]
           /\ at' = "verify sudo" /\ UNCHANGED <<session, kept>> /\ NoFault
  <2>1. /\ sudoers \in [Files -> SUBSET Forms] /\ sudoers' \in [Files -> SUBSET Forms]
        /\ \A f \in Files : sudoers'[f] \subseteq sudoers[f]
    BY <1>3 DEF HostInv, SudoRight, Files
  <2>2. /\ script' \in [cloud : SUBSET Forms, boot : SUBSET Forms, seen : SUBSET Dependants]
        /\ script'.cloud = script.cloud /\ script'.boot = sudoers["boot"]
    BY <1>3, <2>1 DEF HostInv, JobTyped, Files
  <2>3. JobTyped'
    BY <1>1, <1>3, <2>2, JobGoes DEF HostInv, JobTyped, SudoSteps
  <2>4. SudoRight'
    BY <1>1, <1>3, <2>1 DEF HostInv, SudoRight, SudoSteps, Free
  <2>5. UsersRight'
    BY <1>1, <1>3, <2>1, <2>2 DEF HostInv, UsersRight, UserSteps, image, Named, Files
  <2> QED BY <1>1, <1>3, <2>3, <2>4, <2>5, ConnectorStays, EgressStays, GateStays, OpensshStays
          DEF HostInv, network, session, ConnectorSteps, EgressSteps, OpensshSteps
<1> QED BY <1>2, <1>3 DEF StripBoot

LEMMA VerifySudoKeeps == ASSUME HostAssumption, HostInv, VerifySudo PROVE HostInv'
<1>1. at = "verify sudo" /\ UNCHANGED <<pw, image, network, openssh>>
  BY DEF VerifySudo
<1>2. CASE sudoers' = Restored /\ Stop /\ (NoFault \/ Fault)
  BY <1>1, <1>2, RestoredStop DEF SudoSteps
<1>3. CASE ~Free /\ pw = key /\ sudoers' = sudoers /\ Finish("password", {"sudo"}) /\ NoFault
  <2>1. Moves({}, {"sudo"}) /\ Concludes /\ kept' \subseteq kept \union {"sudo"}
    BY <1>1, <1>3, FinishMoves DEF Facets, Finish
  <2>2. JobTyped'
    BY <1>1, <2>1, JobEnds DEF HostInv, Moves
  <2>3. script'.cloud \union script'.boot = {}
    BY <2>1 DEF Concludes, NoScript
  <2>4. /\ at' \notin SudoSteps /\ at' \notin UserSteps /\ at' \notin ConnectorSteps
        /\ at' \notin EgressSteps /\ at' \notin OpensshSteps
    BY <2>1 DEF Moves, StepNames, SudoSteps, UserSteps, ConnectorSteps, EgressSteps, OpensshSteps
  <2>5. pw # "none"
    BY <1>1 DEF HostInv, SudoRight, SudoSteps
  <2>6. SudoRight'
    BY <1>1, <1>3, <2>4, <2>5 DEF HostInv, SudoRight, Free
  <2>7. UsersRight'
    BY <1>1, <1>3, <2>1, <2>3, <2>4, UsersStay DEF HostInv, image
  <2> QED BY <1>1, <2>1, <2>2, <2>4, <2>6, <2>7, ConnectorStays, EgressStays, GateStays, OpensshStays
          DEF HostInv, network, Moves
<1> QED BY <1>2, <1>3 DEF VerifySudo
-----------------------------------------------------------------------------
(* ImageUsersRemovalScript *)

LEMMA LockAccountKeeps == ASSUME HostAssumption, HostInv, LockAccount PROVE HostInv'
<1>1. at = "users" /\ UNCHANGED <<admin, busy, network, openssh>>
  BY DEF LockAccount
<1>2. CASE account' = account /\ Stop /\ (NoFault \/ Fault)
  BY <1>1, <1>2, StopKeeps DEF image
<1>3. CASE /\ RemovalAllowed /\ NoFault
           /\ account' = IF account = "gone" THEN "gone" ELSE "locked"
           /\ Open({"account"}, "processes") /\ script' = script
  <2>1. Moves(UserSteps, {"account"}) /\ UNCHANGED session /\ kept' = kept \ {"account"} /\ at' = "processes"
    BY <1>1, <1>3, OpenMoves DEF UserSteps, Open
  <2>2. JobTyped'
    BY <1>1, <1>3, <2>1, JobGoes DEF HostInv, JobTyped, Moves, UserSteps
  <2>3. UsersRight'
    BY <1>1, <1>3, <2>1 DEF HostInv, UsersRight, RemovalAllowed, OtherSources, admin
  <2> QED BY <1>1, <2>1, <2>2, <2>3, SudoStays, ConnectorStays, EgressStays, GateStays, OpensshStays
          DEF HostInv, network, session, SudoSteps, ConnectorSteps, EgressSteps, OpensshSteps
<1> QED BY <1>2, <1>3 DEF LockAccount

(* A command that leaves the host as it was and goes on with the removal.   *)
LEMMA RemovalGoes ==
  ASSUME HostAssumption, HostInv, at \in UserSteps, ~busy, NEW step \in UserSteps, Go(step), NoFault,
         UNCHANGED <<admin, image, network, openssh>>
  PROVE  HostInv'
<1>1. at # "rest" /\ at' = step
  BY DEF UserSteps, Go
<1>2. Moves(UserSteps, {}) /\ UNCHANGED session /\ kept' = kept /\ script' = script
  BY <1>1, GoMoves
<1>3. at' \notin SudoSteps \union ConnectorSteps \union EgressSteps \union OpensshSteps
  BY <1>1 DEF SudoSteps, UserSteps, ConnectorSteps, EgressSteps, OpensshSteps
<1>4. script.cloud \union script.boot = {}
  BY DEF HostInv, JobTyped, UserSteps
<1>5. JobTyped'
  BY <1>1, <1>2, <1>4, JobGoes DEF HostInv, JobTyped, Moves
<1>6. UsersRight'
  BY <1>1, <1>2 DEF HostInv, UsersRight, admin, image, Named
<1> QED BY <1>2, <1>3, <1>5, <1>6, SudoStays, ConnectorStays, EgressStays, GateStays, OpensshStays
        DEF HostInv, network, session

LEMMA CheckProcessesKeeps == ASSUME HostAssumption, HostInv, CheckProcesses PROVE HostInv'
  BY RemovalGoes, StopKeeps DEF CheckProcesses, UserSteps

LEMMA EditDropInKeeps == ASSUME HostAssumption, HostInv, EditDropIn PROVE HostInv'
<1>1. at = "drop-ins" /\ UNCHANGED <<pw, image, network, openssh>>
  BY DEF EditDropIn
<1>2. CASE sudoers' = sudoers /\ Stop /\ (NoFault \/ Fault)
  BY <1>1, <1>2, StopKeeps DEF admin
<1>3. CASE \E f \in Files : /\ sudoers' = [sudoers EXCEPT ![f] = @ \ {"own"}]
                            /\ Go("drop-ins") /\ NoFault
  <2>1. PICK f \in Files : sudoers' = [sudoers EXCEPT ![f] = @ \ {"own"}]
    BY <1>3
  <2>2. /\ sudoers \in [Files -> SUBSET Forms] /\ sudoers' \in [Files -> SUBSET Forms]
        /\ \A g \in Files : sudoers'[g] \subseteq sudoers[g] /\ sudoers[g] \subseteq sudoers'[g] \union {"own"}
    BY <2>1 DEF HostInv, SudoRight
  <2>3. Moves(UserSteps, {}) /\ UNCHANGED session /\ kept' = kept /\ script' = script /\ at' = at
    BY <1>1, <1>3, GoMoves DEF UserSteps, Go
  <2>4. JobTyped'
    BY <1>1, <2>3, JobGoes DEF HostInv, JobTyped, Moves, UserSteps
  <2>5. SudoRight'
    BY <1>1, <2>2, <2>3 DEF HostInv, SudoRight, SudoSteps, Free, Files
  <2>6. UsersRight'
    BY <1>1, <2>2, <2>3 DEF HostInv, UsersRight, UserSteps, image, Named, Files
  <2> QED BY <1>1, <2>3, <2>4, <2>5, <2>6, ConnectorStays, EgressStays, GateStays, OpensshStays
          DEF HostInv, network, session
<1>4. ASSUME NEW i \in DOMAIN DropIns PROVE DropIns[i] \in Files
  BY <1>4 DEF DropIns, Files
<1> QED BY <1>2, <1>3, <1>4 DEF EditDropIn

LEMMA DropInsEndKeeps == ASSUME HostAssumption, HostInv, DropInsEnd PROVE HostInv'
  BY RemovalGoes DEF DropInsEnd, UserSteps, HostInv, UsersRight

LEMMA DeleteAccountKeeps == ASSUME HostAssumption, HostInv, DeleteAccount PROVE HostInv'
<1>1. at = "userdel" /\ UNCHANGED <<admin, busy, network, openssh>>
  BY DEF DeleteAccount
<1>2. CASE account' = account /\ Stop /\ (NoFault \/ Fault)
  BY <1>1, <1>2, StopKeeps DEF image
<1>3. CASE ~PolicyNames /\ account' = "gone" /\ Finish("users", {"account"}) /\ NoFault
  <2>1. Moves({}, {"account"}) /\ Concludes
    BY <1>1, <1>3, FinishMoves DEF Facets
  <2>2. JobTyped'
    BY <1>1, <2>1, JobEnds DEF HostInv, Moves
  <2>3. script'.cloud \union script'.boot = {}
    BY <2>1 DEF Concludes, NoScript
  <2>4. /\ at' \notin SudoSteps /\ at' \notin UserSteps /\ at' \notin ConnectorSteps
        /\ at' \notin EgressSteps /\ at' \notin OpensshSteps
    BY <2>1 DEF Moves, StepNames, SudoSteps, UserSteps, ConnectorSteps, EgressSteps, OpensshSteps
  <2>5. \A f \in Files : ~Named(f)
    BY <1>1, <1>3 DEF HostInv, UsersRight, UserSteps, PolicyNames, Named, Read, Files
  <2>6. UsersRight'
    BY <1>1, <1>3, <2>3, <2>4, <2>5 DEF HostInv, UsersRight, admin, Named
  <2> QED BY <1>1, <2>1, <2>2, <2>4, <2>6, SudoStays, ConnectorStays, EgressStays, GateStays, OpensshStays
          DEF HostInv, network, Moves
<1> QED BY <1>2, <1>3 DEF DeleteAccount
-----------------------------------------------------------------------------
(* The tunnel connector *)

LEMMA CandidateIs ==
  ASSUME HostInv
  PROVE  /\ Candidate \in [trust : {"none", "ours"}, source : {"none", "legacy", "ours", "changed"},
                          build : Builds, receipt : {"none", "cloudflare"}, unit : BOOLEAN, running : Builds]
         /\ Candidate.build = "cloudflare" /\ Candidate.receipt = "cloudflare"
         /\ Candidate.unit = conn.unit /\ (Provenance => Candidate = conn)
         /\ Provenance => conn.build = "cloudflare"
<1>1. conn \in [trust : {"none", "ours"}, source : {"none", "legacy", "ours", "changed"},
                build : Builds, receipt : {"none", "cloudflare"}, unit : BOOLEAN, running : Builds]
  BY DEF HostInv, ConnectorRight
<1>2. Provenance => conn.build = "cloudflare" /\ conn.receipt = "cloudflare"
  BY <1>1 DEF Provenance
<1>3. CASE Provenance
  BY <1>1, <1>2, <1>3 DEF Candidate
<1>4. CASE ~Provenance
  BY <1>1, <1>4 DEF Candidate, Builds
<1> QED BY <1>2, <1>3, <1>4

(* What a command of the connector's script does not disturb.               *)
LEMMA ConnectorScript ==
  ASSUME HostAssumption, HostInv, NEW steps, steps \subseteq ConnectorSteps,
         Moves(steps, {"connector", "process"}), JobTyped', ConnectorRight',
         script'.cloud \union script'.boot \subseteq script.cloud \union script.boot,
         UNCHANGED <<admin, image, ufw, gate, openssh>>
  PROVE  HostInv'
<1>1. at' \notin SudoSteps \union UserSteps \union EgressSteps \union OpensshSteps
  BY DEF Moves, StepNames, SudoSteps, UserSteps, ConnectorSteps, EgressSteps, OpensshSteps
<1>2. config' = config /\ kept' \ {"connector", "process"} \subseteq kept
  BY DEF Moves
<1> QED BY <1>1, <1>2, SudoStays, UsersStay, EgressStays, GateStays, OpensshStays DEF HostInv, admin, image

(* The same for one that ends the script.                                   *)
LEMMA ConnectorEnds ==
  ASSUME HostAssumption, HostInv, Moves({}, {"connector", "process"}), Concludes, ConnectorRight',
         UNCHANGED <<admin, image, ufw, gate, openssh>>
  PROVE  HostInv'
<1>1. JobTyped'
  BY JobEnds DEF HostInv, Moves
<1>2. script'.cloud \union script'.boot = {}
  BY DEF Concludes, NoScript
<1> QED BY <1>1, <1>2, ConnectorScript

LEMMA ConnectorGoes ==
  ASSUME HostAssumption, HostInv, Moves(ConnectorSteps, {"connector", "process"}), at' \in ConnectorSteps,
         UNCHANGED <<session, script>>, at \in ConnectorSteps \union {"connector"}, ConnectorRight',
         UNCHANGED <<admin, image, ufw, gate, openssh>>
  PROVE  HostInv'
<1>1. script.cloud \union script.boot = {}
  BY DEF HostInv, JobTyped, ConnectorSteps
<1>2. JobTyped'
  BY <1>1, JobGoes DEF HostInv, JobTyped, Moves
<1> QED BY <1>2, ConnectorScript

(* A failure leaves the connector typed, and spares what was vouched for.   *)
LEMMA ConnectorStops ==
  ASSUME HostAssumption, HostInv, at \in ConnectorSteps \union {"connector"}, Stop, NoFault \/ Fault,
         conn' \in [trust : {"none", "ours"}, source : {"none", "legacy", "ours", "changed"},
                    build : Builds, receipt : {"none", "cloudflare"}, unit : BOOLEAN, running : Builds],
         "connector" \in kept => Provenance' /\ (config.tunnel => conn'.unit),
         "process" \in kept => Provenance' /\ conn'.running = conn'.build,
         UNCHANGED <<admin, image, ufw, gate, openssh>>
  PROVE  HostInv'
<1>1. at # "rest"
  BY DEF ConnectorSteps
<1>2. Moves({}, {"connector", "process"}) /\ Concludes /\ kept' = kept
  BY <1>1, StopMoves
<1>3. at' \notin ConnectorSteps /\ config' = config
  BY <1>2 DEF Moves, StepNames, ConnectorSteps
<1>4. ConnectorRight'
  BY <1>2, <1>3 DEF ConnectorRight, ConnectorSteps
<1> QED BY <1>2, <1>4, ConnectorEnds

LEMMA InstallTrustKeeps == ASSUME HostAssumption, HostInv, InstallTrust PROVE HostInv'
<1>1. at = "connector" /\ who = "create" /\ UNCHANGED <<admin, image, ufw, gate, openssh>>
  BY DEF InstallTrust
<1>2. CASE conn' \in {conn, [conn EXCEPT !.trust = "ours"]} /\ Stop /\ Fault
  <2>1. conn'.build = conn.build /\ conn'.receipt = conn.receipt /\ conn'.unit = conn.unit
        /\ conn'.running = conn.running
        /\ conn' \in [trust : {"none", "ours"}, source : {"none", "legacy", "ours", "changed"},
                      build : Builds, receipt : {"none", "cloudflare"}, unit : BOOLEAN, running : Builds]
    BY <1>2 DEF HostInv, ConnectorRight
  <2> QED BY <1>1, <1>2, <2>1, ConnectorStops DEF HostInv, ConnectorRight, Provenance
<1>3. CASE /\ conn' = [conn EXCEPT !.trust = "ours", !.source = "ours"]
           /\ Open({"connector"}, "candidate") /\ script' = script /\ NoFault
  <2>1. conn'.build = conn.build /\ conn'.receipt = conn.receipt /\ conn'.unit = conn.unit
        /\ conn'.running = conn.running
        /\ conn' \in [trust : {"none", "ours"}, source : {"none", "legacy", "ours", "changed"},
                      build : Builds, receipt : {"none", "cloudflare"}, unit : BOOLEAN, running : Builds]
    BY <1>3 DEF HostInv, ConnectorRight
  <2>2. Moves(ConnectorSteps, {"connector"}) /\ UNCHANGED session /\ kept' = kept \ {"connector"}
        /\ at' = "candidate"
    BY <1>1, <1>3, OpenMoves DEF ConnectorSteps, Open
  <2>3. ConnectorRight'
    BY <1>1, <2>1, <2>2 DEF HostInv, ConnectorRight, Provenance, session
  <2> QED BY <1>1, <1>3, <2>2, <2>3, ConnectorGoes DEF Moves, ConnectorSteps
<1> QED BY <1>2, <1>3 DEF InstallTrust

LEMMA RepairTrustKeeps == ASSUME HostAssumption, HostInv, RepairTrust PROVE HostInv'
<1>1. at = "connector" /\ who = "fix" /\ UNCHANGED <<admin, image, ufw, gate, openssh>>
  BY DEF RepairTrust
<1>2. CASE conn' = conn /\ Finish("connector", {}) /\ NoFault
  BY <1>1, <1>2, FinishKeeps DEF network
<1>3. CASE conn' = conn /\ Stop /\ (NoFault \/ Fault)
  BY <1>1, <1>3, StopKeeps DEF network
<1>4. CASE /\ Dormant \/ conn.unit
           /\ conn' = IF Provenance THEN conn ELSE [conn EXCEPT !.source = "ours"]
           /\ Open({"connector", "process"}, "candidate") /\ script' = script /\ NoFault
  <2>1. conn'.unit = conn.unit
        /\ conn' \in [trust : {"none", "ours"}, source : {"none", "legacy", "ours", "changed"},
                      build : Builds, receipt : {"none", "cloudflare"}, unit : BOOLEAN, running : Builds]
    BY <1>4 DEF HostInv, ConnectorRight
  <2>2. Moves(ConnectorSteps, {"connector", "process"}) /\ UNCHANGED session
        /\ kept' = kept \ {"connector", "process"} /\ at' = "candidate"
    BY <1>1, <1>4, OpenMoves DEF ConnectorSteps, Open
  <2>3. ConnectorRight'
    BY <1>1, <1>4, <2>1, <2>2 DEF ConnectorRight, session, Dormant
  <2> QED BY <1>1, <1>4, <2>2, <2>3, ConnectorGoes DEF ConnectorSteps
<1> QED BY <1>2, <1>3, <1>4 DEF RepairTrust

LEMMA InstallCandidateKeeps == ASSUME HostAssumption, HostInv, InstallCandidate PROVE HostInv'
<1> DEFINE new == Candidate
<1>1. at = "candidate" /\ UNCHANGED <<admin, image, ufw, gate, openssh>>
  BY DEF InstallCandidate
<1>2. /\ new \in [trust : {"none", "ours"}, source : {"none", "legacy", "ours", "changed"},
                   build : Builds, receipt : {"none", "cloudflare"}, unit : BOOLEAN, running : Builds]
      /\ new.build = "cloudflare" /\ new.receipt = "cloudflare" /\ new.unit = conn.unit
      /\ Provenance => new = conn
  BY CandidateIs
<1>3. InstallCandidate =>
        \/ /\ conn' = new /\ NoFault
           /\ \/ who = "create" /\ Go("unit")
              \/ who # "create" /\ Dormant /\ Finish("connector", {"connector"})
              \/ who # "create" /\ Go("restart")
        \/ conn' \in {conn, [new EXCEPT !.receipt = conn.receipt]} /\ Stop /\ Fault
  BY DEF InstallCandidate
<1> HIDE DEF new
<1>4. CASE conn' \in {conn, [new EXCEPT !.receipt = conn.receipt]} /\ Stop /\ Fault
  <2>1. conn' \in [trust : {"none", "ours"}, source : {"none", "legacy", "ours", "changed"},
                   build : Builds, receipt : {"none", "cloudflare"}, unit : BOOLEAN, running : Builds]
        /\ (Provenance => conn' = conn)
    BY <1>2, <1>4 DEF HostInv, ConnectorRight
  <2> QED BY <1>1, <1>4, <2>1, ConnectorStops DEF HostInv, ConnectorRight, ConnectorSteps, Provenance
<1>5. CASE conn' = new /\ NoFault /\ who = "create" /\ Go("unit")
  <2>1. Moves(ConnectorSteps, {"connector", "process"}) /\ UNCHANGED <<session, script>> /\ kept' = kept
        /\ at' = "unit"
    BY <1>1, <1>5, GoMoves DEF ConnectorSteps, Go
  <2>2. ConnectorRight'
    BY <1>1, <1>2, <1>5, <2>1 DEF HostInv, ConnectorRight, ConnectorSteps, Provenance, session
  <2> QED BY <1>1, <2>1, <2>2, ConnectorGoes DEF ConnectorSteps
<1>6. CASE conn' = new /\ NoFault /\ who # "create" /\ Go("restart")
  <2>1. Moves(ConnectorSteps, {"connector", "process"}) /\ UNCHANGED <<session, script>> /\ kept' = kept
        /\ at' = "restart"
    BY <1>1, <1>6, GoMoves DEF ConnectorSteps, Go
  <2>2. ConnectorRight'
    BY <1>1, <1>2, <1>6, <2>1 DEF HostInv, ConnectorRight, ConnectorSteps, Provenance, session
  <2> QED BY <1>1, <2>1, <2>2, ConnectorGoes DEF ConnectorSteps
<1>7. CASE conn' = new /\ NoFault /\ who # "create" /\ Dormant /\ Finish("connector", {"connector"})
  <2>1. Moves({}, {"connector", "process"}) /\ Concludes /\ kept' = kept \union {"connector"}
    BY <1>1, <1>7, FinishMoves, FinishShape DEF Facets
  <2>2. at' \notin ConnectorSteps /\ config' = config
    BY <2>1 DEF Moves, StepNames, ConnectorSteps
  <2>3. ConnectorRight'
    BY <1>1, <1>2, <1>7, <2>1, <2>2 DEF HostInv, ConnectorRight, ConnectorSteps, Provenance, Dormant
  <2> QED BY <1>1, <2>1, <2>3, ConnectorEnds
<1> QED BY <1>3, <1>4, <1>5, <1>6, <1>7

LEMMA StartConnectorKeeps == ASSUME HostAssumption, HostInv, StartConnector PROVE HostInv'
<1>1. at = "unit" /\ UNCHANGED <<admin, image, ufw, gate, openssh>> /\ Provenance
  BY DEF StartConnector, HostInv, ConnectorRight
<1>2. CASE conn' \in {conn, [conn EXCEPT !.unit = TRUE]} /\ Stop /\ Fault
  <2>1. conn' \in [trust : {"none", "ours"}, source : {"none", "legacy", "ours", "changed"},
                   build : Builds, receipt : {"none", "cloudflare"}, unit : BOOLEAN, running : Builds]
        /\ conn'.build = conn.build /\ conn'.receipt = conn.receipt /\ conn'.running = conn.running
    BY <1>2 DEF HostInv, ConnectorRight
  <2> QED BY <1>1, <1>2, <2>1, ConnectorStops DEF HostInv, ConnectorRight, ConnectorSteps, Provenance
<1>3. CASE /\ conn' = [conn EXCEPT !.unit = TRUE, !.running = IF @ = "none" THEN conn.build ELSE @]
           /\ Finish("connector", {"connector"}) /\ NoFault
  <2>1. conn' \in [trust : {"none", "ours"}, source : {"none", "legacy", "ours", "changed"},
                   build : Builds, receipt : {"none", "cloudflare"}, unit : BOOLEAN, running : Builds]
        /\ conn'.build = conn.build /\ conn'.receipt = conn.receipt /\ conn'.unit
        /\ conn'.running = IF conn.running = "none" THEN conn.build ELSE conn.running
    BY <1>3 DEF HostInv, ConnectorRight
  <2>2. Moves({}, {"connector", "process"}) /\ Concludes /\ kept' = kept \union {"connector"}
    BY <1>1, <1>3, FinishMoves, FinishShape DEF Facets
  <2>3. at' \notin ConnectorSteps
    BY <2>2 DEF Moves, StepNames, ConnectorSteps
  <2>4. ConnectorRight'
    BY <1>1, <2>1, <2>2, <2>3 DEF HostInv, ConnectorRight, ConnectorSteps, Provenance
  <2> QED BY <1>1, <2>2, <2>4, ConnectorEnds
<1> QED BY <1>2, <1>3 DEF StartConnector

LEMMA RestartConnectorKeeps == ASSUME HostAssumption, HostInv, RestartConnector PROVE HostInv'
<1>1. /\ at = "restart" /\ UNCHANGED <<admin, image, ufw, gate, openssh>> /\ Provenance
      /\ who # "create" /\ kept \cap {"connector", "process"} = {} /\ (config.tunnel => conn.unit)
  BY DEF RestartConnector, HostInv, ConnectorRight, ConnectorSteps
<1>2. CASE conn' \in {conn, [conn EXCEPT !.running = "none"]} /\ Stop /\ Fault
  <2>1. conn' \in [trust : {"none", "ours"}, source : {"none", "legacy", "ours", "changed"},
                   build : Builds, receipt : {"none", "cloudflare"}, unit : BOOLEAN, running : Builds]
    BY <1>2 DEF HostInv, ConnectorRight, Builds
  <2> QED BY <1>1, <1>2, <2>1, ConnectorStops DEF ConnectorSteps
<1>3. CASE /\ conn' = [conn EXCEPT !.running = conn.build]
           /\ Finish("connector", {"connector", "process"}) /\ NoFault
  <2>1. conn' \in [trust : {"none", "ours"}, source : {"none", "legacy", "ours", "changed"},
                   build : Builds, receipt : {"none", "cloudflare"}, unit : BOOLEAN, running : Builds]
        /\ conn'.build = conn.build /\ conn'.receipt = conn.receipt /\ conn'.unit = conn.unit
        /\ conn'.running = conn.build
    BY <1>3 DEF HostInv, ConnectorRight
  <2>2. Moves({}, {"connector", "process"}) /\ Concludes
    BY <1>1, <1>3, FinishMoves DEF Facets
  <2>3. at' \notin ConnectorSteps /\ config' = config
    BY <2>2 DEF Moves, StepNames, ConnectorSteps
  <2>4. ConnectorRight'
    BY <1>1, <2>1, <2>2, <2>3 DEF ConnectorRight, ConnectorSteps, Provenance
  <2> QED BY <1>1, <2>2, <2>4, ConnectorEnds
<1> QED BY <1>2, <1>3 DEF RestartConnector
-----------------------------------------------------------------------------
(* Tools, outgoing traffic, the reboot gate *)

LEMMA InstallToolsKeeps == ASSUME HostAssumption, HostInv, InstallTools PROVE HostInv'
  BY FinishKeeps, StopKeeps DEF InstallTools

(* What a command of the lockdown does not disturb.                         *)
LEMMA LockdownScript ==
  ASSUME HostAssumption, HostInv, NEW steps, steps \subseteq EgressSteps,
         Moves(steps, {"egress"}), JobTyped', EgressRight',
         script'.cloud \union script'.boot \subseteq script.cloud \union script.boot,
         UNCHANGED <<admin, image, conn, gate, openssh>>
  PROVE  HostInv'
<1>1. at' \notin SudoSteps \union UserSteps \union ConnectorSteps \union OpensshSteps
  BY DEF Moves, StepNames, SudoSteps, UserSteps, ConnectorSteps, EgressSteps, OpensshSteps
<1>2. config' = config /\ kept' \ {"egress"} \subseteq kept
  BY DEF Moves
<1> QED BY <1>1, <1>2, SudoStays, UsersStay, ConnectorStays, GateStays, OpensshStays DEF HostInv, admin, image

LEMMA LockdownEnds ==
  ASSUME HostAssumption, HostInv, Moves({}, {"egress"}), Concludes, EgressRight',
         UNCHANGED <<admin, image, conn, gate, openssh>>
  PROVE  HostInv'
<1>1. JobTyped'
  BY JobEnds DEF HostInv, Moves
<1>2. script'.cloud \union script'.boot = {}
  BY DEF Concludes, NoScript
<1> QED BY <1>1, <1>2, LockdownScript

LEMMA LockdownGoes ==
  ASSUME HostAssumption, HostInv, Moves(EgressSteps, {"egress"}), at' \in EgressSteps,
         UNCHANGED <<session, script>>, at \in EgressSteps \union {"lockdown"}, EgressRight',
         UNCHANGED <<admin, image, conn, gate, openssh>>
  PROVE  HostInv'
<1>1. script.cloud \union script.boot = {}
  BY DEF HostInv, JobTyped, EgressSteps
<1>2. JobTyped'
  BY <1>1, JobGoes DEF HostInv, JobTyped, Moves
<1> QED BY <1>2, LockdownScript

LEMMA DenyOutgoingKeeps == ASSUME HostAssumption, HostInv, DenyOutgoing PROVE HostInv'
<1>1. at = "lockdown" /\ config.restricted /\ UNCHANGED <<admin, image, conn, gate, openssh>>
  BY DEF DenyOutgoing
<1>2. CASE ufw' = ufw /\ Stop /\ Fault
  BY <1>1, <1>2, StopKeeps DEF network
<1>3. CASE /\ ufw' = [ufw EXCEPT !.out = "deny"] /\ Open({"egress"}, "allow")
           /\ script' = script /\ NoFault
  <2>1. Moves(EgressSteps, {"egress"}) /\ UNCHANGED session /\ kept' = kept \ {"egress"} /\ at' = "allow"
    BY <1>1, <1>3, OpenMoves DEF EgressSteps, Open
  <2>2. EgressRight'
    BY <1>1, <1>3, <2>1 DEF HostInv, EgressRight, session
  <2> QED BY <1>1, <1>3, <2>1, <2>2, LockdownGoes DEF EgressSteps
<1> QED BY <1>2, <1>3 DEF DenyOutgoing

LEMMA AllowOutgoingKeeps == ASSUME HostAssumption, HostInv, AllowOutgoing PROVE HostInv'
<1>1. at = "lockdown" /\ ~config.restricted /\ UNCHANGED <<admin, image, conn, gate, openssh>>
  BY DEF AllowOutgoing
<1>2. CASE ufw' = ufw /\ Stop /\ Fault
  BY <1>1, <1>2, StopKeeps DEF network
<1>3. CASE ufw' = [ufw EXCEPT !.out = "allow"] /\ Finish("lockdown", {}) /\ NoFault
  <2>1. Moves({}, {"egress"}) /\ Concludes
    BY <1>1, <1>3, FinishMoves DEF Facets
  <2>2. at' \notin EgressSteps
    BY <2>1 DEF Moves, StepNames, EgressSteps
  <2>3. kept' = kept
    BY <1>3, FinishShape
  <2>4. EgressRight'
    BY <1>1, <1>3, <2>2, <2>3 DEF HostInv, EgressRight
  <2> QED BY <1>1, <2>1, <2>4, LockdownEnds
<1> QED BY <1>2, <1>3 DEF AllowOutgoing

LEMMA AllowRequiredKeeps == ASSUME HostAssumption, HostInv, AllowRequired PROVE HostInv'
<1>1. at = "allow" /\ UNCHANGED <<admin, image, conn, gate, openssh>>
  BY DEF AllowRequired
<1>2. CASE ufw' = ufw /\ Stop /\ Fault
  BY <1>1, <1>2, StopKeeps DEF network
<1>3. CASE ufw' = [ufw EXCEPT !.rules = TRUE] /\ Go("prove") /\ NoFault
  <2>1. Moves(EgressSteps, {"egress"}) /\ UNCHANGED <<session, script>> /\ kept' = kept /\ at' = "prove"
    BY <1>1, <1>3, GoMoves DEF EgressSteps, Go
  <2>2. EgressRight'
    BY <1>1, <1>3, <2>1 DEF HostInv, EgressRight, EgressSteps, InForce, session
  <2> QED BY <1>1, <2>1, <2>2, LockdownGoes DEF EgressSteps
<1> QED BY <1>2, <1>3 DEF AllowRequired

LEMMA ProveLockdownKeeps == ASSUME HostAssumption, HostInv, ProveLockdown PROVE HostInv'
<1>1. at = "prove" /\ UNCHANGED <<admin, image, network, openssh>>
  BY DEF ProveLockdown
<1>2. CASE Stop /\ (NoFault \/ Fault)
  BY <1>1, <1>2, StopKeeps
<1>3. CASE InForce /\ Finish("lockdown", {"egress"}) /\ NoFault
  <2>1. Moves({}, {"egress"}) /\ Concludes
    BY <1>1, <1>3, FinishMoves DEF Facets
  <2>2. at' \notin EgressSteps /\ config' = config
    BY <2>1 DEF Moves, StepNames, EgressSteps
  <2>3. EgressRight'
    BY <1>1, <1>3, <2>2 DEF HostInv, EgressRight, EgressSteps, InForce, network
  <2> QED BY <1>1, <2>1, <2>3, LockdownEnds DEF network
<1> QED BY <1>2, <1>3 DEF ProveLockdown

LEMMA InstallGateKeeps == ASSUME HostAssumption, HostInv, InstallGate PROVE HostInv'
<1>1. at = "gate" /\ UNCHANGED <<admin, image, conn, ufw, openssh>>
  BY DEF InstallGate
<1>2. Moves({}, {"gate"}) /\ Concludes /\ gate' \in {gate, TRUE} /\ (gate' \/ kept' = kept)
  BY <1>1, FinishMoves, StopMoves DEF InstallGate, Facets
<1>3. JobTyped'
  BY <1>1, <1>2, JobEnds DEF HostInv, Moves
<1>4. script'.cloud \union script'.boot = {}
  BY <1>2 DEF Concludes, NoScript
<1>5. at' \notin SudoSteps \union UserSteps \union ConnectorSteps \union EgressSteps \union OpensshSteps
  BY <1>2 DEF Moves, StepNames, SudoSteps, UserSteps, ConnectorSteps, EgressSteps, OpensshSteps
<1>6. GateRight'
  <2>1. CASE gate' = TRUE
    BY <2>1 DEF GateRight
  <2>2. CASE gate' = gate /\ kept' = kept
    BY <2>2 DEF HostInv, GateRight
  <2>3. CASE gate' = gate /\ gate'
    <3>1. gate' \in BOOLEAN
      BY <2>3 DEF HostInv, GateRight
    <3> QED BY <2>3, <3>1 DEF GateRight
  <2> QED BY <1>2, <2>1, <2>2, <2>3
<1> QED BY <1>1, <1>2, <1>3, <1>4, <1>5, <1>6, SudoStays, UsersStay, ConnectorStays, EgressStays, OpensshStays
        DEF HostInv, admin, image, Moves
-----------------------------------------------------------------------------
(* OpenSSH off *)

(* The two scans of routes and local settings find all that reaches sshd.   *)
LEMMA IngressFindsAll ==
  ASSUME NEW u, u.at = "cloud", ~MayReachSSH(u)
  PROVE  ~Reaches(u)
  BY DEF MayReachSSH, ReachesSSH, Reaches

LEMMA ScanFindsAll ==
  ASSUME NEW u, u.at = "host", ~ScanFinds(u)
  PROVE  ~Reaches(u)
  BY DEF ScanFinds, Reaches

LEMMA OpensshScript ==
  ASSUME HostAssumption, HostInv, NEW steps, steps \subseteq OpensshSteps,
         Moves(steps, {"openssh"}), JobTyped', OpensshRight',
         script'.cloud \union script'.boot \subseteq script.cloud \union script.boot,
         UNCHANGED <<admin, image, network>>
  PROVE  HostInv'
<1>1. at' \notin SudoSteps \union UserSteps \union ConnectorSteps \union EgressSteps
  BY DEF Moves, StepNames, SudoSteps, UserSteps, ConnectorSteps, EgressSteps, OpensshSteps
<1>2. config' = config /\ kept' \ {"openssh"} \subseteq kept
  BY DEF Moves
<1> QED BY <1>1, <1>2, SudoStays, UsersStay, ConnectorStays, EgressStays, GateStays
        DEF HostInv, admin, image, network

LEMMA OpensshEnds ==
  ASSUME HostAssumption, HostInv, Moves({}, {"openssh"}), Concludes, OpensshRight',
         UNCHANGED <<admin, image, network>>
  PROVE  HostInv'
<1>1. JobTyped'
  BY JobEnds DEF HostInv, Moves
<1>2. script'.cloud \union script'.boot = {}
  BY DEF Concludes, NoScript
<1> QED BY <1>1, <1>2, OpensshScript

(* What a script has seen only grows by what is there.                      *)
LEMMA OpensshGoes ==
  ASSUME HostAssumption, HostInv, Moves(OpensshSteps, {"openssh"}), at' \in OpensshSteps,
         UNCHANGED session, NEW seen \in SUBSET Dependants, script' = [script EXCEPT !.seen = seen],
         at \in OpensshSteps \union {"openssh"}, OpensshRight',
         UNCHANGED <<admin, image, network>>
  PROVE  HostInv'
<1>1. script.cloud \union script.boot = {}
  BY DEF HostInv, JobTyped, OpensshSteps
<1>2. /\ script' \in [cloud : SUBSET Forms, boot : SUBSET Forms, seen : SUBSET Dependants]
      /\ script'.cloud = script.cloud /\ script'.boot = script.boot
  BY DEF HostInv, JobTyped
<1>3. JobTyped'
  BY <1>1, <1>2, JobGoes DEF HostInv, JobTyped, Moves
<1> QED BY <1>2, <1>3, OpensshScript

LEMMA CheckIngressKeeps == ASSUME HostAssumption, HostInv, CheckIngress PROVE HostInv'
<1> DEFINE routes == {u \in uses : u.at = "cloud"}
<1>1. at = "openssh" /\ UNCHANGED <<admin, image, network, openssh>>
  BY DEF CheckIngress
<1>2. CASE Stop /\ (NoFault \/ Fault)
  BY <1>1, <1>2, StopKeeps
<1>3. CASE /\ ~config.tunnel \/ \A u \in routes : ~MayReachSSH(u)
           /\ Open({"openssh"}, "preflight")
           /\ script' = [script EXCEPT !.seen = routes] /\ NoFault
  <2>1. routes \in SUBSET Dependants
    BY DEF HostInv, OpensshRight
  <2>2. \A u \in routes : ~Reaches(u)
    BY <1>3, IngressFindsAll DEF HostInv, OpensshRight
  <2>3. Moves(OpensshSteps, {"openssh"}) /\ UNCHANGED session /\ kept' = kept \ {"openssh"}
        /\ at' = "preflight"
    BY <1>1, <1>3, OpenMoves DEF OpensshSteps, Open
  <2>4. script'.seen = routes
    BY <1>3 DEF HostInv, JobTyped
  <2> HIDE DEF routes
  <2>5. OpensshRight'
    <3>1. \A u : Reaches(u)' <=> Reaches(u)
      BY DEF Reaches
    <3> QED BY <1>1, <2>2, <2>3, <2>4, <3>1 DEF HostInv, OpensshRight, OpensshSteps, openssh, session
  <2> QED BY <1>1, <1>3, <2>1, <2>3, <2>5, OpensshGoes DEF OpensshSteps
<1> QED BY <1>2, <1>3 DEF CheckIngress

LEMMA PreflightKeeps == ASSUME HostAssumption, HostInv, Preflight PROVE HostInv'
<1> DEFINE here == {u \in uses : u.at # "cloud"}
           seen == script.seen \union here
<1>1. at = "preflight" /\ UNCHANGED <<admin, image, network, openssh>>
  BY DEF Preflight
<1>2. CASE Stop /\ (NoFault \/ Fault)
  BY <1>1, <1>2, StopKeeps
<1>3. CASE /\ \A u \in here : u.at = "host" /\ ~ScanFinds(u)
           /\ NoFault /\ at' = "record" /\ UNCHANGED <<session, kept>>
           /\ script' = [script EXCEPT !.seen = seen]
  <2>1. seen \in SUBSET Dependants
    BY DEF HostInv, JobTyped, OpensshRight
  <2>2. \A u \in seen : ~Reaches(u)
    BY <1>1, <1>3, ScanFindsAll DEF HostInv, OpensshRight
  <2>3. Moves(OpensshSteps, {"openssh"})
    BY <1>1, <1>3 DEF Moves, OpensshSteps, HostInv, JobTyped, session
  <2>4. script'.seen = seen
    BY <1>3 DEF HostInv, JobTyped
  <2> HIDE DEF seen
  <2>5. OpensshRight'
    <3>1. \A u : Reaches(u)' <=> Reaches(u)
      BY DEF Reaches
    <3> QED BY <1>1, <1>3, <2>2, <2>4, <3>1 DEF HostInv, OpensshRight, OpensshSteps, openssh, session
  <2> QED BY <1>1, <1>3, <2>1, <2>3, <2>5, OpensshGoes DEF OpensshSteps
<1> QED BY <1>2, <1>3 DEF Preflight

(* The commands that change the units: on to the next one, or an end.       *)
LEMMA UnitsGo ==
  ASSUME HostAssumption, HostInv, at \in OpensshSteps, NEW step \in OpensshSteps, Go(step), NoFault,
         OpensshRight', UNCHANGED <<admin, image, network>>
  PROVE  HostInv'
<1>1. at # "rest" /\ at' = step
  BY DEF OpensshSteps, Go
<1>2. Moves(OpensshSteps, {"openssh"}) /\ UNCHANGED session /\ script' = script
  BY <1>1, GoMoves
<1>3. script.seen \in SUBSET Dependants /\ script = [script EXCEPT !.seen = script.seen]
  BY DEF HostInv, JobTyped
<1> QED BY <1>1, <1>2, <1>3, OpensshGoes

LEMMA UnitsStop ==
  ASSUME HostAssumption, HostInv, at \in OpensshSteps, Stop, NoFault \/ Fault,
         OpensshRight', UNCHANGED <<admin, image, network>>
  PROVE  HostInv'
<1>1. at # "rest"
  BY DEF OpensshSteps
<1>2. Moves({}, {"openssh"}) /\ Concludes
  BY <1>1, StopMoves
<1> QED BY <1>2, OpensshEnds

(* What the rest of the invariant says while a script has the units.        *)
LEMMA UnitsInHand ==
  ASSUME HostInv, at \in OpensshSteps, NoFault \/ Fault, Stop \/ \E step \in OpensshSteps : Go(step),
         UNCHANGED <<uses, served>>
  PROVE  /\ served' \in BOOLEAN /\ uses' \subseteq Dependants
         /\ "openssh" \notin kept'
         /\ ~config'.tunnel => \A u \in uses' : u.at # "cloud"
         /\ \/ at' \in {"rest"} \union StepNames
            \/ at' \in OpensshSteps /\ script' = script
<1>1. CASE Stop
  BY <1>1, StopShape DEF HostInv, OpensshRight, Concludes
<1>2. CASE \E step \in OpensshSteps : Go(step)
  BY <1>2 DEF Go, HostInv, OpensshRight, session
<1> QED BY <1>1, <1>2

LEMMA RecordUnitsKeeps == ASSUME HostAssumption, HostInv, RecordUnits PROVE HostInv'
<1>1. at = "record" /\ UNCHANGED <<admin, image, network, uses, served>>
  BY DEF RecordUnits
<1>2. CASE ssh' = ssh /\ Stop /\ Fault
  BY <1>1, <1>2, StopKeeps DEF openssh
<1>3. CASE ssh' = [ssh EXCEPT !.record = Recorded] /\ Go("disable") /\ NoFault
  <2>1. /\ Recorded \in Record /\ Recorded # NoRecord /\ ~Recorded.changed
    BY DEF HostInv, OpensshRight, Recorded, Units, Record, NoRecord
  <2>2. /\ ssh' \in [unit : {"enabled", "disabled", "masked"}, cond : BOOLEAN, live : BOOLEAN,
                     stray : BOOLEAN, changed : BOOLEAN, record : Record]
        /\ ssh'.record = Recorded /\ ssh'.unit = ssh.unit /\ ssh'.changed = ssh.changed
    BY <1>3, <2>1 DEF HostInv, OpensshRight
  <2>3. \A u \in script'.seen : ~Reaches(u)'
    BY <1>1, <1>3 DEF HostInv, OpensshRight, Reaches, Go
  <2>4. at' = "disable"
    BY <1>3 DEF Go
  <2>5. OpensshRight'
    BY <1>1, <1>3, <2>1, <2>2, <2>3, <2>4, UnitsInHand DEF OpensshRight, OpensshSteps
  <2> QED BY <1>1, <1>3, <2>5, UnitsGo DEF OpensshSteps
<1> QED BY <1>2, <1>3 DEF RecordUnits

LEMMA DisableUnitsKeeps == ASSUME HostAssumption, HostInv, DisableUnits PROVE HostInv'
<1>1. at = "disable" /\ UNCHANGED <<admin, image, network, uses, served>> /\ ssh.record # NoRecord
  BY DEF DisableUnits, HostInv, OpensshRight
<1>2. CASE /\ ssh' \in {ssh, [ssh EXCEPT !.unit = IF @ = "masked" THEN @ ELSE "disabled", !.changed = TRUE]}
           /\ Stop /\ Fault
  <2>1. /\ ssh' \in [unit : {"enabled", "disabled", "masked"}, cond : BOOLEAN, live : BOOLEAN,
                     stray : BOOLEAN, changed : BOOLEAN, record : Record]
        /\ ssh'.record = ssh.record
    BY <1>2 DEF HostInv, OpensshRight
  <2>2. at' \in {"rest"} \union StepNames
    BY <1>2, StopShape DEF Concludes
  <2>3. OpensshRight'
    BY <1>1, <1>2, <2>1, <2>2, UnitsInHand DEF HostInv, OpensshRight, OpensshSteps, StepNames
  <2> QED BY <1>1, <1>2, <2>3, UnitsStop DEF OpensshSteps
<1>3. CASE /\ ssh' = [ssh EXCEPT !.unit = IF @ = "masked" THEN @ ELSE "disabled",
                                 !.live = FALSE, !.changed = TRUE]
           /\ Go("mask") /\ NoFault
  <2>1. /\ ssh' \in [unit : {"enabled", "disabled", "masked"}, cond : BOOLEAN, live : BOOLEAN,
                     stray : BOOLEAN, changed : BOOLEAN, record : Record]
        /\ ssh'.record = ssh.record
    BY <1>3 DEF HostInv, OpensshRight
  <2>2. at' = "mask"
    BY <1>3 DEF Go
  <2>3. OpensshRight'
    BY <1>1, <1>3, <2>1, <2>2, UnitsInHand DEF HostInv, OpensshRight, OpensshSteps
  <2> QED BY <1>1, <1>3, <2>3, UnitsGo DEF OpensshSteps
<1> QED BY <1>2, <1>3 DEF DisableUnits

LEMMA MaskUnitsKeeps == ASSUME HostAssumption, HostInv, MaskUnits PROVE HostInv'
<1>1. at = "mask" /\ UNCHANGED <<admin, image, network, uses, served>> /\ ssh.record # NoRecord
  BY DEF MaskUnits, HostInv, OpensshRight
<1>2. CASE ssh' = ssh /\ Stop /\ Fault
  BY <1>1, <1>2, StopKeeps DEF openssh
<1>3. CASE ssh' = [ssh EXCEPT !.unit = "masked"] /\ Go("condition") /\ NoFault
  <2>1. /\ ssh' \in [unit : {"enabled", "disabled", "masked"}, cond : BOOLEAN, live : BOOLEAN,
                     stray : BOOLEAN, changed : BOOLEAN, record : Record]
        /\ ssh'.record = ssh.record /\ ssh'.unit = "masked"
    BY <1>3 DEF HostInv, OpensshRight
  <2>2. at' = "condition"
    BY <1>3 DEF Go
  <2>3. OpensshRight'
    BY <1>1, <1>3, <2>1, <2>2, UnitsInHand DEF HostInv, OpensshRight, OpensshSteps
  <2> QED BY <1>1, <1>3, <2>3, UnitsGo DEF OpensshSteps
<1> QED BY <1>2, <1>3 DEF MaskUnits

LEMMA SetConditionKeeps == ASSUME HostAssumption, HostInv, SetCondition PROVE HostInv'
<1>1. /\ at = "condition" /\ UNCHANGED <<admin, image, network, uses, served>>
      /\ ssh.record # NoRecord /\ ssh.unit = "masked"
  BY DEF SetCondition, HostInv, OpensshRight
<1>2. /\ ssh' \in [unit : {"enabled", "disabled", "masked"}, cond : BOOLEAN, live : BOOLEAN,
                   stray : BOOLEAN, changed : BOOLEAN, record : Record]
      /\ ssh'.record = ssh.record /\ ssh'.unit = ssh.unit /\ ssh'.cond
      /\ ssh'.live = ssh.live /\ ssh'.stray = ssh.stray
  BY DEF SetCondition, HostInv, OpensshRight
<1>3. CASE Stop /\ (NoFault \/ Fault)
  <2>1. at' \in {"rest"} \union StepNames
    BY <1>3, StopShape DEF Concludes
  <2>2. OpensshRight'
    BY <1>1, <1>2, <1>3, <2>1, UnitsInHand DEF HostInv, OpensshRight, OpensshSteps, StepNames
  <2> QED BY <1>1, <1>3, <2>2, UnitsStop DEF OpensshSteps
<1>4. CASE ~ssh.live /\ ~ssh.stray /\ Finish("openssh", {"openssh"}) /\ NoFault
  <2>1. Moves({}, {"openssh"}) /\ Concludes
    BY <1>1, <1>4, FinishMoves DEF Facets
  <2>2. at' \notin OpensshSteps /\ config' = config
    BY <2>1 DEF Moves, StepNames, OpensshSteps
  <2>3. OpensshRight'
    BY <1>1, <1>2, <1>4, <2>2 DEF HostInv, OpensshRight, OpensshSteps
  <2> QED BY <1>1, <2>1, <2>3, OpensshEnds
<1> QED BY <1>3, <1>4 DEF SetCondition
-----------------------------------------------------------------------------
(* How runs begin and break off *)

LEMMA BeginKeeps ==
  ASSUME HostAssumption, HostInv, BeginCreate \/ BeginBootstrap \/ BeginFix
  PROVE  HostInv'
<1>1. /\ at = "rest" /\ at' \in StepNames
      /\ who' \in {"create", "bootstrap", "fix"} /\ key' \in Passwords
      /\ UNCHANGED <<config, script, admin, image, network, openssh, kept, counters>>
  BY StepsAre DEF BeginCreate, BeginBootstrap, BeginFix, StepNames
<1>2. at' # "rest" /\ script.cloud \union script.boot = {}
  BY <1>1 DEF StepNames, HostInv, JobTyped
<1>3. JobTyped'
  BY <1>1, <1>2 DEF HostInv, JobTyped, HostAssumption, counters
<1>4. at' \notin SudoSteps \union UserSteps \union ConnectorSteps \union EgressSteps \union OpensshSteps
  BY <1>1 DEF StepNames, SudoSteps, UserSteps, ConnectorSteps, EgressSteps, OpensshSteps
<1> QED BY <1>1, <1>3, <1>4, SudoStays, UsersStay, ConnectorStays, EgressStays, GateStays, OpensshStays
        DEF HostInv, admin, image, network

LEMMA WaitReadyKeeps == ASSUME HostAssumption, HostInv, WaitReady PROVE HostInv'
  BY FinishKeeps, StopKeeps DEF WaitReady

LEMMA CutKeeps == ASSUME HostAssumption, HostInv, Cut PROVE HostInv'
  BY StopKeeps DEF Cut

LEMMA ProvisionKeeps == ASSUME HostAssumption, HostInv, Provision PROVE HostInv'
  BY BeginKeeps, WaitReadyKeeps, CutKeeps, ChangePasswordKeeps, StripCloudKeeps, StripBootKeeps,
     VerifySudoKeeps, LockAccountKeeps, CheckProcessesKeeps, EditDropInKeeps, DropInsEndKeeps,
     DeleteAccountKeeps, InstallTrustKeeps, RepairTrustKeeps, InstallCandidateKeeps,
     StartConnectorKeeps, RestartConnectorKeeps, InstallToolsKeeps, DenyOutgoingKeeps,
     AllowOutgoingKeeps, AllowRequiredKeeps, ProveLockdownKeeps, InstallGateKeeps,
     CheckIngressKeeps, PreflightKeeps, RecordUnitsKeeps, DisableUnitsKeeps, MaskUnitsKeeps,
     SetConditionKeeps
  DEF Provision
-----------------------------------------------------------------------------
(* The operator, who leaves what a script has in hand alone *)

LEMMA StaysJob ==
  ASSUME HostAssumption, HostInv, Stays, NoFault \/ Edit, kept' \subseteq kept,
         config' \in [tunnel : BOOLEAN, restricted : BOOLEAN, reboot : BOOLEAN, off : BOOLEAN]
  PROVE  JobTyped'
<1>1. faults' \in 0 .. Faults /\ edits' \in 0 .. Edits
  BY CountersStay DEF HostInv, JobTyped
<1> QED BY <1>1 DEF HostInv, JobTyped, Stays

LEMMA AddRuleKeeps == ASSUME HostAssumption, HostInv, AddRule PROVE HostInv'
<1>1. UNCHANGED <<config, pw, image, network, openssh>> /\ Stays /\ Edit
  BY DEF AddRule
<1>2. PICK r \in Additions :
        /\ r[2] \notin sudoers[r[1]] /\ at # "userdel"
        /\ r[1] = "elsewhere" => at \notin {"processes", "drop-ins"}
        /\ sudoers' = [sudoers EXCEPT ![r[1]] = @ \union {r[2]}]
        /\ Doubt((IF r[2] = "free" THEN {"sudo"} ELSE {}) \union
                 (IF r[2] \in ByName THEN {"account"} ELSE {}))
  BY DEF AddRule
<1>3. r[1] \in Files /\ r[2] \in Forms
  BY DEF HostAssumption
<1>4. /\ sudoers \in [Files -> SUBSET Forms] /\ sudoers' \in [Files -> SUBSET Forms]
      /\ \A f \in Files : sudoers[f] \subseteq sudoers'[f] /\ sudoers'[f] \subseteq sudoers[f] \union {r[2]}
      /\ \A f \in Files : f # r[1] => sudoers'[f] = sudoers[f]
  BY <1>2, <1>3 DEF HostInv, SudoRight
<1>5. kept' \subseteq kept /\ (r[2] = "free" => "sudo" \notin kept')
      /\ (r[2] \in {"own", "list"} => "account" \notin kept')
  BY <1>2 DEF Doubt, ByName
<1>6. JobTyped'
  BY <1>1, <1>5, StaysJob DEF HostInv, JobTyped
<1>7. SudoRight'
  BY <1>1, <1>4, <1>5 DEF HostInv, SudoRight, Stays, Free, Files
<1>8. UsersRight'
  BY <1>1, <1>2, <1>4, <1>5 DEF HostInv, UsersRight, UserSteps, Stays, image, Named, Files
<1> QED BY <1>1, <1>5, <1>6, <1>7, <1>8, ConnectorStays, EgressStays, GateStays, OpensshStays
        DEF HostInv, Stays, network

LEMMA RemoveRuleKeeps == ASSUME HostAssumption, HostInv, RemoveRule PROVE HostInv'
<1>1. UNCHANGED <<config, pw, image, network, openssh, kept>> /\ Stays /\ NoFault
  BY DEF RemoveRule
<1>2. PICK r \in Additions : sudoers' = [sudoers EXCEPT ![r[1]] = @ \ {r[2]}]
  BY DEF RemoveRule
<1>3. r[1] \in Files /\ r[2] \in Forms /\ ~(r[1] = "boot" /\ r[2] = "free")
  BY DEF HostAssumption
<1>4. /\ sudoers \in [Files -> SUBSET Forms] /\ sudoers' \in [Files -> SUBSET Forms]
      /\ \A f \in Files : sudoers'[f] \subseteq sudoers[f]
      /\ "free" \in sudoers["boot"] => "free" \in sudoers'["boot"]
  BY <1>2, <1>3 DEF HostInv, SudoRight, Files
<1>5. JobTyped'
  BY <1>1, StaysJob DEF HostInv, JobTyped
<1>6. SudoRight'
  BY <1>1, <1>4 DEF HostInv, SudoRight, Stays, Free
<1>7. UsersRight'
  BY <1>1, <1>4 DEF HostInv, UsersRight, UserSteps, Stays, image, Named, Files
<1> QED BY <1>1, <1>5, <1>6, <1>7, ConnectorStays, EgressStays, GateStays, OpensshStays
        DEF HostInv, Stays, network

LEMMA AccountKeeps ==
  ASSUME HostAssumption, HostInv, LogIn \/ LogOut \/ DeleteByHand
  PROVE  HostInv'
<1>1. /\ UNCHANGED <<config, admin, network, openssh, kept>> /\ Stays /\ (NoFault \/ Edit)
      /\ account' \in {"open", "locked", "gone"} /\ busy' \in BOOLEAN /\ (busy' => account' # "gone")
  BY DEF LogIn, LogOut, DeleteByHand, HostInv, UsersRight
<1>2. /\ at \in UserSteps => account' = account
      /\ at \in {"drop-ins", "userdel"} => ~busy'
      /\ account = "gone" => account' = "gone"
  BY DEF LogIn, LogOut, DeleteByHand, HostInv, UsersRight, UserSteps
<1>3. JobTyped'
  BY <1>1, StaysJob DEF HostInv, JobTyped
<1>4. UsersRight'
  BY <1>1, <1>2 DEF HostInv, UsersRight, UserSteps, Stays, admin, Named
<1> QED BY <1>1, <1>3, <1>4, SudoStays, ConnectorStays, EgressStays, GateStays, OpensshStays
        DEF HostInv, Stays, network

LEMMA TouchConnectorKeeps == ASSUME HostAssumption, HostInv, TouchConnector PROVE HostInv'
<1>1. /\ UNCHANGED <<config, admin, image, ufw, gate, openssh>> /\ Stays /\ Edit
      /\ at \in {"rest", "connector"} /\ kept' = kept \ {"connector", "process"}
  BY DEF TouchConnector, Doubt
<1>2. conn' \in [trust : {"none", "ours"}, source : {"none", "legacy", "ours", "changed"},
                 build : Builds, receipt : {"none", "cloudflare"}, unit : BOOLEAN, running : Builds]
  <2>1. conn \in [trust : {"none", "ours"}, source : {"none", "legacy", "ours", "changed"},
                  build : Builds, receipt : {"none", "cloudflare"}, unit : BOOLEAN, running : Builds]
    BY DEF HostInv, ConnectorRight
  <2>2. {"none", "foreign"} \subseteq Builds /\ conn.running \in Builds
    BY <2>1 DEF Builds
  <2>3. ASSUME NEW r \in Builds, conn' = [conn EXCEPT !.build = "foreign", !.running = r]
        PROVE  conn' \in [trust : {"none", "ours"}, source : {"none", "legacy", "ours", "changed"},
                 build : Builds, receipt : {"none", "cloudflare"}, unit : BOOLEAN, running : Builds]
    BY <2>1, <2>2, <2>3
  <2>4. CASE conn' = [conn EXCEPT !.build = "none", !.running = "none"]
    BY <2>1, <2>2, <2>4
  <2>5. CASE conn' = [conn EXCEPT !.source = "changed"]
    BY <2>1, <2>5
  <2>6. CASE conn' = [conn EXCEPT !.running = "none"]
    BY <2>1, <2>2, <2>6
  <2> QED BY <2>2, <2>3, <2>4, <2>5, <2>6 DEF TouchConnector
<1>3. JobTyped'
  BY <1>1, StaysJob DEF HostInv, JobTyped
<1>4. ConnectorRight'
  BY <1>1, <1>2 DEF ConnectorRight, ConnectorSteps, Stays
<1> QED BY <1>1, <1>3, <1>4, SudoStays, UsersStay, EgressStays, GateStays, OpensshStays
        DEF HostInv, Stays, admin, image

LEMMA FirewallKeeps ==
  ASSUME HostAssumption, HostInv, ResetFirewall \/ EnableFirewall
  PROVE  HostInv'
<1>1. /\ UNCHANGED <<config, admin, image, conn, gate, openssh>> /\ Stays /\ (NoFault \/ Edit)
      /\ kept' \subseteq kept /\ kept \ {"egress"} \subseteq kept'
  BY DEF ResetFirewall, EnableFirewall, Doubt
<1>2. EgressRight'
  <2>1. CASE ResetFirewall
    BY <2>1 DEF ResetFirewall, Doubt, HostInv, EgressRight, Stays
  <2>2. CASE EnableFirewall
    BY <2>2 DEF EnableFirewall, HostInv, EgressRight, InForce, Stays
  <2> QED BY <2>1, <2>2
<1>3. JobTyped'
  BY <1>1, StaysJob DEF HostInv, JobTyped
<1> QED BY <1>1, <1>2, <1>3, SudoStays, UsersStay, ConnectorStays, GateStays, OpensshStays
        DEF HostInv, Stays, admin, image

LEMMA RemoveGateKeeps == ASSUME HostAssumption, HostInv, RemoveGate PROVE HostInv'
<1>1. /\ UNCHANGED <<config, admin, image, conn, ufw, openssh>> /\ Stays /\ Edit
      /\ gate' = FALSE /\ kept' = kept \ {"gate"}
  BY DEF RemoveGate, Doubt
<1>2. JobTyped'
  BY <1>1, StaysJob DEF HostInv, JobTyped
<1>3. GateRight'
  BY <1>1 DEF GateRight
<1> QED BY <1>1, <1>2, <1>3, SudoStays, UsersStay, ConnectorStays, EgressStays, OpensshStays
        DEF HostInv, Stays, admin, image

(* What the operator does to OpenSSH, or to what uses it.                   *)
LEMMA OpensshByHand ==
  ASSUME HostAssumption, HostInv, Stays, NoFault \/ Edit, kept' \subseteq kept, OpensshRight',
         UNCHANGED <<admin, image, network>>,
         config' \in [tunnel : BOOLEAN, restricted : BOOLEAN, reboot : BOOLEAN, off : BOOLEAN],
         config'.tunnel = config.tunnel, config'.restricted = config.restricted
  PROVE  HostInv'
<1>1. JobTyped'
  BY StaysJob
<1> QED BY <1>1, SudoStays, UsersStay, ConnectorStays, EgressStays, GateStays
        DEF HostInv, Stays, admin, image, network

LEMMA DependKeeps ==
  ASSUME HostAssumption, HostInv, Depend \/ Retarget \/ ServeSSH
  PROVE  HostInv'
<1>1. /\ UNCHANGED <<config, admin, image, network, ssh, kept>> /\ Stays /\ (NoFault \/ Edit)
  BY DEF Depend, Retarget, ServeSSH
<1>2. /\ served' \in BOOLEAN /\ uses' \subseteq Dependants
      /\ ~config.tunnel => \A u \in uses' : u.at # "cloud"
  BY DEF Depend, Retarget, ServeSSH, HostInv, OpensshRight
<1>3. \A u : Reaches(u)' <=> Reaches(u)
  BY DEF Reaches
<1>4. OpensshRight'
  BY <1>1, <1>2, <1>3 DEF HostInv, OpensshRight, Stays, OpensshSteps
<1> QED BY <1>1, <1>4, OpensshByHand DEF HostInv, JobTyped

LEMMA StrayKeeps ==
  ASSUME HostAssumption, HostInv, StartStray \/ StopStray
  PROVE  HostInv'
<1>1. /\ UNCHANGED <<config, admin, image, network, uses, served>> /\ Stays /\ (NoFault \/ Edit)
      /\ kept' \subseteq kept
  BY DEF StartStray, StopStray, Doubt
<1>2. /\ ssh' \in [unit : {"enabled", "disabled", "masked"}, cond : BOOLEAN, live : BOOLEAN,
                   stray : BOOLEAN, changed : BOOLEAN, record : Record]
      /\ ssh'.unit = ssh.unit /\ ssh'.cond = ssh.cond /\ ssh'.live = ssh.live
      /\ ssh'.changed = ssh.changed /\ ssh'.record = ssh.record
      /\ "openssh" \in kept' => ~ssh'.stray
  BY DEF StartStray, StopStray, Doubt, HostInv, OpensshRight
<1>3. \A u : Reaches(u)' <=> Reaches(u)
  BY DEF Reaches
<1>4. OpensshRight'
  BY <1>1, <1>2, <1>3 DEF HostInv, OpensshRight, Stays, OpensshSteps
<1> QED BY <1>1, <1>4, OpensshByHand DEF HostInv, JobTyped

LEMMA OptBackInKeeps == ASSUME HostAssumption, HostInv, OptBackIn PROVE HostInv'
<1>1. /\ UNCHANGED <<admin, image, network, uses, served>> /\ Stays /\ Edit /\ at = "rest"
      /\ kept' = kept \ {"openssh"}
  BY DEF OptBackIn, Doubt
<1>2. /\ config' \in [tunnel : BOOLEAN, restricted : BOOLEAN, reboot : BOOLEAN, off : BOOLEAN]
      /\ config'.tunnel = config.tunnel /\ config'.restricted = config.restricted
  BY DEF OptBackIn, HostInv, JobTyped
<1>3. /\ ssh' \in [unit : {"enabled", "disabled", "masked"}, cond : BOOLEAN, live : BOOLEAN,
                   stray : BOOLEAN, changed : BOOLEAN, record : Record]
      /\ ssh'.unit = "enabled" /\ ~ssh'.changed /\ ssh'.record = ssh.record
  BY DEF OptBackIn, HostInv, OpensshRight
<1>4. OpensshRight'
  BY <1>1, <1>2, <1>3 DEF HostInv, OpensshRight, Stays, OpensshSteps
<1> QED BY <1>1, <1>2, <1>4, OpensshByHand

LEMMA OptOutKeeps == ASSUME HostAssumption, HostInv, OptOut PROVE HostInv'
<1>1. /\ UNCHANGED <<admin, image, network, openssh, kept>> /\ Stays /\ NoFault
  BY DEF OptOut
<1>2. /\ config' \in [tunnel : BOOLEAN, restricted : BOOLEAN, reboot : BOOLEAN, off : BOOLEAN]
      /\ config'.tunnel = config.tunnel /\ config'.restricted = config.restricted
  BY DEF OptOut, HostInv, JobTyped
<1>3. OpensshRight'
  BY <1>1, <1>2, OpensshStays DEF HostInv, Stays
<1> QED BY <1>1, <1>2, <1>3, OpensshByHand

LEMMA OperatorKeeps == ASSUME HostAssumption, HostInv, Operator PROVE HostInv'
  BY AddRuleKeeps, RemoveRuleKeeps, AccountKeeps, TouchConnectorKeeps, FirewallKeeps, RemoveGateKeeps,
     DependKeeps, StrayKeeps, OptBackInKeeps, OptOutKeeps
  DEF Operator
-----------------------------------------------------------------------------
(* The theorems *)

LEMMA HostInit == ASSUME HostAssumption, Init PROVE HostInv
<1>1. JobTyped
  BY DEF Init, JobTyped, HostAssumption, NoScript
<1>2. SudoRight
  BY DEF Init, SudoRight, SudoSteps, Files, Forms
<1>3. UsersRight
  BY DEF Init, UsersRight, UserSteps
<1>4. ConnectorRight
  <2>1. at = "rest" /\ kept = {}
    BY DEF Init
  <2>2. \/ conn = [trust |-> "none", source |-> "none", build |-> "none", receipt |-> "none",
                   unit |-> FALSE, running |-> "none"]
        \/ conn = [trust |-> "ours", source |-> "legacy", build |-> "old",
                   receipt |-> "none", unit |-> TRUE, running |-> "old"]
        \/ conn = [trust |-> "ours", source |-> "legacy", build |-> "old",
                   receipt |-> "none", unit |-> FALSE, running |-> "none"]
    BY DEF Init
  <2>3. conn \in [trust : {"none", "ours"}, source : {"none", "legacy", "ours", "changed"},
                  build : Builds, receipt : {"none", "cloudflare"}, unit : BOOLEAN, running : Builds]
    <3>1. CASE conn = [trust |-> "none", source |-> "none", build |-> "none", receipt |-> "none",
                       unit |-> FALSE, running |-> "none"]
      BY <3>1 DEF Builds
    <3>2. CASE conn = [trust |-> "ours", source |-> "legacy", build |-> "old",
                       receipt |-> "none", unit |-> TRUE, running |-> "old"]
      BY <3>2 DEF Builds
    <3>3. CASE conn = [trust |-> "ours", source |-> "legacy", build |-> "old",
                       receipt |-> "none", unit |-> FALSE, running |-> "none"]
      BY <3>3 DEF Builds
    <3> QED BY <2>2, <3>1, <3>2, <3>3
  <2> QED BY <2>1, <2>3 DEF ConnectorRight, ConnectorSteps
<1>6. EgressRight
  <2>1. at = "rest" /\ kept = {}
    BY DEF Init
  <2>2. \/ ufw = [on |-> TRUE, out |-> "allow", rules |-> FALSE]
        \/ ufw = [on |-> TRUE, out |-> "deny", rules |-> FALSE]
    BY DEF Init
  <2>3. ufw \in [on : BOOLEAN, out : {"allow", "deny"}, rules : BOOLEAN]
    <3>1. CASE ufw = [on |-> TRUE, out |-> "allow", rules |-> FALSE]
      BY <3>1
    <3>2. CASE ufw = [on |-> TRUE, out |-> "deny", rules |-> FALSE]
      BY <3>2
    <3> QED BY <2>2, <3>1, <3>2
  <2> QED BY <2>1, <2>3 DEF EgressRight, EgressSteps
<1>5. OpensshRight
  BY DEF Init, OpensshRight, OpensshSteps, Record, NoRecord
<1>7. GateRight
  <2>1. gate = FALSE /\ kept = {}
    BY DEF Init
  <2>2. gate \in BOOLEAN /\ "gate" \notin kept
    BY <2>1
  <2>3. "gate" \in kept => gate
    BY <2>2
  <2> QED BY <2>2, <2>3, Zenon DEF GateRight
<1> QED BY <1>1, <1>2, <1>3, <1>4, <1>5, <1>6, <1>7 DEF HostInv

LEMMA HostStep == ASSUME HostAssumption, HostInv, [Next]_vars PROVE HostInv'
<1>1. CASE UNCHANGED vars
  <2>1. UNCHANGED <<config, at, who, key, script, admin, image, network, openssh, kept, counters>>
    BY <1>1 DEF vars
  <2>2. JobTyped'
    BY <2>1 DEF HostInv, JobTyped, counters
  <2> QED BY <2>1, <2>2, SudoStays, UsersStay, ConnectorStays, EgressStays, GateStays, OpensshStays
          DEF HostInv, admin, image, network
<1> QED BY <1>1, ProvisionKeeps, OperatorKeeps DEF Next

(* The invariant that the theorems below rest on: each facet of the host is *)
(* as the script that has it in hand needs it, or as the script that        *)
(* finished with it left it, through every failure, rerun and edit.         *)
THEOREM HostInvariant == Spec => []HostInv
<1>1. HostAssumption
  BY HostAssumption
<1>2. Init => HostInv
  BY <1>1, HostInit
<1>3. HostInv /\ [Next]_vars => HostInv'
  BY <1>1, HostStep
<1> QED BY <1>2, <1>3, PTL DEF Spec

LEMMA TypesHold == ASSUME HostInv PROVE TypeOK
<1>1. {Steps[i] : i \in DOMAIN Steps} = StepNames
  BY StepsAre
<1>2. at \in {"rest"} \union StepNames \union ScriptSteps
  BY DEF HostInv, JobTyped, SudoSteps, UserSteps, ConnectorSteps, EgressSteps, OpensshSteps, ScriptSteps
<1>3. /\ script.cloud \subseteq Forms /\ script.boot \subseteq Forms /\ script.seen \subseteq Dependants
  BY DEF HostInv, JobTyped
<1>4. /\ ssh.unit \in {"enabled", "disabled", "masked"} /\ ssh.record.unit \in {"none", "enabled"}
      /\ ssh.live \in BOOLEAN
  BY DEF HostInv, OpensshRight, Record
<1>5. {busy, gate, served, ssh.live} \subseteq BOOLEAN
  BY <1>4 DEF HostInv, UsersRight, GateRight, OpensshRight
<1> QED BY <1>1, <1>2, <1>3, <1>4, <1>5
        DEF TypeOK, HostInv, JobTyped, SudoRight, UsersRight, ConnectorRight, EgressRight, OpensshRight

(* Types, and what the scripts rely on: a receipt only ever names a build   *)
(* of Cloudflare's, nobody runs as an account that is gone, and what was    *)
(* backed up belongs to the password script that runs.                      *)
THEOREM TypeCorrect == Spec => []TypeOK
  BY HostInvariant, TypesHold, PTL

LEMMA WayBackHolds == ASSUME HostAssumption, HostInv PROVE WayBack
<1>1. \E k \in Passwords : CanSudo(k)
  <2>1. CASE pw = "none"
    BY <2>1 DEF HostAssumption, HostInv, SudoRight, CanSudo
  <2>2. CASE pw # "none"
    BY <2>2 DEF HostInv, SudoRight, CanSudo
  <2> QED BY <2>1, <2>2
<1> QED BY <1>1 DEF WayBack, HostInv, OpensshRight

(* However the scripts are cut off, fail or run again, sudo works for the   *)
(* admin and changed ssh units have a record of what they were before the   *)
(* first change (AdminPasswordScript, OpenSSHDisableScript).                *)
THEOREM AlwaysAWayBack == Spec => []WayBack
<1>1. HostAssumption
  BY HostAssumption
<1>2. HostInv => WayBack
  BY <1>1, WayBackHolds
<1> QED BY <1>2, HostInvariant, PTL

LEMMA KeptHolds == ASSUME HostInv PROVE PromisesHold
<1> SUFFICES ASSUME NEW facet \in kept PROVE Holds(facet)
  BY DEF PromisesHold
<1>1. facet \in Facets
  BY DEF HostInv, JobTyped
<1>2. CASE facet \in {"sudo", "account"}
  BY <1>2 DEF HostInv, SudoRight, UsersRight, Holds
<1>3. CASE facet \in {"connector", "process"}
  BY <1>3 DEF HostInv, ConnectorRight, Holds
<1>4. CASE facet \in {"egress", "gate", "openssh"}
  BY <1>4 DEF HostInv, EgressRight, GateRight, OpensshRight, Holds
<1> QED BY <1>1, <1>2, <1>3, <1>4 DEF Facets

(* What a script reported as done is so until the operator touches it or    *)
(* the same script begins again.                                            *)
THEOREM ReportsStayTrue == Spec => []PromisesHold
  BY HostInvariant, KeptHolds, PTL

(* A removal deletes the account only once nothing that sudo reads, in any  *)
(* file, names it or its uid.                                               *)
LEMMA RemovalLeavesNoRule ==
  ASSUME HostInv, [Next]_vars, who # "none", account # "gone", account' = "gone"
  PROVE  \A f \in Files : sudoers[f] \cap {"own", "list", "uid"} = {}
<1>1. CASE DeleteAccount
  <2>1. ~PolicyNames /\ sudoers["elsewhere"] = {}
    BY <1>1 DEF DeleteAccount, HostInv, UsersRight, UserSteps
  <2> QED BY <2>1 DEF PolicyNames, NamesUid, Named, Read
<1>2. CASE LockAccount
  BY <1>2 DEF LockAccount
<1>3. CASE DeleteByHand
  BY <1>3 DEF DeleteByHand, HostInv, JobTyped
<1>4. CASE Provision /\ ~DeleteAccount /\ ~LockAccount
  <2>1. UNCHANGED image
    BY <1>4 DEF Provision, BeginCreate, WaitReady, BeginBootstrap, BeginFix, Cut, ChangePassword,
       StripCloud, StripBoot, VerifySudo, CheckProcesses, EditDropIn, DropInsEnd, InstallTrust,
       RepairTrust, InstallCandidate, StartConnector, RestartConnector, InstallTools, DenyOutgoing,
       AllowOutgoing, AllowRequired, ProveLockdown, InstallGate, CheckIngress, Preflight,
       RecordUnits, DisableUnits, MaskUnits, SetCondition
  <2> QED BY <2>1 DEF image
<1>5. CASE Operator /\ ~DeleteByHand
  <2>1. account' = account
    BY <1>5 DEF Operator, AddRule, RemoveRule, LogIn, LogOut, TouchConnector, ResetFirewall,
       EnableFirewall, RemoveGate, Depend, Retarget, ServeSSH, StartStray, StopStray, OptBackIn,
       OptOut, image
  <2> QED BY <2>1
<1>6. CASE UNCHANGED vars
  BY <1>6 DEF vars, image
<1> QED BY <1>1, <1>2, <1>3, <1>4, <1>5, <1>6 DEF Next

(* Serverpro never deletes the image account while a rule that sudo reads   *)
(* grants something to its name or uid (policy_names_account).              *)
THEOREM RulesGoWithAccount == Spec => NoRuleOutlivesAccount
<1> DEFINE A == who # "none" /\ account # "gone" /\ account' = "gone" =>
                  \A f \in Files : sudoers[f] \cap {"own", "list", "uid"} = {}
<1>1. HostInv /\ [Next]_vars => [A]_vars
  BY RemovalLeavesNoRule
<1>2. Spec => [][A]_vars
  BY <1>1, HostInvariant, PTL DEF Spec
<1> QED BY <1>2 DEF NoRuleOutlivesAccount

(* Only one command of serverpro stops sshd, after its checks.              *)
LEMMA StopsOnlyUnused ==
  ASSUME HostInv, [Next]_vars, who # "none", ssh.live, ~ssh'.live
  PROVE  \A u \in uses \cap script.seen : ~Reaches(u)
<1>1. CASE at = "disable"
  BY <1>1 DEF HostInv, OpensshRight
<1>2. CASE at # "disable" /\ Provision
  <2>1. ssh' = ssh \/ RecordUnits \/ MaskUnits \/ SetCondition
    BY <1>2 DEF Provision, BeginCreate, WaitReady, BeginBootstrap, BeginFix, Cut, ChangePassword,
       StripCloud, StripBoot, VerifySudo, LockAccount, CheckProcesses, EditDropIn, DropInsEnd,
       DeleteAccount, InstallTrust, RepairTrust, InstallCandidate, StartConnector, RestartConnector,
       InstallTools, DenyOutgoing, AllowOutgoing, AllowRequired, ProveLockdown, InstallGate,
       CheckIngress, Preflight, DisableUnits, openssh
  <2>2. CASE RecordUnits \/ MaskUnits \/ SetCondition
    BY <2>2 DEF RecordUnits, MaskUnits, SetCondition, HostInv, OpensshRight
  <2> QED BY <2>1, <2>2
<1>3. CASE Operator
  <2>1. ssh' = ssh \/ StartStray \/ StopStray \/ OptBackIn
    BY <1>3 DEF Operator, AddRule, RemoveRule, LogIn, LogOut, DeleteByHand, TouchConnector,
       ResetFirewall, EnableFirewall, RemoveGate, Depend, Retarget, ServeSSH, OptOut, openssh
  <2>2. CASE StartStray \/ StopStray \/ OptBackIn
    BY <2>2 DEF StartStray, StopStray, OptBackIn, HostInv, OpensshRight
  <2> QED BY <2>1, <2>2
<1>4. CASE UNCHANGED vars
  BY <1>4 DEF vars, openssh
<1> QED BY <1>1, <1>2, <1>3, <1>4 DEF Next

(* When serverpro stops sshd, nothing that was there for its checks to see  *)
(* and is still there gets its service from sshd                            *)
(* (CheckTunnelSSHIngress and the preflight of OpenSSHDisableScript).       *)
THEOREM SshdStopsUnused == Spec => SshdUnused
<1> DEFINE A == who # "none" /\ ssh.live /\ ~ssh'.live => \A u \in uses \cap script.seen : ~Reaches(u)
<1>1. HostInv /\ [Next]_vars => [A]_vars
  BY StopsOnlyUnused
<1>2. Spec => [][A]_vars
  BY <1>1, HostInvariant, PTL DEF Spec
<1> QED BY <1>2 DEF SshdUnused
=============================================================================
