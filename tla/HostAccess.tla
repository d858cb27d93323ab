------------------------------ MODULE HostAccess ------------------------------
(***************************************************************************)
(* What serverpro does on a new host over Tailscale SSH: the remote half   *)
(* of server create, in its order, and the repairs of doctor that run the  *)
(* same scripts.  The scripts set the admin's password and close the       *)
(* first-boot grant, remove the account that the provider's image brings,  *)
(* install the tunnel connector, set the outgoing default, install the     *)
(* reboot gate and turn OpenSSH off.  Each may be cut off between two of   *)
(* its commands or fail at one, and create may run again.  Meanwhile an    *)
(* operator edits sudoers, logs in, adds routes, and undoes all of it.     *)
(*                                                                         *)
(* Abstracted: one image account; a sudoers file is the set of forms that  *)
(* its rules have; the text of the scripts' answers; the archive.  Nobody  *)
(* edits sudo.conf, nsswitch.conf or sudoers between the last reading of a *)
(* removal and its userdel, and a script that was cut off stops.           *)
(***************************************************************************)
EXTENDS Naturals, Sequences, FiniteSets

CONSTANTS Passwords,  \* that an operator may give
          Configs,    \* [tunnel, restricted, reboot, off : BOOLEAN]
          Hosts,      \* the hosts to begin with: "fresh", "older"
          Additions,  \* <<file, form>>: the sudoers rules of an operator, who
                      \* leaves the first-boot grant to the scripts
          Dependants, \* sessions, logins and routes that may rely on sshd
          Faults,     \* commands that fail and scripts that are cut off
          Edits       \* acts of the operator

Steps == <<"ready", "password", "users", "connector", "tools", "lockdown", "gate", "openssh">>
Facets == {"sudo", "account", "connector", "process", "egress", "gate", "openssh"}
DropIns == <<"cloud", "boot", "extra">>
Files == {"main", "cloud", "boot", "extra", "elsewhere"}
(* free: the admin without a password; own: the image account alone; list:  *)
(* that account among others; uid: its uid; other: another account.         *)
Forms == {"free", "own", "list", "uid", "other"}
Builds == {"none", "old", "cloudflare", "foreign"}
Dependant == [at : {"sshd", "cloud", "host", "outside"},
              scheme : {"session", "http", "tcp", "unix", "builtin", "ssh", "odd"},
              port : {"", "22", "0022", "8080", "70000"},
              mode : {"plain", "bastion", "proxy", "network"}]

ASSUME HostAssumption ==
    /\ "none" \notin Passwords /\ Passwords # {}
    /\ Configs \subseteq [tunnel : BOOLEAN, restricted : BOOLEAN, reboot : BOOLEAN, off : BOOLEAN]
    /\ Hosts \subseteq {"fresh", "older"}
    /\ Additions \subseteq (Files \X Forms) \ {<<"boot", "free">>}
    /\ Dependants \subseteq Dependant
    /\ Faults \in Nat /\ Edits \in Nat

VARIABLES config,
          at,       \* the next command: rest, or a step of a script
          who,      \* create, bootstrap or fix, while one runs
          key,      \* the sudo password it was given
          script,   \* what the script keeps in its variables
          pw, sudoers,
          account,  \* the image account: open, locked or gone
          busy,     \* it has processes
          conn, ufw, gate,
          ssh,      \* the units, their condition, a listener, the record
          uses,     \* what relies on sshd or names a route
          served,   \* tailscaled runs and serves SSH
          kept,     \* history: facets that a step vouched for and nobody changed since
          faults, edits

admin == <<pw, sudoers>>
image == <<account, busy>>
network == <<conn, ufw, gate>>
openssh == <<ssh, uses, served>>
session == <<config, who, key>>
counters == <<faults, edits>>
vars == <<config, at, who, key, script, admin, image, network, openssh, kept, counters>>

NoScript == [cloud |-> {}, boot |-> {}, seen |-> {}]
NoRecord == [unit |-> "none", cond |-> FALSE, changed |-> FALSE]

(* An older host was created before most of these steps existed; where no   *)
(* tunnel is configured any more, its connector was stopped and disabled.   *)
Init ==
    /\ config \in Configs
    /\ at = "rest" /\ who = "none" /\ key = "none" /\ script = NoScript
    /\ busy = FALSE /\ gate = FALSE /\ served = TRUE /\ uses = {}
    /\ ssh = [unit |-> "enabled", cond |-> FALSE, live |-> TRUE, stray |-> FALSE,
              changed |-> FALSE, record |-> NoRecord]
    /\ account = "open"
    /\ \/ /\ "fresh" \in Hosts /\ pw = "none"
          /\ sudoers = [f \in Files |-> CASE f = "cloud" -> {"own"} [] f = "boot" -> {"free"}
                                          [] OTHER -> {}]
          /\ conn = [trust |-> "none", source |-> "none", build |-> "none", receipt |-> "none",
                     unit |-> FALSE, running |-> "none"]
          /\ ufw = [on |-> TRUE, out |-> "allow", rules |-> FALSE]
       \/ /\ "older" \in Hosts /\ pw \in Passwords
          /\ sudoers = [f \in Files |-> IF f = "cloud" THEN {"own", "other"} ELSE {}]
          /\ conn = IF config.tunnel
                    THEN [trust |-> "ours", source |-> "legacy", build |-> "old",
                          receipt |-> "none", unit |-> TRUE, running |-> "old"]
                    ELSE [trust |-> "ours", source |-> "legacy", build |-> "old",
                          receipt |-> "none", unit |-> FALSE, running |-> "none"]
          /\ ufw = [on |-> TRUE, out |-> "deny", rules |-> FALSE]
    /\ kept = {} /\ faults = 0 /\ edits = 0

Fault == faults < Faults /\ faults' = faults + 1 /\ edits' = edits
NoFault == UNCHANGED counters
Edit == edits < Edits /\ edits' = edits + 1 /\ faults' = faults
-----------------------------------------------------------------------------
(* How a run goes from step to step *)

Due(step) ==
    CASE step = "connector" -> config.tunnel
      [] step = "gate" -> config.reboot
      [] step = "openssh" -> config.off
      [] OTHER -> TRUE
After(step) ==
    LET later == {i \in DOMAIN Steps : Due(Steps[i]) /\ \E j \in 1 .. i - 1 : Steps[j] = step}
    IN  IF later = {} THEN "rest" ELSE Steps[CHOOSE i \in later : \A j \in later : i <= j]

Rest ==
    /\ at' = "rest" /\ who' = "none" /\ key' = "none" /\ script' = NoScript
    /\ config' = config
(* An error, which ends create and the repair alike. *)
Stop == Rest /\ kept' = kept
Go(step) == at' = step /\ UNCHANGED <<session, script, kept>>
(* A script begins to change what an earlier one vouched for. *)
Open(facets, step) == at' = step /\ kept' = kept \ facets /\ UNCHANGED session
(* A script ends well; doctor runs one, server bootstrap the tools and the  *)
(* lockdown, create every one that is due.                                  *)
Finish(step, facets) ==
    /\ kept' = kept \union facets /\ script' = NoScript
    /\ LET next == IF who = "fix" \/ (who = "bootstrap" /\ step = "lockdown")
                   THEN "rest" ELSE After(step)
       IN  IF next = "rest" THEN Rest ELSE at' = next /\ UNCHANGED session

Free == \E f \in Files : "free" \in sudoers[f]
(* Every remote command goes through sudo -v first, which takes a password  *)
(* unless the bootstrap file, with verifypw=any, is there.                  *)
CanSudo(k) == "free" \in sudoers["boot"] \/ pw = k

BeginCreate ==
    /\ at = "rest" /\ served
    /\ at' = "ready" /\ who' = "create" /\ key' \in Passwords
    /\ UNCHANGED <<config, script, admin, image, network, openssh, kept, counters>>

(* waitRemoteReady: a host that does not answer is asked again; a refused   *)
(* password, a node that is not ready, or the deadline ends create.         *)
WaitReady ==
    /\ at = "ready"
    /\ \/ CanSudo(key) /\ Finish("ready", {}) /\ NoFault
       \/ ~CanSudo(key) /\ Stop /\ NoFault
       \/ Stop /\ Fault
    /\ UNCHANGED <<admin, image, network, openssh>>

(* The connection is lost, and with it what is left of the script. *)
Cut ==
    /\ at \notin {"rest", "ready"} /\ Stop /\ Fault
    /\ UNCHANGED <<admin, image, network, openssh>>
-----------------------------------------------------------------------------
(* AdminPasswordScript *)

ChangePassword ==
    /\ at = "password"
    /\ \/ pw' = key /\ Open({"sudo"}, "strip cloud") /\ script' = script /\ NoFault
       \/ pw' = pw /\ Stop /\ Fault
    /\ UNCHANGED <<sudoers, image, network, openssh>>

(* Rules without a password leave 90-cloud-init-users, whoever has them;    *)
(* the bootstrap file goes as a whole.  Each is backed up.                  *)
StripCloud ==
    /\ at = "strip cloud"
    /\ \/ /\ sudoers' = [sudoers EXCEPT !["cloud"] = @ \ {"free", "own"}]
          /\ script' = [script EXCEPT !.cloud = sudoers["cloud"]]
          /\ at' = "strip boot" /\ UNCHANGED <<session, kept>> /\ NoFault
       \/ sudoers' = sudoers /\ Stop /\ Fault
    /\ UNCHANGED <<pw, image, network, openssh>>

Restored ==
    [sudoers EXCEPT !["cloud"] = IF script.cloud = {} THEN @ ELSE script.cloud,
                    !["boot"] = IF script.boot = {} THEN @ ELSE script.boot]

StripBoot ==
    /\ at = "strip boot"
    /\ \/ /\ sudoers' = [sudoers EXCEPT !["boot"] = {}]
          /\ script' = [script EXCEPT !.boot = sudoers["boot"]]
          /\ at' = "verify sudo" /\ UNCHANGED <<session, kept>> /\ NoFault
       \/ sudoers' = Restored /\ Stop /\ Fault
    /\ UNCHANGED <<pw, image, network, openssh>>

(* A mutant: the grant that is left elsewhere is not noticed. *)
VerifySudoOnce ==
    /\ at = "verify sudo"
    /\ \/ sudoers' = sudoers /\ Finish("password", {"sudo"}) /\ NoFault
       \/ sudoers' = Restored /\ Stop /\ Fault
    /\ UNCHANGED <<pw, image, network, openssh>>

(* sudo must take the password and refuse without one. *)
VerifySudo ==
    /\ at = "verify sudo"
    /\ \/ /\ ~Free /\ pw = key /\ sudoers' = sudoers
          /\ Finish("password", {"sudo"}) /\ NoFault
       \/ (Free \/ pw # key) /\ sudoers' = Restored /\ Stop /\ NoFault
       \/ sudoers' = Restored /\ Stop /\ Fault
    /\ UNCHANGED <<pw, image, network, openssh>>
-----------------------------------------------------------------------------
(* ImageUsersRemovalScript *)

Named(f) == sudoers[f] \cap {"own", "list"} # {}
(* What sudo's own parser reads: every file, but no other source. *)
Read == Files \ {"elsewhere"}
NamesUid == account # "gone" /\ \E f \in Read : "uid" \in sudoers[f]

(* sudoers_source_gaps: a sudo.conf or nsswitch.conf that adds a source.    *)
OtherSources == sudoers["elsewhere"] # {}

(* Nothing is touched while sudo reads rules from elsewhere, a file that    *)
(* serverpro does not edit names the account, or a rule names its uid.      *)
RemovalAllowed == ~OtherSources /\ ~Named("main") /\ ~NamesUid

LockAccount ==
    /\ at = "users"
    /\ \/ /\ RemovalAllowed /\ NoFault
          /\ account' = IF account = "gone" THEN "gone" ELSE "locked"
          /\ Open({"account"}, "processes") /\ script' = script
       \/ ~RemovalAllowed /\ Stop /\ NoFault /\ account' = account
       \/ Stop /\ Fault /\ account' = account
    /\ UNCHANGED <<admin, busy, network, openssh>>

(* The account stays locked when it still has processes. *)
CheckProcesses ==
    /\ at = "processes"
    /\ \/ ~busy /\ Go("drop-ins") /\ NoFault
       \/ busy /\ Stop /\ NoFault
       \/ Stop /\ Fault
    /\ UNCHANGED <<admin, image, network, openssh>>

(* A file of the account's own rules goes to the archive, out of another    *)
(* its own rules are cut; visudo refusing either puts the file back.  A     *)
(* file that still names it stops the removal.                              *)
EditDropIn ==
    /\ at = "drop-ins"
    /\ \E i \in DOMAIN DropIns :
         /\ Named(DropIns[i]) /\ \A j \in 1 .. i - 1 : ~Named(DropIns[j])
         /\ \/ /\ "list" \notin sudoers[DropIns[i]] /\ NoFault
               /\ sudoers' = [sudoers EXCEPT ![DropIns[i]] = @ \ {"own"}]
               /\ Go("drop-ins")
            \/ "list" \in sudoers[DropIns[i]] /\ sudoers' = sudoers /\ Stop /\ NoFault
            \/ sudoers' = sudoers /\ Stop /\ Fault
    /\ UNCHANGED <<pw, image, network, openssh>>

DropInsEnd ==
    /\ at = "drop-ins" /\ \A i \in DOMAIN DropIns : ~Named(DropIns[i])
    /\ Go("userdel") /\ NoFault
    /\ UNCHANGED <<admin, image, network, openssh>>

(* policy_names_account, the last gate before userdel. *)
(* A mutant: the edits are trusted. *)
PolicyNamesNothing == FALSE

PolicyNames == NamesUid \/ \E f \in Read : Named(f)

DeleteAccount ==
    /\ at = "userdel"
    /\ \/ ~PolicyNames /\ account' = "gone" /\ Finish("users", {"account"}) /\ NoFault
       \/ PolicyNames /\ account' = account /\ Stop /\ NoFault
       \/ account' = account /\ Stop /\ Fault
    /\ UNCHANGED <<admin, busy, network, openssh>>
-----------------------------------------------------------------------------
(* The tunnel connector *)

(* The package floor and the receipt, which names the build by content. *)
Provenance == conn.build \notin {"none", "old"} /\ conn.receipt = conn.build

HostState == IF conn.build = "none" THEN "absent"
             ELSE IF conn.unit \/ conn.running # "none" THEN "active" ELSE "dormant"

(* What provisioning pinned and a repair may reuse: the key, and the source *)
(* line or the legacy one that it migrates.                                 *)
Pinned == conn.trust = "ours" /\ conn.source \in {"ours", "legacy"}
Dormant == ~config.tunnel /\ HostState = "dormant"

(* InstallScript pins the key and the source before it uses them. *)
InstallTrust ==
    /\ at = "connector" /\ who = "create"
    /\ \/ /\ conn' = [conn EXCEPT !.trust = "ours", !.source = "ours"]
          /\ Open({"connector"}, "candidate") /\ script' = script /\ NoFault
       \/ conn' \in {conn, [conn EXCEPT !.trust = "ours"]} /\ Stop /\ Fault
    /\ UNCHANGED <<admin, image, ufw, gate, openssh>>

(* The repairs reuse what was pinned.  A connector that nobody configured   *)
(* is repaired as it is found, and one that is absent is left alone.        *)
RepairTrust ==
    /\ at = "connector" /\ who = "fix"
    /\ \/ /\ ~config.tunnel /\ HostState = "absent"
          /\ conn' = conn /\ Finish("connector", {}) /\ NoFault
       \/ /\ Dormant \/ conn.unit
          /\ Provenance \/ Pinned
          /\ conn' = IF Provenance THEN conn ELSE [conn EXCEPT !.source = "ours"]
          /\ Open({"connector", "process"}, "candidate") /\ script' = script /\ NoFault
       \/ /\ config.tunnel \/ HostState # "absent"
          /\ (~Dormant /\ ~conn.unit) \/ (~Provenance /\ ~Pinned)
          /\ conn' = conn /\ Stop /\ NoFault
       \/ conn' = conn /\ Stop /\ Fault
    /\ UNCHANGED <<admin, image, ufw, gate, openssh>>

(* A mutant: a connector above the floor is kept, and vouched for. *)
CandidateByFloor ==
    IF conn.build \in {"cloudflare", "foreign"} THEN [conn EXCEPT !.receipt = conn.build]
    ELSE [conn EXCEPT !.build = "cloudflare", !.receipt = "cloudflare"]

(* A connector is kept for its receipt; any other is replaced by the newest *)
(* that only Cloudflare offers, and only then is a receipt written.         *)
Candidate ==
    IF Provenance THEN conn
    ELSE [conn EXCEPT !.build = "cloudflare", !.receipt = "cloudflare"]

InstallCandidate ==
    /\ at = "candidate"
    /\ \/ conn' = Candidate /\ NoFault
          /\ IF who = "create" THEN Go("unit")
             ELSE IF Dormant THEN Finish("connector", {"connector"})
             ELSE Go("restart")
       \/ /\ conn' \in {conn, [Candidate EXCEPT !.receipt = conn.receipt]}
          /\ Stop /\ Fault
    /\ UNCHANGED <<admin, image, ufw, gate, openssh>>

(* The token and the unit; enable --now leaves a running process alone. *)
StartConnector ==
    /\ at = "unit"
    /\ \/ /\ conn' = [conn EXCEPT !.unit = TRUE,
                                  !.running = IF @ = "none" THEN conn.build ELSE @]
          /\ Finish("connector", {"connector"}) /\ NoFault
       \/ conn' \in {conn, [conn EXCEPT !.unit = TRUE]} /\ Stop /\ Fault
    /\ UNCHANGED <<admin, image, ufw, gate, openssh>>

RestartConnector ==
    /\ at = "restart"
    /\ \/ conn' = [conn EXCEPT !.running = conn.build] /\ Finish("connector", {"connector", "process"}) /\ NoFault
       \/ conn' \in {conn, [conn EXCEPT !.running = "none"]} /\ Stop /\ Fault
    /\ UNCHANGED <<admin, image, ufw, gate, openssh>>
-----------------------------------------------------------------------------
(* Tools, outgoing traffic, the reboot gate *)

InstallTools ==
    /\ at = "tools"
    /\ \/ Finish("tools", {}) /\ NoFault
       \/ Stop /\ Fault
    /\ UNCHANGED <<admin, image, network, openssh>>

(* LockdownScript: the default, the rules, and the proof of both. *)
DenyOutgoing ==
    /\ at = "lockdown" /\ config.restricted
    /\ \/ ufw' = [ufw EXCEPT !.out = "deny"] /\ Open({"egress"}, "allow") /\ script' = script /\ NoFault
       \/ ufw' = ufw /\ Stop /\ Fault
    /\ UNCHANGED <<admin, image, conn, gate, openssh>>

(* Without the restriction, what a former one left is undone. *)
AllowOutgoing ==
    /\ at = "lockdown" /\ ~config.restricted
    /\ \/ ufw' = [ufw EXCEPT !.out = "allow"] /\ Finish("lockdown", {}) /\ NoFault
       \/ ufw' = ufw /\ Stop /\ Fault
    /\ UNCHANGED <<admin, image, conn, gate, openssh>>

AllowRequired ==
    /\ at = "allow"
    /\ \/ ufw' = [ufw EXCEPT !.rules = TRUE] /\ Go("prove") /\ NoFault
       \/ ufw' = ufw /\ Stop /\ Fault
    /\ UNCHANGED <<admin, image, conn, gate, openssh>>

InForce == ufw.on /\ ufw.out = "deny" /\ ufw.rules

ProveLockdown ==
    /\ at = "prove"
    /\ \/ InForce /\ Finish("lockdown", {"egress"}) /\ NoFault
       \/ ~InForce /\ Stop /\ NoFault
       \/ Stop /\ Fault
    /\ UNCHANGED <<admin, image, network, openssh>>

InstallGate ==
    /\ at = "gate"
    /\ \/ gate' = TRUE /\ Finish("gate", {"gate"}) /\ NoFault
       \/ gate' \in {gate, TRUE} /\ Stop /\ Fault
    /\ UNCHANGED <<admin, image, conn, ufw, openssh>>
-----------------------------------------------------------------------------
(* OpenSSH off *)

(* tunnelRouteToSSH, an allowlist: a port counts as a number, and one that  *)
(* no TCP port can be counts as the one of sshd.                            *)
ReachesSSH(port) == port \in {"22", "0022", "70000"}
MayReachSSH(u) ==
    \/ u.mode # "plain"
    \/ u.scheme \notin {"unix", "builtin", "tcp", "http"}
    \/ u.scheme = "tcp" /\ (u.port = "" \/ ReachesSSH(u.port))
    \/ u.scheme = "http" /\ ReachesSSH(u.port)

(* The scan of the host's own settings: a grep for ssh:// and for the port  *)
(* with leading zeros, whatever it belongs to, then an awk allowlist.       *)
ScanFinds(u) ==
    \/ u.scheme = "ssh" \/ u.port \in {"22", "0022"}
    \/ u.mode # "plain"
    \/ /\ u.scheme \notin {"unix", "builtin"}
       /\ u.port = "70000" \/ u.scheme \notin {"tcp", "http"} \/ (u.scheme = "tcp" /\ u.port = "")

(* CheckTunnelSSHIngress: routes that live at Cloudflare.  A failed read    *)
(* stops the run.                                                           *)
(* A mutant: a failed read counts as no routes. *)
CheckIngressLenient ==
    /\ at = "openssh"
    /\ LET routes == {u \in uses : u.at = "cloud"}
       IN  \/ /\ ~config.tunnel \/ \A u \in routes : ~MayReachSSH(u)
              /\ Open({"openssh"}, "preflight")
              /\ script' = [script EXCEPT !.seen = routes] /\ NoFault
           \/ config.tunnel /\ (\E u \in routes : MayReachSSH(u)) /\ Stop /\ NoFault
           \/ config.tunnel /\ Fault /\ Open({"openssh"}, "preflight")
              /\ script' = [script EXCEPT !.seen = routes]
    /\ UNCHANGED <<admin, image, network, openssh>>

CheckIngress ==
    /\ at = "openssh"
    /\ LET routes == {u \in uses : u.at = "cloud"}
       IN  \/ /\ ~config.tunnel \/ \A u \in routes : ~MayReachSSH(u)
              /\ Open({"openssh"}, "preflight")
              /\ script' = [script EXCEPT !.seen = routes] /\ NoFault
           \/ config.tunnel /\ (\E u \in routes : MayReachSSH(u)) /\ Stop /\ NoFault
           \/ config.tunnel /\ Stop /\ Fault
    /\ UNCHANGED <<admin, image, network, openssh>>

(* The script's own preflight: Tailscale SSH serves the host, nobody uses   *)
(* OpenSSH, and no local route or foreign connector may reach it.           *)
Preflight ==
    /\ at = "preflight"
    /\ LET here == {u \in uses : u.at # "cloud"}
           clear == served /\ \A u \in here : u.at = "host" /\ ~ScanFinds(u)
       IN  \/ clear /\ NoFault /\ at' = "record" /\ UNCHANGED <<session, kept>>
              /\ script' = [script EXCEPT !.seen = @ \union here]
           \/ ~clear /\ Stop /\ NoFault
           \/ Stop /\ Fault
    /\ UNCHANGED <<admin, image, network, openssh>>

Units == [unit |-> ssh.unit, cond |-> ssh.cond, changed |-> ssh.changed]

(* A mutant: each run records what it finds. *)
RecordedAgain == Units

(* The first record stays. *)
Recorded == IF ssh.record = NoRecord THEN Units ELSE ssh.record

RecordUnits ==
    /\ at = "record"
    /\ \/ ssh' = [ssh EXCEPT !.record = Recorded] /\ Go("disable") /\ NoFault
       \/ ssh' = ssh /\ Stop /\ Fault
    /\ UNCHANGED <<admin, image, network, uses, served>>

DisableUnits ==
    /\ at = "disable"
    /\ \/ ssh' = [ssh EXCEPT !.unit = IF @ = "masked" THEN @ ELSE "disabled",
                             !.live = FALSE, !.changed = TRUE]
          /\ Go("mask") /\ NoFault
       \/ /\ ssh' \in {ssh, [ssh EXCEPT !.unit = IF @ = "masked" THEN @ ELSE "disabled",
                                        !.changed = TRUE]}
          /\ Stop /\ Fault
    /\ UNCHANGED <<admin, image, network, uses, served>>

MaskUnits ==
    /\ at = "mask"
    /\ \/ ssh' = [ssh EXCEPT !.unit = "masked"] /\ Go("condition") /\ NoFault
       \/ ssh' = ssh /\ Stop /\ Fault
    /\ UNCHANGED <<admin, image, network, uses, served>>

(* The condition file, and the look for what still listens. *)
SetCondition ==
    /\ at = "condition"
    /\ ssh' = [ssh EXCEPT !.cond = TRUE]
    /\ \/ ~ssh.live /\ ~ssh.stray /\ Finish("openssh", {"openssh"}) /\ NoFault
       \/ (ssh.live \/ ssh.stray) /\ Stop /\ NoFault
       \/ Stop /\ Fault
    /\ UNCHANGED <<admin, image, network, uses, served>>
-----------------------------------------------------------------------------
(* server bootstrap and doctor --fix *)

BeginBootstrap ==
    /\ at = "rest" /\ served
    /\ at' = "tools" /\ who' = "bootstrap" /\ key' \in {k \in Passwords : CanSudo(k)}
    /\ UNCHANGED <<config, script, admin, image, network, openssh, kept, counters>>

Finding(step) ==
    CASE step = "password" -> Free
      [] step = "users" -> account # "gone" \/ \E f \in Read : Named(f)
      [] step = "connector" ->
           (config.tunnel \/ HostState # "absent") /\
           ~(Provenance /\ (Dormant \/ conn.running # "none"))
      [] step = "lockdown" -> config.restricted /\ ~InForce
      [] step = "gate" -> config.reboot /\ ~gate
      [] step = "openssh" ->
           config.off /\ (ssh.unit # "masked" \/ ~ssh.cond \/ ssh.live \/ ssh.stray)
      [] OTHER -> FALSE

BeginFix ==
    /\ at = "rest" /\ served
    /\ at' \in {Steps[i] : i \in DOMAIN Steps} /\ Finding(at')
    /\ who' = "fix" /\ key' \in {k \in Passwords : CanSudo(k)}
    /\ UNCHANGED <<config, script, admin, image, network, openssh, kept, counters>>
-----------------------------------------------------------------------------
(* The operator and the other tools on the host *)

Stays == UNCHANGED <<at, who, key, script>>
Doubt(facets) == kept' = kept \ facets
ByName == {"own", "list"}

AddRule ==
    /\ Edit /\ Stays
    /\ \E r \in Additions :
         /\ r[2] \notin sudoers[r[1]] /\ at # "userdel"
         /\ r[1] = "elsewhere" => at \notin {"processes", "drop-ins"}
         /\ sudoers' = [sudoers EXCEPT ![r[1]] = @ \union {r[2]}]
         /\ Doubt((IF r[2] = "free" THEN {"sudo"} ELSE {}) \union
                  (IF r[2] \in ByName THEN {"account"} ELSE {}))
    /\ UNCHANGED <<config, pw, image, network, openssh>>

RemoveRule ==
    /\ NoFault /\ Stays
    /\ \E r \in Additions : /\ r[2] \in sudoers[r[1]]
                            /\ sudoers' = [sudoers EXCEPT ![r[1]] = @ \ {r[2]}]
    /\ UNCHANGED <<config, pw, image, network, openssh, kept>>

LogIn ==
    /\ Edit /\ Stays
    /\ account = "open" /\ ~busy /\ busy' = TRUE
    /\ UNCHANGED <<config, admin, account, network, openssh, kept>>

LogOut ==
    /\ NoFault /\ Stays
    /\ busy /\ busy' = FALSE
    /\ UNCHANGED <<config, admin, account, network, openssh, kept>>

(* userdel by hand leaves the rules of the account. *)
DeleteByHand ==
    /\ Edit /\ Stays
    /\ at = "rest" /\ account # "gone" /\ account' = "gone" /\ busy' = FALSE
    /\ UNCHANGED <<config, admin, network, openssh, kept>>

(* dpkg -i with or without a restart, a removal, another repository. *)
TouchConnector ==
    /\ Edit /\ Stays /\ at \in {"rest", "connector"}
    /\ \/ /\ conn.build # "foreign"
          /\ conn' \in {[conn EXCEPT !.build = "foreign", !.running = r] : r \in {conn.running, "foreign"}}
       \/ conn.build # "none" /\ conn' = [conn EXCEPT !.build = "none", !.running = "none"]
       \/ conn.source # "changed" /\ conn' = [conn EXCEPT !.source = "changed"]
       \/ conn.running # "none" /\ conn' = [conn EXCEPT !.running = "none"]
    /\ Doubt({"connector", "process"})
    /\ UNCHANGED <<config, admin, image, ufw, gate, openssh>>

ResetFirewall ==
    /\ Edit /\ Stays
    /\ ufw' \in {[ufw EXCEPT !.on = FALSE], [ufw EXCEPT !.out = "allow"]} \ {ufw}
    /\ Doubt({"egress"})
    /\ UNCHANGED <<config, admin, image, conn, gate, openssh>>

(* By hand, or by the check of doctor that finds it off. *)
EnableFirewall ==
    /\ NoFault /\ Stays
    /\ ~ufw.on /\ ufw' = [ufw EXCEPT !.on = TRUE]
    /\ UNCHANGED <<config, admin, image, conn, gate, openssh, kept>>

RemoveGate ==
    /\ Edit /\ Stays
    /\ gate /\ gate' = FALSE /\ Doubt({"gate"})
    /\ UNCHANGED <<config, admin, image, conn, ufw, openssh>>

(* A session, a login or a route appears, or goes away. *)
Depend ==
    /\ Edit /\ Stays
    /\ \E u \in Dependants \ uses :
         /\ u.at = "sshd" => ssh.live
         /\ u.at = "cloud" => config.tunnel
         /\ uses' = uses \union {u}
    /\ UNCHANGED <<config, admin, image, network, ssh, served, kept>>

Retarget ==
    /\ NoFault /\ Stays
    /\ \E u \in uses : uses' = uses \ {u}
    /\ UNCHANGED <<config, admin, image, network, ssh, served, kept>>

ServeSSH ==
    /\ Stays /\ at \in {"rest", "openssh", "preflight"}
    /\ IF served THEN Edit ELSE NoFault
    /\ served' = ~served
    /\ UNCHANGED <<config, admin, image, network, ssh, uses, kept>>

StartStray ==
    /\ Edit /\ Stays
    /\ ~ssh.stray /\ ssh' = [ssh EXCEPT !.stray = TRUE] /\ Doubt({"openssh"})
    /\ UNCHANGED <<config, admin, image, network, uses, served>>

StopStray ==
    /\ NoFault /\ Stays
    /\ ssh.stray /\ ssh' = [ssh EXCEPT !.stray = FALSE]
    /\ UNCHANGED <<config, admin, image, network, uses, served, kept>>

(* The documented way back, which leaves the record, and the next way out. *)
OptBackIn ==
    /\ Edit /\ Stays /\ at = "rest"
    /\ config.off /\ config' = [config EXCEPT !.off = FALSE]
    /\ ssh' = [ssh EXCEPT !.unit = "enabled", !.cond = FALSE, !.live = TRUE, !.changed = FALSE]
    /\ Doubt({"openssh"})
    /\ UNCHANGED <<admin, image, network, uses, served>>

OptOut ==
    /\ NoFault /\ Stays /\ at = "rest"
    /\ ~config.off /\ config' = [config EXCEPT !.off = TRUE]
    /\ UNCHANGED <<admin, image, network, openssh, kept>>
-----------------------------------------------------------------------------
Provision == \/ BeginCreate \/ WaitReady \/ BeginBootstrap \/ BeginFix \/ Cut
             \/ ChangePassword \/ StripCloud \/ StripBoot \/ VerifySudo
             \/ LockAccount \/ CheckProcesses \/ EditDropIn \/ DropInsEnd \/ DeleteAccount
             \/ InstallTrust \/ RepairTrust \/ InstallCandidate \/ StartConnector \/ RestartConnector
             \/ InstallTools \/ DenyOutgoing \/ AllowOutgoing \/ AllowRequired \/ ProveLockdown
             \/ InstallGate
             \/ CheckIngress \/ Preflight \/ RecordUnits \/ DisableUnits \/ MaskUnits \/ SetCondition
Operator == \/ AddRule \/ RemoveRule \/ LogIn \/ LogOut \/ DeleteByHand
            \/ TouchConnector \/ ResetFirewall \/ EnableFirewall \/ RemoveGate
            \/ Depend \/ Retarget \/ ServeSSH \/ StartStray \/ StopStray \/ OptBackIn \/ OptOut

Next == Provision \/ Operator

Spec == Init /\ [][Next]_vars
-----------------------------------------------------------------------------
ScriptSteps == {"strip cloud", "strip boot", "verify sudo", "processes", "drop-ins", "userdel",
                "candidate", "unit", "restart", "allow", "prove", "preflight", "record",
                "disable", "mask", "condition"}

(* Types, and what the scripts rely on: a receipt only ever names a build   *)
(* of Cloudflare's, nobody runs as an account that is gone, and what was    *)
(* backed up or seen belongs to the script that runs.                       *)
TypeOK ==
    /\ config \in [tunnel : BOOLEAN, restricted : BOOLEAN, reboot : BOOLEAN, off : BOOLEAN]
    /\ at \in {"rest"} \union {Steps[i] : i \in DOMAIN Steps} \union ScriptSteps
    /\ who \in {"none", "create", "bootstrap", "fix"} /\ (at = "rest" <=> who = "none")
    /\ key \in Passwords \union {"none"} /\ (who = "none" <=> key = "none")
    /\ script.cloud \subseteq Forms /\ script.boot \subseteq Forms /\ script.seen \subseteq Dependants
    /\ script.cloud \union script.boot # {} => at \in {"strip boot", "verify sudo"}
    /\ pw \in Passwords \union {"none"} /\ sudoers \in [Files -> SUBSET Forms]
    /\ account \in {"open", "locked", "gone"} /\ (busy => account # "gone")
    /\ conn \in [trust : {"none", "ours"}, source : {"none", "legacy", "ours", "changed"},
                 build : Builds, receipt : {"none", "cloudflare"}, unit : BOOLEAN, running : Builds]
    /\ ufw \in [on : BOOLEAN, out : {"allow", "deny"}, rules : BOOLEAN]
    /\ ssh.unit \in {"enabled", "disabled", "masked"} /\ ssh.record.unit \in {"none", "enabled"}
    /\ uses \subseteq Dependants /\ {busy, gate, served, ssh.live} \subseteq BOOLEAN
    /\ kept \subseteq Facets /\ faults \in 0 .. Faults /\ edits \in 0 .. Edits

(* However the scripts are cut off, fail or run again, the operator has a   *)
(* way back: sudo works for the admin, without a password or with one, and  *)
(* when the ssh units were changed there is a record of what they were      *)
(* before the first change (AdminPasswordScript sets the password before it *)
(* takes the grant; OpenSSHDisableScript keeps its first record).           *)
WayBack ==
    /\ \E k \in Passwords : CanSudo(k)
    /\ ssh.changed => ssh.record # NoRecord /\ ~ssh.record.changed

Holds(facet) ==
    CASE facet = "sudo" -> pw # "none" /\ ~Free
      [] facet = "account" -> account = "gone" /\ \A f \in Files : ~Named(f)
      [] facet = "connector" -> Provenance /\ (config.tunnel => conn.unit)
      [] facet = "process" -> conn.running = conn.build
      [] facet = "egress" -> InForce
      [] facet = "gate" -> gate
      [] facet = "openssh" -> ssh.unit = "masked" /\ ssh.cond /\ ~ssh.live /\ ~ssh.stray

(* What a script reported as done is so, and stays so through every other   *)
(* script, failure and rerun, until the operator touches it or the same     *)
(* script begins again (each script verifies before it reports success).    *)
PromisesHold == \A facet \in kept : Holds(facet)

(* Serverpro never deletes the image account while a rule that sudo reads   *)
(* grants something to its name or uid, which an account that is created    *)
(* later would inherit (policy_names_account, the last gate).               *)
NoRuleOutlivesAccount ==
    [][who # "none" /\ account # "gone" /\ account' = "gone" =>
         \A f \in Files : sudoers[f] \cap {"own", "list", "uid"} = {}]_vars

(* What cloudflared and sshd make of a dependant: whoever chooses the       *)
(* destination, or names the port, gets to sshd.                            *)
Reaches(u) ==
    \/ u.at = "sshd" \/ u.mode # "plain" \/ u.scheme = "ssh"
    \/ u.scheme \in {"http", "tcp", "odd"} /\ u.port \in {"22", "0022"}

(* When serverpro stops sshd, nothing that was there for its checks to see  *)
(* and is still there gets its service from sshd                            *)
(* (CheckTunnelSSHIngress and the preflight of OpenSSHDisableScript).       *)
SshdUnused ==
    [][who # "none" /\ ssh.live /\ ~ssh'.live => \A u \in uses \cap script.seen : ~Reaches(u)]_vars
=============================================================================
