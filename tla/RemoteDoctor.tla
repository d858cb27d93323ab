----------------------------- MODULE RemoteDoctor -----------------------------
(***************************************************************************)
(* server doctor and server doctor --fix on one host.  The device identity *)
(* is settled first; then one batch reads everything the checks ask for,   *)
(* and the checks run in order, each on its line of that baseline or live, *)
(* each perhaps with a repair and a second, live reading.                  *)
(*                                                                         *)
(* A host is a record of facets; a probe is the set of findings it yields  *)
(* there.  Most hosts of Init have a few drifts from the sound host.       *)
(*                                                                         *)
(* Abstracted: the provider checks other than the device identity (they    *)
(* repair nothing on the host; the SSH policy is in module TailnetPolicy); *)
(* texts, remediation, redaction; the inside of the repair scripts (the    *)
(* scripts of HostAccess and RebootGate are one step here); probes that    *)
(* only read and share no facet with a repair, which are one facet each.   *)
(* Nothing but this run changes the host meanwhile; the routes of the      *)
(* tunnel do change.                                                       *)
(***************************************************************************)
EXTENDS Naturals, Sequences

CONSTANTS Drifts,   \* facets in which a host differs from the sound one
          Faults,   \* lost answers and commands that fail by themselves
          Overlong, \* checks whose baseline output may exceed its limit
          Configs   \* the configurations [lockdown, tunnel] of the server

ASSUME BoundsAssumption == Drifts \in Nat \ {0} /\ Faults \in Nat
ASSUME ConfigsAssumption == Configs \subseteq [lockdown : BOOLEAN, tunnel : BOOLEAN]

VARIABLES cfg,      \* configuration
          opt,      \* --fix, the sudo password, the stored GitHub token
          host,     \* the facets of the host now
          first,    \* history: the host before the run
          at,       \* identify, batch, check, guard, repair, recheck or done
          pos,      \* the check at hand
          base,     \* the host as the batch read it
          errors,   \* checks whose baseline is an error
          trusted,  \* Options.Fix as the checks still see it
          ran,      \* scripts that were sent, by name
          verdict,  \* results so far
          blocked,  \* the device identity was refused
          retried,
          routeAt,  \* 0, or the first check that begins with a tunnel route to SSH
          faults

vars == <<cfg, opt, host, first, at, pos, base, errors, trusted, ran, verdict,
          blocked, retried, routeAt, faults>>
settings == <<cfg, first, blocked>>

(* Checks that read one facet of their own: ReadOnly without a repair,      *)
(* Simple with a repair that settles the facet.                             *)
ReadOnly == {"cloud-init", "admin user", "dns", "egress", "operator", "sysctl", "github ssh"}
Simple == {"apparmor", "upgrades", "journald", "apt config", "git identity"}
Plain == ReadOnly \union Simple \union {"platform"}
Shared ==
    [sudo     |-> {"password", "nopasswd"},
     hash     |-> {"strong", "legacy"},
     ufw      |-> {"active", "inactive"},
     incoming |-> {"deny", "allow"},
     sshRule  |-> {"none", "allowed"},          \* a rule that lets SSH in
     sshOut   |-> {"allowed", "missing"},       \* the lockdown's rules
     outgoing |-> {"deny", "allow"},
     login    |-> {"hard", "soft", "overridden"},   \* sshd settings
     forward  |-> {"hard", "soft"},
     units    |-> {"healthy", "failed"},
     openssh  |-> {"masked", "on", "used"},
     gh       |-> {"stored", "other", "rejected", "absent", "unverified"},
     tools    |-> {"good", "bad"},
     packages |-> {"current", "old", "unseen"},  \* unseen: old, by fresh metadata only
     mesh     |-> {"current", "old"},
     kernel   |-> {"running", "pending"},
     gate     |-> {"installed", "differs"},
     workload |-> {"declared", "gap"},
     accounts |-> SUBSET {"image", "extra", "narrow"},
     userData |-> {"none", "formerHash", "currentHash"},
     serve    |-> SUBSET {"funnel", "backend", "listener"},
     connector |-> {"current", "old", "live"},
     pin      |-> {"set", "missing"}]
Facet == Plain \union DOMAIN Shared
Facets == [f \in Facet |-> IF f \in Plain THEN {"good", "bad"} ELSE Shared[f]]

SoundShared ==
    [sudo |-> "password", hash |-> "strong", ufw |-> "active", incoming |-> "deny",
     sshRule |-> "none", sshOut |-> "allowed", outgoing |-> "deny", login |-> "hard",
     forward |-> "hard", units |-> "healthy", openssh |-> "masked", gh |-> "stored",
     tools |-> "good", packages |-> "current", mesh |-> "current", kernel |-> "running",
     gate |-> "installed", workload |-> "declared", accounts |-> {}, userData |-> "none",
     serve |-> {}, connector |-> "current", pin |-> "set"]
Sound == [f \in Facet |-> IF f \in Plain THEN "good" ELSE SoundShared[f]]

(* The sound host with some drifts, each a facet with another value. *)
Drift == UNION {{f} \X Facets[f] : f \in Facet}
Drifted(drifts) == [f \in Facet |->
    IF \E i \in DOMAIN drifts : drifts[i][1] = f
      THEN drifts[CHOOSE i \in DOMAIN drifts : drifts[i][1] = f][2]
      ELSE Sound[f]]

(* A host that the program can meet: no OpenSSH unit runs while both are    *)
(* masked, and a tunnel of the configuration is not a foreign one.          *)
Possible(h, c) ==
    /\ h.openssh = "masked" => h.units = "healthy"
    /\ h.connector = "live" => ~c.tunnel
    /\ h.pin = "missing" => c.tunnel

Options == [fix : BOOLEAN, password : {"none", "right", "wrong"}, pat : {"none", "live", "dead"}]

Init ==
    /\ cfg \in Configs
    /\ opt \in {o \in Options : IF o.fix THEN o.password # "none"  \* doctorSudoPassword
                                 ELSE o.pat # "dead"}
    /\ \E drifts \in [1 .. (IF opt.fix THEN Drifts ELSE Drifts - 1) -> Drift] :
         host = Drifted(drifts)
    /\ Possible(host, cfg)
    /\ host.gh = "stored" => opt.pat = "live"
    /\ first = host
    /\ at = "identify" /\ pos = 1
    /\ base = host /\ errors = {} /\ trusted = FALSE
    /\ ran = {} /\ verdict = <<>>
    /\ blocked = FALSE /\ retried = FALSE
    /\ routeAt = 0 /\ faults = 0
-----------------------------------------------------------------------------
(* The checks, in their order, and what each of them reads *)

Opening == <<"platform", "sudo", "hash", "cloud-init", "admin user", "ufw active", "ufw deny",
             "ufw ssh", "login", "forward", "units">>

(* A mutant: the tools are applied before the GitHub token is repaired. *)
SoftwareToolsFirst ==
    <<"apparmor", "upgrades", "journald", "tools", "gh token", "dns", "egress">>

Software == <<"apparmor", "upgrades", "journald", "gh token", "tools", "dns", "egress">>
Closing == <<"openssh", "reboot pending", "reboot survivability", "apt config", "accounts",
             "user-data", "operator", "serve", "sysctl", "git identity", "github ssh">>
Order == [c \in Configs |->
    Opening \o Software
    \o (IF c.lockdown THEN <<"ufw ssh egress", "egress restricted">> ELSE <<>>)
    \o Closing
    \o (IF c.tunnel THEN <<"connector", "pin">> ELSE <<"connector", "ingress">>)]
Checks == Order[cfg]

Check == {Checks[i] : i \in DOMAIN Checks}
Current == Checks[pos]
If(condition, finding) == {x \in {finding} : condition}

UfwFindings(c, h) ==
    CASE c = "ufw active" -> If(h.ufw = "inactive", "inactive")
      [] c = "ufw deny"   -> If(h.ufw = "inactive" \/ h.incoming = "allow", "no deny")
      [] c = "ufw ssh"    -> If(h.ufw = "active" /\ h.sshRule = "allowed", "rule")
      [] c = "ufw ssh egress" -> If(h.ufw = "inactive" \/ h.sshOut = "missing", "no rule")
      [] OTHER -> {}

EgressFindings(h) ==
    If(h.ufw = "inactive" \/ h.outgoing = "allow", "open")
        \union If(h.ufw = "inactive" \/ h.sshOut = "missing", "no rule")

SshdFindings(h, keyword) == If(h[keyword] # "hard", keyword)
UnitFindings(h) == If(h.units = "failed", "units")
OpenSSHFindings(h) == If(h.openssh # "masked", "listens")
RebootFindings(h) == If(h.gate = "differs", "install") \union If(h.workload = "gap", "gap")
AccountFindings(h) == h.accounts
UserDataFindings(h) == If(h.userData # "none", h.userData)
ServeFindings(h) ==
    If("funnel" \in h.serve, "funnel")
        \union If("backend" \in h.serve /\ "listener" \notin h.serve, "backend")
ToolFindings(h) ==
    If(h.tools = "bad", "tools") \union If(h.packages = "old", "packages")
        \union If(h.mesh = "old", "mesh")
ConnectorFindings(h) == If(h.connector = "old", "connector")
IngressFindings(h) == If(h.connector = "live", "ingress")

Probe(c, h) ==
    CASE c \in Plain -> If(h[c] = "bad", c)
      [] c = "sudo" -> If(h.sudo = "nopasswd", "nopasswd")
      [] c = "hash" -> If(h.hash = "legacy", "legacy")
      [] c \in {"login", "forward"} -> SshdFindings(h, c)
      [] c = "units" -> UnitFindings(h)
      [] c = "gh token" -> If(h.gh # "stored", h.gh)
      [] c = "tools" -> ToolFindings(h)
      [] c = "egress restricted" -> EgressFindings(h)
      [] c = "openssh" -> OpenSSHFindings(h)
      [] c = "reboot pending" -> If(h.kernel = "pending", "kernel")
      [] c = "reboot survivability" -> RebootFindings(h)
      [] c = "accounts" -> AccountFindings(h)
      [] c = "user-data" -> UserDataFindings(h)
      [] c = "serve" -> ServeFindings(h)
      [] c = "connector" -> ConnectorFindings(h)
      [] c = "pin" -> If(h.pin = "missing", "pin")
      [] c = "ingress" -> IngressFindings(h)
      [] OTHER -> UfwFindings(c, h)

(* Findings that only warn. *)
Warnings == {"kernel", "gap", "narrow", "formerHash", "backend",
             "other", "unverified"}
Grade(findings) ==
    IF findings = {} THEN "pass" ELSE IF findings \subseteq Warnings THEN "warn" ELSE "fail"

(* The token check skips or warns where a repair has nothing to deploy. *)
GhGrade(gh) ==
    CASE gh = "absent" /\ opt.pat = "none" -> "skip"
      [] gh = "stored" -> "pass"
      [] OTHER -> "warn"

GradeOf(c, findings) ==
    IF c # "gh token" THEN Grade(findings)
    ELSE GhGrade(IF findings = {} THEN "stored" ELSE CHOOSE gh \in findings : TRUE)
-----------------------------------------------------------------------------
(* The repairs, and which of them makes the baseline of a check stale *)

Script(c) ==
    CASE c \in {"login", "forward"} -> "sshd settings"
      [] c \in {"ufw ssh egress", "egress restricted"} -> "lockdown"
      [] c \in {"sudo", "hash"} -> "password"
      [] c \in ReadOnly \union {"platform", "reboot pending", "user-data", "serve", "ingress"} -> "none"
      [] OTHER -> c

(* A mutant: the unit check keeps its baseline after the sshd repair. *)
RefreshedWithoutUnits(c) ==
    CASE c \in {"login", "forward"} -> {"sshd settings"}
      [] c \in {"egress restricted", "openssh", "reboot survivability", "apt config",
                "accounts"} -> {Script(c)}
      [] c \in {"pin", "ingress"} -> {"connector"}
      [] OTHER -> {}

Refreshed(c) ==
    CASE c \in {"login", "forward", "units"} -> {"sshd settings"}
      [] c \in {"egress restricted", "openssh", "reboot survivability", "apt config",
                "accounts"} -> {Script(c)}
      [] c \in {"pin", "ingress"} -> {"connector"}
      [] OTHER -> {}

(* Whether a repair covers what was found. *)
(* A mutant: a token that GitHub did not judge is replaced too. *)
CoversUnverified(c, findings) ==
    CASE c = "reboot survivability" -> "install" \in findings
      [] c = "accounts" -> "image" \in findings
      [] c = "gh token" -> findings # {"other"} /\ opt.pat # "none"
      [] OTHER -> TRUE

Covers(c, findings) ==
    CASE c = "reboot survivability" -> "install" \in findings
      [] c = "accounts" -> "image" \in findings
      [] c = "gh token" -> findings \subseteq {"rejected", "absent"} /\ opt.pat # "none"
      [] OTHER -> TRUE

(* Each repair: what it makes of a host, and whether it reports success. *)
Done(h) == {<<h, TRUE>>}
Refused(h) == {<<h, FALSE>>}
PasswordRepair(h) == Done([h EXCEPT !.sudo = "password", !.hash = "strong",
    !.userData = IF @ = "currentHash" THEN "formerHash" ELSE @])
UfwRepair(c, h) ==
    CASE c = "ufw active" -> Done([h EXCEPT !.ufw = "active"])
      [] c = "ufw deny" -> Done([h EXCEPT !.incoming = "deny"])
      [] c = "ufw ssh" -> Done([h EXCEPT !.sshRule = "none"])
SshdSettingsRepair(h) ==
    LET written == [h EXCEPT !.login = IF @ = "soft" THEN "hard" ELSE @, !.forward = "hard"]
    IN {<<[written EXCEPT !.units = u], h.login # "overridden">> :
           u \in IF h.openssh = "masked" THEN {h.units} ELSE {h.units, "failed"}}
SshdUnitsRepair(h) == Done([h EXCEPT !.units = "healthy"])
GhRepair(h) == IF opt.pat = "live" THEN Done([h EXCEPT !.gh = "stored"]) ELSE Refused(h)
LockdownRepair(h) ==
    {<<[h EXCEPT !.outgoing = "deny", !.sshOut = "allowed"], h.ufw = "active">>}
OpenSSHRepair(h) ==
    IF h.openssh = "used" THEN Refused(h)
    ELSE Done([h EXCEPT !.openssh = "masked", !.units = "healthy"])
AccountRepair(h) == Done([h EXCEPT !.accounts = @ \ {"image"}])
ConnectorRepair(h) ==
    Done([h EXCEPT !.connector = IF cfg.tunnel \/ @ = "old" THEN "current" ELSE @, !.pin = "set"])

(* The repair of the tools is up to three: fresh metadata for packages that *)
(* looked current, one bootstrap for tools and packages (which needs the    *)
(* GitHub token), one update of Tailscale.                                  *)
ToolRepair(h) ==
    LET apply == h.tools = "bad" \/ h.packages # "current"
        able == h.gh # "rejected"
        built == IF apply /\ able THEN [h EXCEPT !.tools = "good", !.packages = "current"]
                 ELSE [h EXCEPT !.packages = IF @ = "unseen" THEN "old" ELSE @]
    IN {<<[built EXCEPT !.mesh = "current"], able \/ ~apply>>}

Repaired(c, h) ==
    CASE c \in Simple -> Done([h EXCEPT ![c] = "good"])
      [] c \in {"sudo", "hash"} -> PasswordRepair(h)
      [] c \in {"ufw active", "ufw deny", "ufw ssh"} -> UfwRepair(c, h)
      [] c \in {"login", "forward"} -> SshdSettingsRepair(h)
      [] c = "units" -> SshdUnitsRepair(h)
      [] c = "gh token" -> GhRepair(h)
      [] c = "tools" -> ToolRepair(h)
      [] c \in {"ufw ssh egress", "egress restricted"} -> LockdownRepair(h)
      [] c = "openssh" -> OpenSSHRepair(h)
      [] c = "reboot survivability" -> Done([h EXCEPT !.gate = "installed"])
      [] c = "accounts" -> AccountRepair(h)
      [] c = "connector" -> ConnectorRepair(h)
      [] c = "pin" -> Done([h EXCEPT !.pin = "set"])
-----------------------------------------------------------------------------
(* Steps of a run *)

Fault == faults < Faults /\ faults' = faults + 1
NoFault == faults' = faults

(* checkTailscaleNode: a refused identity keeps everything from the host; a *)
(* device that does not answer in time does not.                            *)
Identify ==
    /\ at = "identify"
    /\ \/ blocked' = TRUE /\ at' = "done"
       \/ blocked' = FALSE /\ at' = "batch"
    /\ UNCHANGED <<cfg, opt, host, first, pos, base, errors, trusted, ran, verdict, retried,
                   routeAt, faults>>

Admitted == host.sudo = "nopasswd" \/ opt.password = "right"

(* One session reads every baseline; a command of it may exceed its limit.  *)
(* Without sudo, or with a broken answer, every baseline is an error.  An   *)
(* error leaves no evidence that a repair may rest on.                      *)
(* A mutant: --fix stays on when the baseline has a gap. *)
BatchTrustsGaps ==
    /\ at = "batch"
    /\ base' = host
    /\ \/ Admitted /\ NoFault /\ errors' = {}
       \/ ~Admitted /\ NoFault /\ errors' = Check
       \/ Fault /\ errors' = Check
       \/ Admitted /\ Fault /\ \E c \in Check \intersect Overlong : errors' = {c}
    /\ trusted' = (opt.fix /\ errors' # Check)
    /\ at' = "check" /\ pos' = 1 /\ verdict' = <<>> /\ ran' = {}
    /\ UNCHANGED <<opt, host, settings, retried, routeAt>>

Batch ==
    /\ at = "batch"
    /\ base' = host
    /\ \/ Admitted /\ NoFault /\ errors' = {}
       \/ ~Admitted /\ NoFault /\ errors' = Check
       \/ Fault /\ errors' = Check
       \/ Admitted /\ Fault /\ \E c \in Check \intersect Overlong : errors' = {c}
    /\ trusted' = (opt.fix /\ errors' = {})
    /\ at' = "check" /\ pos' = 1 /\ verdict' = <<>> /\ ran' = {}
    /\ UNCHANGED <<opt, host, settings, retried, routeAt>>

Report(v) ==
    /\ verdict' = Append(verdict, v)
    /\ pos' = pos + 1
    /\ at' = IF pos = Len(Checks) THEN "done" ELSE "check"

(* A baseline that a repair of this run has overtaken is read again, live.  *)
Source(c) ==
    IF Refreshed(c) \cap ran # {} \/ (c = "hash" /\ "password" \in ran) THEN host ELSE base

Reading(c) == Probe(c, Source(c))
Outcome(c) == IF c \in errors THEN "fail" ELSE GradeOf(c, Reading(c))

(* A failing platform check takes the repairs away from every later one. *)
Blocking == {"platform"}
MayRepair(i) ==
    trusted /\ \A c \in Blocking :
                 Outcome(c) = "fail" => \A k \in 1 .. i - 1 : Checks[k] # c

(* The checks that do not ask whether their script ran. *)
Repeats == {"sudo", "hash", "gh token", "tools"}

(* Whether the i-th check wants its repair, and whether it gets it: most    *)
(* scripts run once.  The packages are refreshed also when nothing is found. *)
WantsRepair(i) ==
    LET c == Checks[i] IN
    /\ MayRepair(i) /\ c \notin errors
    /\ Script(c) # "none"
    /\ Reading(c) # {} \/ c = "tools"
    /\ Covers(c, Reading(c))
GetsRepair(i) == WantsRepair(i) /\ (Script(Checks[i]) \notin ran \/ Checks[i] \in Repeats)

(* All checks up to the next one that gets a repair report; nothing that    *)
(* they read changes meanwhile, so they are one step.                       *)
Judge ==
    /\ at = "check"
    /\ \E next \in pos .. Len(Checks) + 1 :
         /\ next \in DOMAIN Checks => GetsRepair(next)
         /\ \A k \in pos .. next - 1 : ~GetsRepair(k)
         /\ pos' = next
         /\ verdict' = [k \in 1 .. next - 1 |->
                          IF k < pos THEN verdict[k]
                          ELSE IF WantsRepair(k) THEN "fail" ELSE Outcome(Checks[k])]
         /\ at' = IF next > Len(Checks) THEN "done"
                  ELSE IF Checks[next] = "openssh" THEN "guard" ELSE "repair"
    /\ UNCHANGED <<opt, host, settings, base, errors, trusted, ran, retried, routeAt, faults>>

(* tunnelSSHIngressGuard reads the routes of the tunnel live. *)
Guard ==
    /\ at = "guard"
    /\ \/ routeAt = 0 /\ NoFault /\ at' = "repair" /\ UNCHANGED <<verdict, pos>>
       \/ routeAt # 0 /\ NoFault /\ Report("fail")
       \/ Fault /\ Report("fail")
    /\ UNCHANGED <<opt, host, settings, base, errors, trusted, ran, retried, routeAt>>

(* The script is recorded before it is sent; its answer may be lost, with   *)
(* its effect or without.                                                   *)
Repair ==
    /\ at = "repair"
    /\ ran' = ran \union {Script(Current)}
    /\ \E answer \in Repaired(Current, host) :   \* <<the host after it, success>>
         \/ /\ NoFault /\ host' = answer[1]
            /\ IF answer[2] THEN at' = "recheck" /\ UNCHANGED <<verdict, pos>> ELSE Report("fail")
         \/ Fault /\ host' \in {answer[1], host} /\ Report("fail")
    /\ UNCHANGED <<opt, settings, base, errors, trusted, retried, routeAt>>

(* What the repair does not cover keeps its own grade; anything else that   *)
(* is still found fails.                                                    *)
AfterGrade(c, findings) ==
    IF findings = {} THEN "pass"
    ELSE IF c \in {"reboot survivability", "accounts"} /\ ~Covers(c, findings)
         THEN Grade(findings) ELSE "fail"

Recheck ==
    /\ at = "recheck"
    /\ \/ NoFault /\ Report(AfterGrade(Current, Probe(Current, host)))
       \/ Fault /\ Report("fail")
    /\ UNCHANGED <<opt, host, settings, base, errors, trusted, ran, retried, routeAt>>

(* A run without --fix and without a password that failed to authenticate   *)
(* asks for one and repeats the remote checks.                              *)
Retry ==
    /\ at = "done" /\ ~retried /\ ~blocked
    /\ ~opt.fix /\ opt.password = "none" /\ "sudo" \in errors
    /\ \E p \in {"right", "wrong"} : opt' = [opt EXCEPT !.password = p]
    /\ retried' = TRUE /\ at' = "batch"
    /\ UNCHANGED <<host, settings, pos, base, errors, trusted, ran, verdict, routeAt, faults>>

(* Someone adds a route to SSH to the tunnel's configuration at Cloudflare. *)
AddRoute ==
    /\ cfg.tunnel /\ routeAt = 0 /\ at # "done"
    /\ routeAt' = IF at \in {"guard", "repair", "recheck"} THEN pos + 1 ELSE pos
    /\ UNCHANGED <<opt, host, settings, at, pos, base, errors, trusted, ran, verdict, retried, faults>>

Next == Identify \/ Batch \/ Judge \/ Guard \/ Repair \/ Recheck \/ Retry \/ AddRoute

Spec == Init /\ [][Next]_vars
-----------------------------------------------------------------------------
(* Properties *)

(* Types, and: repairs are allowed only with --fix and a whole baseline     *)
(* (remote_batch.go:75), and there is one result for every check that was   *)
(* passed.                                                                  *)
TypeOK ==
    /\ cfg \in Configs /\ opt \in Options
    /\ \A f \in Facet : host[f] \in Facets[f] /\ base[f] \in Facets[f]
    /\ at \in {"identify", "batch", "check", "guard", "repair", "recheck", "done"}
    /\ pos \in 1 .. Len(Checks) + 1
    /\ errors \subseteq Check
    /\ \A script \in ran : \E c \in Check : Script(c) = script
    /\ verdict \in Seq({"pass", "warn", "fail", "skip"})
    /\ at \in {"check", "guard", "repair", "recheck"} => Len(verdict) = pos - 1
    /\ trusted => opt.fix /\ errors = {}
    /\ blocked \in BOOLEAN /\ retried \in BOOLEAN
    /\ routeAt \in 0 .. Len(Checks) + 2 /\ faults \in 0 .. Faults

Finished == at = "done" /\ ~blocked
Holds(c) == Probe(c, host) = {}
Passed == {Checks[i] : i \in {k \in DOMAIN verdict : verdict[k] = "pass"}}

(* A check that names repairs which change what it reads does not report a  *)
(* pass that the host no longer deserves when the run ends                  *)
(* (remote_checks.go:26-28: such checks re-read live).                      *)
Rereads == {"login", "forward", "units", "egress restricted", "openssh", "apt config",
            "reboot survivability", "accounts", "pin", "ingress"}
RefreshedPassHolds == Finished => \A c \in Passed \intersect Rereads : Holds(c)

(* The same of every check: nothing that a repair of this run undid is      *)
(* still reported as passed (remote_checks.go:26).  The code does not       *)
(* promise it for checks whose specification names no repair, and it fails. *)
PassIsCurrent == Finished => \A c \in Passed : Holds(c)

(* Nothing is sent to a host whose identity was refused, also not by the    *)
(* retry (doctor.go:26, retry_remote.go:16); the host changes only under    *)
(* --fix on an Ubuntu host that was read completely; a working or           *)
(* unverified gh token is never replaced (remote_gh_credentials.go:29), an  *)
(* account the provider did not declare never removed                       *)
(* (remote_drift.go:93), and OpenSSH stays on when a route to it was added  *)
(* before the check began (remote_openssh.go:35).                           *)
TrustedRepairs ==
    [][host' # host =>
         /\ ~blocked /\ opt.fix /\ errors = {} /\ first.platform = "good"
         /\ host'.gh # host.gh => host.gh \in {"rejected", "absent"} /\ opt.pat = "live"
         /\ "extra" \in host.accounts => "extra" \in host'.accounts
         /\ "narrow" \in host.accounts => "narrow" \in host'.accounts
         /\ host'.openssh # host.openssh => routeAt = 0 \/ routeAt > pos]_vars

(* A host with nothing but drifts that doctor can repair.  The one pass of  *)
(* doctor --fix over the checks settles it: no repair comes before what it  *)
(* needs (remote_specifications.go:92: gh credentials before the tools), no *)
(* check fails on evidence that a repair has overtaken.                     *)
Repairable(h) ==
    /\ h.platform = "good" /\ \A f \in ReadOnly : h[f] = "good"
    /\ h.login # "overridden" /\ h.openssh # "used" /\ "extra" \notin h.accounts
    /\ h.userData # "currentHash" /\ "funnel" \notin h.serve /\ h.connector # "live"
    /\ h.gh \in {"rejected"} => opt.pat = "live"
    /\ h.gh = "absent" => opt.pat # "dead"

OneRunSettles ==
    (Finished /\ opt.fix /\ errors = {} /\ faults = 0 /\ routeAt = 0 /\ Repairable(first))
        => \A i \in DOMAIN verdict : verdict[i] # "fail"
=============================================================================
