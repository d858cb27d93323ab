------------------------------ MODULE RebootGate ------------------------------
(***************************************************************************)
(* The gated reboot of one host: the nightly window, which reboots only    *)
(* when every running workload is declared to come back, and the check     *)
(* after boot, which compares the host with the snapshot that the window   *)
(* wrote.  Around them: updates, an operator who starts, stops and         *)
(* declares workloads, reboots that the gate did not start, commands that  *)
(* fail and scripts that are cut off.                                      *)
(*                                                                         *)
(* A workload is a system service, a container or a process in a session.  *)
(* Abstracted: its listeners and its health are one with it; which lines   *)
(* of systemctl, docker and ss say what; the journal.  Time counts hours,  *)
(* the age limit of a snapshot: the window takes no hour and the boot      *)
(* check ends within one.  Nobody starts the units of the gate by hand.    *)
(***************************************************************************)
EXTENDS Naturals, FiniteSets

CONSTANTS Units, Containers, Sessions,
          Wanter,   \* the service that pulls in a unit declared "wanted"
          Declared, \* how the workloads may be declared at first
          MaxAge,   \* hours after which a snapshot is stale
          Faults,   \* commands that fail and scripts that are cut off
          Edits     \* acts of the operator

Declarable == Units \union Containers
Workloads == Declarable \union Sessions
UnitStates == {"boot", "demand", "wanted", "none"}
Policies == {"always", "unless-stopped", "on-failure", "no"}

ASSUME WorkloadAssumption ==
    /\ Units \cap Containers = {} /\ Units \cap Sessions = {} /\ Containers \cap Sessions = {}
    /\ Wanter \in [Units -> Units] /\ \A u \in Units : Wanter[Wanter[u]] = Wanter[u]
ASSUME DeclaredAssumption == Declared \subseteq [Declarable -> UnitStates \union Policies]
ASSUME BoundsAssumption == MaxAge \in Nat /\ Faults \in Nat /\ Edits \in Nat

VARIABLES up,         \* the workloads that run
          coming,     \* those that boot or a demand still starts
          held,       \* containers that were stopped by hand
          decl,       \* what starts a unit at boot; the restart policy of a container
          docker,     \* dockerd: whether it runs, whether it is enabled
          timerOn, verifyOn,
          window,     \* idle, judged or written
          seen,       \* what the window found running
          plan,       \* what its snapshot is to name
          since,      \* hours since the window ran
          snap, result,
          rebooting,  \* the gate's own reboot is on its way
          verify,     \* idle, begin, wait, start, settle, write or retire
          missing, tried, lapsed,
          failed,     \* the check's unit is in the failed state
          idle,       \* history: hours since each workload last ran
          ran,        \* history: what ran in this boot
          owed,       \* history: what this boot found in a snapshot, if it found
                      \* one and no window replaced it since
          touched,    \* history: what the operator changed since the window looked
          faults, edits

host == <<up, coming, held, decl, docker>>
gate == <<timerOn, verifyOn>>
nightly == <<window, seen, plan, since>>
check == <<verify, missing, tried, lapsed, failed>>
history == <<idle, ran, owed, touched>>
counters == <<faults, edits>>
vars == <<host, gate, nightly, snap, result, rebooting, check, history, counters>>

NoSnap == [boot |-> "none"]
NoResult == [boot |-> "none", status |-> "none"]

Init ==
    /\ up = Declarable /\ coming = {} /\ held = {}
    /\ decl \in Declared
    /\ \A u \in Units : decl[u] \in UnitStates /\ (Wanter[u] = u => decl[u] # "wanted")
    /\ \A c \in Containers : decl[c] \in Policies
    /\ docker = [active |-> TRUE, enabled |-> TRUE]
    /\ timerOn = FALSE /\ verifyOn = FALSE
    /\ window = "idle" /\ seen = {} /\ plan = {} /\ since = MaxAge + 1
    /\ snap = NoSnap /\ result = NoResult /\ rebooting = FALSE
    /\ verify = "idle" /\ missing = {} /\ tried = {} /\ lapsed = FALSE
    /\ failed = FALSE
    /\ idle = [w \in Declarable |-> 0] /\ ran = up /\ owed = {} /\ touched = {}
    /\ faults = 0 /\ edits = 0

Fault == faults < Faults /\ faults' = faults + 1 /\ UNCHANGED edits
NoFault == UNCHANGED counters
Edit == edits < Edits /\ edits' = edits + 1 /\ UNCHANGED faults
Least(a, b) == IF a < b THEN a ELSE b

(* InstallScript: the script and its units are on the host, then the check, *)
(* then the timer are enabled; it may be cut off between the two.           *)
Install ==
    /\ ~(timerOn /\ verifyOn)
    /\ verifyOn' = TRUE
    /\ \/ timerOn' = TRUE /\ NoFault
       \/ timerOn' = timerOn /\ Fault
    /\ UNCHANGED <<host, nightly, snap, result, rebooting, check, history>>
-----------------------------------------------------------------------------
(* What comes back after a reboot, and what the gate makes of it *)

(* systemd and docker: what they start again.  A container that docker      *)
(* restarts only on failure may come back or not.                           *)
Starts(u) == decl[u] \in {"boot", "demand"}
UnitReturns(u) == Starts(u) \/ (decl[u] = "wanted" /\ Starts(Wanter[u]))
ContainerReturns(c) ==
    /\ docker.enabled
    /\ decl[c] = "always" \/ (decl[c] = "unless-stopped" /\ c \notin held)
ContainerMay(c) == docker.enabled /\ decl[c] = "on-failure" /\ c \in up
Returns == {u \in Units : UnitReturns(u)} \union {c \in Containers : ContainerReturns(c)}

(* service_comes_back: its own unit file, its demand, or a running service  *)
(* that wants it.                                                           *)
ServiceGaps ==
    {u \in Units \cap up : /\ decl[u] \notin {"boot", "demand"}
                           /\ ~(decl[u] = "wanted" /\ Wanter[u] \in up)}

(* check_containers: dockerd must answer, be enabled, and restart each of   *)
(* them without condition.                                                  *)
(* A mutant: on-failure passes for a policy that restarts. *)
ContainerGapsLenient ==
    {c \in Containers \cap up : ~docker.active \/ ~docker.enabled \/ decl[c] = "no"}

ContainerGaps ==
    {c \in Containers \cap up :
        ~docker.active \/ ~docker.enabled \/ decl[c] \notin {"always", "unless-stopped"}}

(* check_listeners and check_user_managers. *)
SessionGaps == Sessions \cap up

Gaps == ServiceGaps \union ContainerGaps \union SessionGaps

(* snapshot_units: only what boot itself starts is expected after it. *)
SnapshotUnits == {u \in Units \cap up : decl[u] = "boot"}
-----------------------------------------------------------------------------
(* The window *)

Running == verify # "idle"

(* What the window read matters until it wrote it, or to the reboot.        *)
Forget ==
    /\ plan' = IF window' = "judged" THEN plan ELSE {}
    /\ IF window' = "idle" /\ ~rebooting' THEN seen' = {} /\ touched' = {}
       ELSE UNCHANGED <<seen, touched>>

(* The timer fires once a day, not within a check.  The service runs when   *)
(* updates wait for a reboot, which they may at any time; a gap, or a host  *)
(* that it cannot read, ends it.                                            *)
TimerFires ==
    /\ timerOn /\ ~rebooting /\ ~Running
    /\ window = "idle" /\ since > MaxAge
    /\ since' = 0
    /\ \/ /\ Gaps = {} /\ NoFault
          /\ window' = "judged"
          /\ seen' = up /\ plan' = SnapshotUnits \union (Containers \cap up)
       \/ Gaps # {} /\ NoFault /\ UNCHANGED <<window, seen, plan>>
       \/ Fault /\ UNCHANGED <<window, seen, plan>>
    /\ UNCHANGED <<host, gate, snap, result, rebooting, check, history>>

WriteSnapshot ==
    /\ window = "judged"
    /\ \/ /\ snap' = [boot |-> "this", age |-> 0, names |-> plan] /\ owed' = {}
          /\ window' = "written" /\ NoFault
       \/ UNCHANGED <<snap, owed>> /\ window' = "idle" /\ Fault
    /\ rebooting' = rebooting /\ Forget
    /\ UNCHANGED <<host, gate, since, result, check, idle, ran>>

(* A reboot that reports failure takes the snapshot with it, also when the  *)
(* failure was only a late answer.                                          *)
IssueReboot ==
    /\ window = "written"
    /\ window' = "idle"
    /\ \/ rebooting' = TRUE /\ snap' = snap /\ NoFault
       \/ rebooting' \in BOOLEAN /\ snap' = NoSnap /\ Fault
    /\ Forget
    /\ UNCHANGED <<host, gate, since, result, check, idle, ran, owed>>

(* TimeoutStartSec, or a kill. *)
WindowCut ==
    /\ window # "idle" /\ window' = "idle" /\ Fault
    /\ rebooting' = rebooting /\ Forget
    /\ UNCHANGED <<host, gate, since, snap, result, check, idle, ran, owed>>
-----------------------------------------------------------------------------
(* The check after boot *)

Trapped == verify \in {"wait", "start", "settle"}

Ends(unitFailed) ==
    /\ verify' = "idle" /\ failed' = unitFailed
    /\ missing' = {} /\ tried' = {} /\ lapsed' = FALSE

(* stale_snapshot: the running boot's own, or too old. *)
(* A mutant: a snapshot of an earlier boot is never too old. *)
StaleByBootOnly == snap.boot = "this"

Stale == snap.boot = "this" \/ snap.age > MaxAge

VerifyBegin ==
    /\ verify = "begin"
    /\ \/ /\ ~Stale /\ verify' = "wait" /\ NoFault
          /\ UNCHANGED <<snap, result, missing, tried, lapsed, failed>>
       \/ /\ Stale /\ NoFault
          /\ result' = [boot |-> "this", status |-> "stale"]
          /\ snap' = NoSnap
          /\ Ends(TRUE)
       \/ Fault /\ Ends(TRUE) /\ UNCHANGED <<snap, result>>
    /\ UNCHANGED <<host, gate, nightly, rebooting, history>>

(* wait_for_workloads: until all are there or the time is up. *)
FindMissing ==
    /\ verify = "wait"
    /\ missing' = snap.names \ up
    /\ verify' = IF missing' = {} THEN "write" ELSE "start"
    /\ tried' = {}
    /\ UNCHANGED <<host, gate, nightly, snap, result, rebooting, lapsed, failed,
                   history, counters>>

(* start_missing_once: units first; docker starts nothing while it is down. *)
StartMissing(w) ==
    /\ verify = "start" /\ w \in missing \ tried
    /\ w \in Containers => missing \cap Units \subseteq tried
    /\ tried' = tried \union {w}
    /\ \/ up' = (IF w \in Containers /\ ~docker.active THEN up ELSE up \union {w}) /\ NoFault
       \/ up' = up /\ Fault
    /\ ran' = ran \union up' /\ held' = held \ up' /\ coming' = coming \ up'
    /\ idle' = [v \in Declarable |-> IF v \in up' THEN 0 ELSE idle[v]]
    /\ UNCHANGED <<decl, docker, gate, nightly, snap, result, rebooting, verify,
                   missing, lapsed, failed, owed, touched>>

(* Every start was tried, or the budget ended; after a start there is a     *)
(* second look.                                                             *)
StartsEnd ==
    /\ verify = "start"
    /\ \/ missing \subseteq tried /\ NoFault
       \/ Fault
    /\ verify' = IF tried = {} THEN "write" ELSE "settle"
    /\ UNCHANGED <<host, gate, nightly, snap, result, rebooting, missing, tried,
                   lapsed, failed, history>>

Settle ==
    /\ verify = "settle"
    /\ missing' = snap.names \ up
    /\ verify' = "write"
    /\ UNCHANGED <<host, gate, nightly, snap, result, rebooting, tried, lapsed,
                   failed, history, counters>>

(* write_result, then retire_snapshot; other findings, such as a failed     *)
(* unit, degrade the result as well.                                        *)
WriteResult ==
    /\ verify = "write"
    /\ \/ /\ NoFault
          /\ \E s \in IF missing = {} THEN {"ok", "degraded"} ELSE {"degraded"} :
               result' = [boot |-> "this", status |-> s]
          /\ verify' = "retire" /\ missing' = {} /\ tried' = {} /\ UNCHANGED <<lapsed, failed>>
       \/ Fault /\ Ends(TRUE) /\ result' = result
    /\ UNCHANGED <<host, gate, nightly, snap, rebooting, history>>

RetireSnapshot ==
    /\ verify = "retire"
    /\ \/ snap' = NoSnap /\ Ends(result.status # "ok") /\ NoFault
       \/ snap' = snap /\ Ends(TRUE) /\ Fault
    /\ UNCHANGED <<host, gate, nightly, result, rebooting, history>>

(* The check gets SIGTERM from its runtime limit or an operator: while the  *)
(* trap is set it records that, as far as it can write.                     *)
(* A mutant: the trap only retires the snapshot. *)
VerifyStoppedQuietly ==
    /\ Running /\ Fault
    /\ \/ Trapped /\ snap' = NoSnap /\ Ends(FALSE) /\ UNCHANGED result
       \/ ~Trapped /\ snap' = snap /\ result' = result /\ \E f \in BOOLEAN : Ends(f)
    /\ UNCHANGED <<host, gate, nightly, rebooting, history>>

VerifyStopped ==
    /\ Running /\ Fault
    /\ \/ /\ Trapped /\ snap' = NoSnap /\ Ends(TRUE)
          /\ result' \in {result, [boot |-> "this", status |-> "degraded"]}
       \/ ~Trapped /\ snap' = snap /\ result' = result /\ \E f \in BOOLEAN : Ends(f)
    /\ UNCHANGED <<host, gate, nightly, rebooting, history>>

VerifyKilled ==
    /\ Running /\ Fault /\ Ends(TRUE)
    /\ UNCHANGED <<host, gate, nightly, snap, result, rebooting, history>>
-----------------------------------------------------------------------------
(* The host around the gate *)

(* verifyUnit: enabled, and only with a snapshot (ConditionPathExists). *)
(* A mutant: the condition is missing. *)
CheckStartsAlways == verifyOn

CheckStarts == verifyOn /\ snap' # NoSnap

(* An orderly shutdown stops a running check with SIGTERM, a crash does     *)
(* not.  A result of an earlier boot says nothing of this one.              *)
Boot(orderly, returning) ==
    /\ snap' = IF (orderly /\ Trapped) \/ snap = NoSnap THEN NoSnap
               ELSE [snap EXCEPT !.boot = "earlier"]
    /\ result' = NoResult
    /\ verify' = IF CheckStarts THEN "begin" ELSE "idle"
    /\ owed' = IF snap' # NoSnap THEN {snap'.names} ELSE {}
    /\ failed' = FALSE /\ missing' = {} /\ tried' = {} /\ lapsed' = FALSE
    /\ window' = "idle" /\ seen' = {} /\ plan' = {} /\ touched' = {}
    /\ rebooting' = FALSE
    /\ docker' = [docker EXCEPT !.active = docker.enabled]
    /\ up' = {} /\ ran' = {} /\ coming' = returning
    /\ UNCHANGED <<held, decl, gate, since, idle>>

Returning == {r \in SUBSET Workloads : /\ Returns \subseteq r
                                       /\ r \subseteq Returns \union {c \in Containers : ContainerMay(c)}}

GatedBoot == rebooting /\ NoFault /\ \E r \in Returning : Boot(TRUE, r)
OperatorBoot == ~rebooting /\ Edit /\ \E r \in Returning : Boot(TRUE, r)
CrashBoot == Fault /\ \E r \in Returning : Boot(FALSE, r)

Arrive(w) ==
    /\ w \in coming
    /\ coming' = coming \ {w} /\ up' = up \union {w} /\ ran' = ran \union {w}
    /\ held' = held \ {w} /\ idle' = [v \in Declarable |-> IF v = w THEN 0 ELSE idle[v]]
    /\ UNCHANGED <<decl, docker, gate, nightly, snap, result, rebooting, check, owed,
                   touched, counters>>

(* An hour passes; systemd does not let the check see a second one. *)
Tick ==
    /\ window = "idle" /\ ~rebooting /\ (Running => ~lapsed)
    /\ since <= MaxAge
    /\ lapsed' = Running
    /\ since' = Least(since + 1, MaxAge + 1)
    /\ snap' = IF snap = NoSnap THEN snap ELSE [snap EXCEPT !.age = Least(@ + 1, MaxAge + 1)]
    /\ idle' = [w \in Declarable |-> IF w \in up THEN 0 ELSE Least(idle[w] + 1, MaxAge + 2)]
    /\ UNCHANGED <<host, gate, window, seen, plan, result, rebooting, verify, missing, tried,
                   failed, ran, owed, touched, counters>>

Touch(ws) ==
    touched' = IF seen = {} THEN {} ELSE touched \union ws \union {u \in Units : Wanter[u] \in ws}

OperatorStops(w) ==
    /\ Edit /\ w \in up \union coming
    /\ up' = up \ {w} /\ coming' = coming \ {w}
    /\ held' = held \union ({w} \cap Containers)
    /\ Touch({w})
    /\ UNCHANGED <<decl, docker, gate, nightly, snap, result, rebooting, check, idle,
                   ran, owed>>

OperatorStarts(w) ==
    /\ Edit /\ w \notin up /\ (w \in Containers => docker.active)
    /\ up' = up \union {w} /\ coming' = coming \ {w} /\ ran' = ran \union {w}
    /\ held' = held \ {w} /\ idle' = [v \in Declarable |-> IF v = w THEN 0 ELSE idle[v]]
    /\ Touch({w})
    /\ UNCHANGED <<decl, docker, gate, nightly, snap, result, rebooting, check, owed>>

OperatorDeclares(w) ==
    /\ Edit
    /\ \E d \in (IF w \in Units THEN UnitStates ELSE Policies) \ {decl[w]} :
         /\ w \in Units /\ d = "wanted" => Wanter[w] # w
         /\ decl' = [decl EXCEPT ![w] = d]
    /\ Touch({w})
    /\ UNCHANGED <<up, coming, held, docker, gate, nightly, snap, result, rebooting,
                   check, idle, ran, owed>>

(* live-restore: containers survive a stop of dockerd. *)
OperatorSetsDocker ==
    /\ Edit
    /\ \E d \in [active : BOOLEAN, enabled : BOOLEAN] \ {docker} : docker' = d
    /\ Touch(Containers)
    /\ UNCHANGED <<up, coming, held, decl, gate, nightly, snap, result, rebooting,
                   check, idle, ran, owed>>

OperatorDisables ==
    /\ Edit
    /\ \/ timerOn /\ timerOn' = FALSE /\ UNCHANGED verifyOn
       \/ verifyOn /\ verifyOn' = FALSE /\ UNCHANGED timerOn
    /\ UNCHANGED <<host, nightly, snap, result, rebooting, check, history>>

Window == TimerFires \/ WriteSnapshot \/ IssueReboot \/ WindowCut
Verify ==
    \/ VerifyBegin \/ FindMissing \/ StartsEnd \/ Settle \/ WriteResult \/ RetireSnapshot
    \/ VerifyStopped \/ VerifyKilled
    \/ \E w \in Declarable : StartMissing(w)
Operator ==
    \/ OperatorSetsDocker \/ OperatorDisables \/ OperatorBoot
    \/ \E w \in Workloads : OperatorStops(w) \/ OperatorStarts(w)
    \/ \E w \in Declarable : OperatorDeclares(w)

Next ==
    \/ Install \/ Window \/ Verify \/ Operator
    \/ GatedBoot \/ CrashBoot \/ Tick
    \/ \E w \in Workloads : Arrive(w)

Spec == Init /\ [][Next]_vars
-----------------------------------------------------------------------------
(* What doctor reads *)

(* rebootResultCommand: whether it has nothing to warn about, and no check  *)
(* or window is at work on a snapshot.                                      *)
Quiet ==
    /\ result.boot = "this" => result.status = "ok"
    /\ snap = NoSnap
    /\ failed => result.boot = "this"
-----------------------------------------------------------------------------
(* Properties *)

(* Types, and: the check runs only on a snapshot (ConditionPathExists),     *)
(* starts only what it missed, and never overlaps a window.                 *)
TypeOK ==
    /\ up \subseteq Workloads /\ coming \subseteq Workloads /\ up \cap coming = {}
    /\ held \subseteq Containers \ up
    /\ \A u \in Units : decl[u] \in UnitStates
    /\ \A c \in Containers : decl[c] \in Policies
    /\ docker \in [active : BOOLEAN, enabled : BOOLEAN]
    /\ {timerOn, verifyOn, rebooting, lapsed, failed} \subseteq BOOLEAN
    /\ window \in {"idle", "judged", "written"}
    /\ seen \subseteq Workloads /\ plan \subseteq seen \cap Declarable
    /\ since \in 0 .. MaxAge + 1
    /\ snap = NoSnap \/ snap \in [boot : {"this", "earlier"}, age : 0 .. MaxAge + 1,
                                  names : SUBSET Declarable]
    /\ result = NoResult
       \/ result \in [boot : {"this"}, status : {"ok", "degraded", "stale"}]
    /\ verify \in {"idle", "begin", "wait", "start", "settle", "write", "retire"}
    /\ Running => snap # NoSnap /\ window = "idle"
    /\ tried \subseteq Declarable /\ (verify = "start" => tried \subseteq missing)
    /\ idle \in [Declarable -> 0 .. MaxAge + 2]
    /\ ran \subseteq Workloads /\ up \subseteq ran /\ touched \subseteq Workloads
    /\ faults \in 0 .. Faults /\ edits \in 0 .. Edits

(* The gate's reboot drops nothing that it found running and that nobody    *)
(* changed since: all of it comes back by itself (serverpro-reboot.sh:2,    *)
(* USAGE.md:256).                                                           *)
GatedRebootDropsNothing == [][rebooting /\ ~rebooting' => seen \ touched \subseteq coming']_vars

(* The check never starts a workload that has been down for longer than a   *)
(* snapshot may be old and a check may take, so nothing that an operator    *)
(* stopped since (rebootgate.go:77, serverpro-reboot.sh:581), however the   *)
(* snapshot came to be left behind.                                         *)
LongStoppedStaysDown ==
    [][\A w \in Declarable : w \in tried' \ tried => idle[w] <= MaxAge + 1]_vars

(* After a boot that found a snapshot, doctor is quiet only once this boot  *)
(* was compared with it and each workload of it has run                     *)
(* (remote_reboot.go:113): not when the check was stopped, cut off, failed, *)
(* refused, or never ran.                                                   *)
QuietMeansChecked ==
    Quiet => \A names \in owed : result = [boot |-> "this", status |-> "ok"] /\ names \subseteq ran
=============================================================================
