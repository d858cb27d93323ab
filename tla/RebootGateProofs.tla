--------------------------- MODULE RebootGateProofs ---------------------------
(***************************************************************************)
(* What holds of RebootGate for any workloads, declarations and age limit, *)
(* any number of failures and any acts of the operator.                    *)
(*                                                                         *)
(* Three arguments, each with its part of the invariant: what the window   *)
(* saw comes back unless the operator touched it; what a snapshot names    *)
(* has not been down for longer than the snapshot is old; and what a boot  *)
(* found in a snapshot is compared, or the failure to do so shows.         *)
(***************************************************************************)
EXTENDS RebootGate, TLAPS

CheckSteps == {"begin", "wait", "start", "settle", "write", "retire"}

HostTyped ==
    /\ up \subseteq Workloads /\ coming \subseteq Workloads /\ up \cap coming = {}
    /\ held \subseteq Containers \ up
    /\ decl \in [Declarable -> UnitStates \union Policies]
    /\ \A u \in Units : decl[u] \in UnitStates
    /\ \A c \in Containers : decl[c] \in Policies
    /\ docker \in [active : BOOLEAN, enabled : BOOLEAN]

GateTyped ==
    /\ timerOn \in BOOLEAN /\ verifyOn \in BOOLEAN /\ rebooting \in BOOLEAN
    /\ window \in {"idle", "judged", "written"} /\ (rebooting => window = "idle")
    /\ seen \subseteq Workloads /\ plan \subseteq seen \cap Declarable
    /\ since \in 0 .. MaxAge + 1
    /\ snap = NoSnap \/ snap \in [boot : {"this", "earlier"}, age : 0 .. MaxAge + 1,
                                  names : SUBSET Declarable]
    /\ result = NoResult
       \/ result \in [boot : {"this"}, status : {"ok", "degraded", "stale"}]

CheckTyped ==
    /\ lapsed \in BOOLEAN /\ failed \in BOOLEAN
    /\ verify \in {"idle"} \union CheckSteps
    /\ verify # "idle" => snap # NoSnap /\ window = "idle"
    /\ tried \subseteq Declarable
    /\ verify = "start" => missing # {} /\ tried \subseteq missing /\ missing \subseteq snap.names
    /\ idle \in [Declarable -> 0 .. MaxAge + 2]
    /\ ran \subseteq Workloads /\ up \subseteq ran /\ touched \subseteq Workloads
    /\ faults \in 0 .. Faults /\ edits \in 0 .. Edits

(* What the window found running still comes back, except for what the      *)
(* operator touched; a service that wants others is itself not wanted.      *)
SeenReturns ==
    /\ \A u \in Units : Wanter[u] = u => decl[u] # "wanted"
    /\ seen \ touched \subseteq Returns

(* A snapshot names what ran when it was written, and time passes for both. *)
AgesAgree ==
    /\ \A w \in up \cap Declarable : idle[w] = 0
    /\ \A w \in plan : idle[w] = 0
    /\ window # "judged" => plan = {}
    /\ snap # NoSnap /\ snap.age <= MaxAge => \A w \in snap.names : idle[w] <= snap.age
    /\ verify \in {"wait", "start", "settle", "write", "retire"} =>
         \A w \in snap.names : idle[w] <= MaxAge + 1 /\ (~lapsed => idle[w] <= MaxAge)

(* The snapshot that this boot found is still there, or it was compared, or *)
(* doctor warns.                                                            *)
Answered(names) ==
    \/ snap # NoSnap /\ names = snap.names
    \/ /\ snap = NoSnap
       /\ \/ result.boot = "this" /\ result.status # "ok"
          \/ failed /\ result.boot # "this"
          \/ result = [boot |-> "this", status |-> "ok"] /\ names \subseteq ran
OwedAnswered ==
    /\ \A names \in owed : Answered(names)
    /\ window = "written" => owed = {}
    /\ verify \in {"begin", "wait", "start", "settle", "write"} => result = NoResult
    /\ verify = "write" /\ missing = {} => snap.names \subseteq ran
    /\ verify = "retire" => result.boot = "this" /\ (result.status = "ok" => snap.names \subseteq ran)

GateInv ==
    /\ HostTyped /\ GateTyped /\ CheckTyped /\ SeenReturns /\ AgesAgree /\ OwedAnswered
-----------------------------------------------------------------------------
(* What a step leaves alone *)

LEMMA CountersTyped ==
  ASSUME faults \in 0 .. Faults, edits \in 0 .. Edits, NoFault \/ Fault \/ Edit
  PROVE  faults' \in 0 .. Faults /\ edits' \in 0 .. Edits
  BY BoundsAssumption DEF NoFault, Fault, Edit, counters

LEMMA HostStays == ASSUME HostTyped, UNCHANGED host PROVE HostTyped'
  BY DEF HostTyped, host

(* What comes back only grows when nobody declares, holds or disables.      *)
LEMMA SeenStays ==
  ASSUME SeenReturns, UNCHANGED <<decl, docker>>, held' \subseteq held,
         seen' \ touched' \subseteq seen \ touched
  PROVE  SeenReturns'
<1>1. \A u : Starts(u)' <=> Starts(u)
  BY DEF Starts
<1>2. \A u : UnitReturns(u)' <=> UnitReturns(u)
  BY <1>1 DEF UnitReturns, Starts
<1>3. \A c : ContainerReturns(c) => ContainerReturns(c)'
  BY DEF ContainerReturns
<1>4. Returns \subseteq Returns'
  BY <1>2, <1>3 DEF Returns
<1> QED BY <1>4 DEF SeenReturns

LEMMA AgesStay ==
  ASSUME AgesAgree, UNCHANGED <<idle, lapsed>>, up' \subseteq up, plan' \subseteq plan,
         window' # "judged" => plan' = {},
         snap' = snap \/ snap' = NoSnap,
         verify' \in {"wait", "start", "settle", "write", "retire"} =>
            snap' = snap /\ verify \in {"wait", "start", "settle", "write", "retire"}
  PROVE  AgesAgree'
  BY DEF AgesAgree

LEMMA OwedStays ==
  ASSUME OwedAnswered, UNCHANGED <<snap, result, verify, missing, failed, owed>>,
         ran \subseteq ran', window' = "written" => window = "written"
  PROVE  OwedAnswered'
<1>1. \A names : Answered(names) => Answered(names)'
  BY DEF Answered
<1> QED BY <1>1 DEF OwedAnswered
-----------------------------------------------------------------------------
(* The window *)

LEMMA InstallKeeps == ASSUME GateInv, Install PROVE GateInv'
<1>1. /\ UNCHANGED <<host, nightly, snap, result, rebooting, check, history>>
      /\ timerOn' \in {timerOn, TRUE} /\ verifyOn' = TRUE /\ (NoFault \/ Fault)
  BY DEF Install
<1>2. GateTyped'
  BY <1>1 DEF GateInv, GateTyped, nightly
<1>3. CheckTyped'
  BY <1>1, CountersTyped DEF GateInv, CheckTyped, host, nightly, check, history
<1> QED BY <1>1, <1>2, <1>3, HostStays, SeenStays, AgesStay, OwedStays
        DEF GateInv, AgesAgree, host, nightly, check, history

(* A window that finds no gap finds only what comes back.                   *)
LEMMA NoGapReturns ==
  ASSUME GateInv, Gaps = {}
  PROVE  up \subseteq Returns
<1> SUFFICES ASSUME NEW w \in up PROVE w \in Returns
  OBVIOUS
<1>1. CASE w \in Units
  <2>1. decl[w] \in {"boot", "demand"} \/ (decl[w] = "wanted" /\ Wanter[w] \in up)
    BY <1>1 DEF Gaps, ServiceGaps
  <2>2. CASE decl[w] = "wanted" /\ Wanter[w] \in up
    <3>1. Wanter[w] \in Units /\ Wanter[Wanter[w]] = Wanter[w]
      BY <1>1, WorkloadAssumption
    <3>2. decl[Wanter[w]] # "wanted"
      BY <3>1 DEF GateInv, SeenReturns
    <3>3. decl[Wanter[w]] \in {"boot", "demand"}
      BY <2>2, <3>1, <3>2 DEF Gaps, ServiceGaps
    <3> QED BY <1>1, <2>2, <3>3 DEF Returns, UnitReturns, Starts
  <2> QED BY <1>1, <2>1, <2>2 DEF Returns, UnitReturns, Starts
<1>2. CASE w \in Containers
  <2>1. docker.enabled /\ decl[w] \in {"always", "unless-stopped"}
    BY <1>2 DEF Gaps, ContainerGaps
  <2>2. w \notin held
    BY DEF GateInv, HostTyped
  <2> QED BY <1>2, <2>1, <2>2 DEF Returns, ContainerReturns
<1>3. w \notin Sessions
  BY DEF Gaps, SessionGaps
<1> QED BY <1>1, <1>2, <1>3 DEF GateInv, HostTyped, Workloads, Declarable

LEMMA TimerFiresKeeps == ASSUME GateInv, TimerFires PROVE GateInv'
<1>1. /\ UNCHANGED <<host, gate, snap, result, rebooting, check, history>>
      /\ since' = 0 /\ window = "idle" /\ verify = "idle" /\ ~rebooting
  BY DEF TimerFires, Running
<1>2. CASE UNCHANGED <<window, seen, plan>> /\ (NoFault \/ Fault)
  <2>1. GateTyped'
    BY <1>1, <1>2, BoundsAssumption DEF GateInv, GateTyped, gate
  <2>2. CheckTyped'
    BY <1>1, <1>2, CountersTyped DEF GateInv, CheckTyped, host, check, history
  <2> QED BY <1>1, <1>2, <2>1, <2>2, HostStays, SeenStays, AgesStay, OwedStays
          DEF GateInv, host, check, history, AgesAgree
<1>3. CASE /\ Gaps = {} /\ NoFault /\ window' = "judged"
           /\ seen' = up /\ plan' = SnapshotUnits \union (Containers \cap up)
  <2>1. plan' \subseteq up /\ plan' \subseteq Declarable /\ up \subseteq Workloads
    BY <1>3 DEF SnapshotUnits, Declarable, GateInv, HostTyped
  <2>2. GateTyped'
    BY <1>1, <1>3, <2>1, BoundsAssumption DEF GateInv, GateTyped, gate
  <2>3. CheckTyped'
    BY <1>1, <1>3, CountersTyped DEF GateInv, CheckTyped, host, check, history
  <2>4. SeenReturns'
    <3>1. up \subseteq Returns
      BY <1>3, NoGapReturns
    <3>2. Returns' = Returns
      BY <1>1 DEF Returns, UnitReturns, Starts, ContainerReturns, host
    <3> QED BY <1>1, <1>3, <3>1, <3>2 DEF GateInv, SeenReturns, host
  <2>5. AgesAgree'
    BY <1>1, <1>3, <2>1 DEF GateInv, AgesAgree, host, check, history
  <2> QED BY <1>1, <1>3, <2>2, <2>3, <2>4, <2>5, HostStays, OwedStays DEF GateInv, check, history
<1> QED BY <1>2, <1>3 DEF TimerFires

LEMMA ForgetIs ==
  ASSUME GateInv, window' # "judged", Forget
  PROVE  /\ plan' = {} /\ seen' \subseteq seen /\ touched' \subseteq touched
         /\ seen' \ touched' \subseteq seen \ touched
  BY DEF Forget

(* The window's other steps, up to what they do to the snapshot.            *)
LEMMA WindowStep ==
  ASSUME GateInv, window # "idle", window' \in {"idle", "written"}, Forget, NoFault \/ Fault,
         UNCHANGED <<host, gate, since, result, check, idle, ran>>, rebooting' \in BOOLEAN,
         rebooting' => window' = "idle",
         snap' = NoSnap \/ snap' \in [boot : {"this", "earlier"}, age : 0 .. MaxAge + 1,
                                      names : SUBSET Declarable],
         AgesAgree', OwedAnswered'
  PROVE  GateInv'
<1>1. /\ plan' = {} /\ seen' \subseteq seen /\ touched' \subseteq touched
      /\ seen' \ touched' \subseteq seen \ touched
  BY ForgetIs
<1>2. verify = "idle"
  BY DEF GateInv, CheckTyped
<1>3. GateTyped'
  BY <1>1 DEF GateInv, GateTyped, gate
<1>4. CheckTyped'
  BY <1>1, <1>2, CountersTyped DEF GateInv, CheckTyped, host, check
<1>5. SeenReturns'
  BY <1>1, SeenStays DEF GateInv, host
<1> QED BY <1>3, <1>4, <1>5, HostStays DEF GateInv

LEMMA WriteSnapshotKeeps == ASSUME GateInv, WriteSnapshot PROVE GateInv'
<1>1. /\ window = "judged" /\ verify = "idle" /\ rebooting' \in BOOLEAN /\ ~rebooting' /\ Forget
      /\ UNCHANGED <<host, gate, since, result, check, idle, ran>>
  BY DEF WriteSnapshot, GateInv, GateTyped, CheckTyped
<1>2. CASE UNCHANGED <<snap, owed>> /\ window' = "idle" /\ Fault
  <2>1. plan' = {}
    BY <1>1, <1>2, ForgetIs
  <2>2. AgesAgree'
    BY <1>1, <1>2, <2>1, AgesStay DEF GateInv, host, check
  <2>3. OwedAnswered'
    BY <1>1, <1>2, OwedStays DEF GateInv, check
  <2> QED BY <1>1, <1>2, <2>2, <2>3, WindowStep DEF GateInv, GateTyped
<1>3. CASE /\ snap' = [boot |-> "this", age |-> 0, names |-> plan] /\ owed' = {}
           /\ window' = "written" /\ NoFault
  <2>1. snap' \in [boot : {"this", "earlier"}, age : 0 .. MaxAge + 1, names : SUBSET Declarable]
    BY <1>3, BoundsAssumption DEF GateInv, GateTyped
  <2>2. plan' = {}
    BY <1>1, <1>3, ForgetIs
  <2>3. AgesAgree'
    BY <1>1, <1>3, <2>2 DEF GateInv, AgesAgree, host, check
  <2>4. OwedAnswered'
    BY <1>1, <1>3 DEF GateInv, OwedAnswered, check
  <2> QED BY <1>1, <1>3, <2>1, <2>3, <2>4, WindowStep
<1> QED BY <1>2, <1>3 DEF WriteSnapshot

LEMMA IssueRebootKeeps == ASSUME GateInv, IssueReboot PROVE GateInv'
<1>1. /\ window = "written" /\ window' = "idle" /\ verify = "idle" /\ Forget
      /\ UNCHANGED <<host, gate, since, result, check, idle, ran, owed>>
      /\ rebooting' \in BOOLEAN /\ (NoFault \/ Fault) /\ (snap' = snap \/ snap' = NoSnap)
  BY DEF IssueReboot, GateInv, CheckTyped
<1>2. plan' = {}
  BY <1>1, ForgetIs
<1>3. AgesAgree'
  BY <1>1, <1>2, AgesStay DEF GateInv, host, check
<1>4. OwedAnswered'
  BY <1>1 DEF GateInv, OwedAnswered, check
<1> QED BY <1>1, <1>3, <1>4, WindowStep DEF GateInv, GateTyped

LEMMA WindowCutKeeps == ASSUME GateInv, WindowCut PROVE GateInv'
<1>1. /\ window # "idle" /\ window' = "idle" /\ verify = "idle" /\ Forget /\ Fault
      /\ UNCHANGED <<host, gate, since, result, check, idle, ran, owed, rebooting, snap>>
  BY DEF WindowCut, GateInv, CheckTyped
<1>2. plan' = {}
  BY <1>1, ForgetIs
<1>3. AgesAgree'
  BY <1>1, <1>2, AgesStay DEF GateInv, host, check
<1>4. OwedAnswered'
  BY <1>1, OwedStays DEF GateInv, check
<1> QED BY <1>1, <1>3, <1>4, WindowStep DEF GateInv, GateTyped
-----------------------------------------------------------------------------
(* The check after boot *)

(* A step of the check that leaves the host and the window alone.           *)
LEMMA CheckStep ==
  ASSUME GateInv, UNCHANGED <<host, gate, nightly, rebooting, history>>, NoFault \/ Fault,
         snap' = snap \/ snap' = NoSnap,
         result' = NoResult \/ result' \in [boot : {"this"}, status : {"ok", "degraded", "stale"}],
         lapsed' \in BOOLEAN, failed' \in BOOLEAN, verify' \in {"idle"} \union CheckSteps,
         verify' # "idle" => verify # "idle" /\ snap' = snap, tried' \subseteq Declarable,
         verify' = "start" => missing' # {} /\ tried' \subseteq missing' /\ missing' \subseteq snap'.names,
         AgesAgree', OwedAnswered'
  PROVE  GateInv'
<1>1. GateTyped'
  BY DEF GateInv, GateTyped, gate, nightly
<1>2. CheckTyped'
  BY CountersTyped DEF GateInv, CheckTyped, host, nightly, history
<1>3. SeenReturns'
  BY SeenStays DEF GateInv, host, nightly, history
<1> QED BY <1>1, <1>2, <1>3, HostStays DEF GateInv

(* A check that ends: what it owed is answered by a failed unit, or by the  *)
(* result, or not at all with the snapshot still there.                     *)
LEMMA CheckEnds ==
  ASSUME GateInv, UNCHANGED <<host, gate, nightly, rebooting, history>>, NoFault \/ Fault,
         verify # "idle", NEW unitFailed \in BOOLEAN, Ends(unitFailed),
         snap' = snap \/ snap' = NoSnap,
         result' = NoResult \/ result' \in [boot : {"this"}, status : {"ok", "degraded", "stale"}],
         \/ snap' = snap
         \/ result'.boot = "this" /\ result'.status # "ok"
         \/ unitFailed /\ result'.boot # "this"
         \/ result' = [boot |-> "this", status |-> "ok"] /\ snap.names \subseteq ran
  PROVE  GateInv'
<1>1. verify' = "idle" /\ failed' = unitFailed /\ tried' = {} /\ missing' = {} /\ lapsed' = FALSE
  BY DEF Ends
<1>2. snap # NoSnap /\ window = "idle"
  BY DEF GateInv, CheckTyped
<1>3. AgesAgree'
  BY <1>1 DEF GateInv, AgesAgree, host, nightly, history
<1>4. OwedAnswered'
  <2>1. \A names \in owed : names = snap.names
    BY <1>2 DEF GateInv, OwedAnswered, Answered
  <2>2. \A names \in owed : Answered(names)'
    BY <1>1, <1>2, <2>1 DEF Answered, history
  <2> QED BY <1>1, <1>2, <2>2 DEF OwedAnswered, nightly, history
<1>5. lapsed' \in BOOLEAN /\ failed' \in BOOLEAN
  BY <1>1
<1> QED BY <1>1, <1>3, <1>4, <1>5, CheckStep DEF CheckSteps

(* A check that goes on.                                                    *)
LEMMA CheckGoes ==
  ASSUME GateInv, UNCHANGED <<host, gate, nightly, rebooting, history, snap, lapsed, failed>>,
         NoFault \/ Fault, verify # "idle", verify' \in CheckSteps \ {"begin"},
         verify = "begin" => snap.age <= MaxAge, tried' \subseteq Declarable,
         verify' = "start" => missing' # {} /\ tried' \subseteq missing' /\ missing' \subseteq snap.names,
         verify' # "retire" => result' = NoResult,
         verify' = "write" /\ missing' = {} => snap.names \subseteq ran,
         verify' = "retire" =>
            /\ result' \in [boot : {"this"}, status : {"ok", "degraded", "stale"}]
            /\ result'.status = "ok" => snap.names \subseteq ran
  PROVE  GateInv'
<1>1. snap # NoSnap /\ window = "idle"
  BY DEF GateInv, CheckTyped
<1>2. snap.age \in Nat /\ snap.names \subseteq Declarable /\ idle \in [Declarable -> 0 .. MaxAge + 2]
  BY <1>1, BoundsAssumption DEF GateInv, GateTyped, CheckTyped
<1>3. AgesAgree'
  <2>1. \A w \in snap.names : idle[w] <= MaxAge + 1 /\ (~lapsed => idle[w] <= MaxAge)
    <3>1. CASE verify = "begin"
      BY <1>1, <1>2, <3>1, BoundsAssumption DEF GateInv, AgesAgree
    <3>2. CASE verify # "begin"
      BY <3>2 DEF GateInv, AgesAgree, CheckTyped, CheckSteps
    <3> QED BY <3>1, <3>2
  <2> QED BY <2>1 DEF GateInv, AgesAgree, host, nightly, history
<1>4. OwedAnswered'
  <2>1. \A names \in owed : Answered(names)'
    BY <1>1 DEF GateInv, OwedAnswered, Answered
  <2> QED BY <1>1, <2>1 DEF GateInv, OwedAnswered, nightly, history, CheckSteps
<1>5. result' = NoResult \/ result' \in [boot : {"this"}, status : {"ok", "degraded", "stale"}]
  OBVIOUS
<1> QED BY <1>1, <1>3, <1>4, <1>5, CheckStep DEF GateInv, CheckTyped

LEMMA VerifyBeginKeeps == ASSUME GateInv, VerifyBegin PROVE GateInv'
<1>1. verify = "begin" /\ UNCHANGED <<host, gate, nightly, rebooting, history>>
  BY DEF VerifyBegin
<1>2. CASE /\ ~Stale /\ verify' = "wait" /\ NoFault
           /\ UNCHANGED <<snap, result, missing, tried, lapsed, failed>>
  <2>1. snap # NoSnap
    BY <1>1 DEF GateInv, CheckTyped
  <2>2. snap.age <= MaxAge
    BY <1>2, <2>1, BoundsAssumption DEF Stale, GateInv, GateTyped
  <2>3. result' = NoResult /\ tried' \subseteq Declarable
    BY <1>1, <1>2 DEF GateInv, OwedAnswered, CheckTyped
  <2> QED BY <1>1, <1>2, <2>2, <2>3, CheckGoes DEF CheckSteps
<1>3. CASE /\ Stale /\ NoFault /\ result' = [boot |-> "this", status |-> "stale"]
           /\ snap' = NoSnap /\ Ends(TRUE)
  BY <1>1, <1>3, CheckEnds
<1>4. CASE Fault /\ Ends(TRUE) /\ UNCHANGED <<snap, result>>
  BY <1>1, <1>4, CheckEnds DEF GateInv, GateTyped
<1> QED BY <1>2, <1>3, <1>4 DEF VerifyBegin

LEMMA FindMissingKeeps == ASSUME GateInv, FindMissing PROVE GateInv'
<1>1. /\ verify = "wait" /\ missing' = snap.names \ up /\ tried' = {} /\ NoFault
      /\ verify' = IF missing' = {} THEN "write" ELSE "start"
      /\ UNCHANGED <<host, gate, nightly, snap, result, rebooting, lapsed, failed, history>>
  BY DEF FindMissing, NoFault
<1>2. result' = NoResult /\ up \subseteq ran
  BY <1>1 DEF GateInv, OwedAnswered, CheckTyped
<1>3. verify' \in {"write", "start"}
  BY <1>1
<1>4. missing' = {} => snap.names \subseteq ran
  BY <1>1, <1>2
<1> QED BY <1>1, <1>2, <1>3, <1>4, CheckGoes DEF CheckSteps

LEMMA StartsEndKeeps == ASSUME GateInv, StartsEnd PROVE GateInv'
<1>1. /\ verify = "start" /\ (NoFault \/ Fault)
      /\ verify' = IF tried = {} THEN "write" ELSE "settle"
      /\ missing \subseteq tried \/ Fault
      /\ UNCHANGED <<host, gate, nightly, snap, result, rebooting, missing, tried, lapsed, failed, history>>
  BY DEF StartsEnd
<1>2. result' = NoResult /\ tried' \subseteq Declarable /\ missing # {}
  BY <1>1 DEF GateInv, OwedAnswered, CheckTyped
<1>3. verify' \in {"write", "settle"}
  BY <1>1
<1> QED BY <1>1, <1>2, <1>3, CheckGoes DEF CheckSteps

LEMMA SettleKeeps == ASSUME GateInv, Settle PROVE GateInv'
<1>1. /\ verify = "settle" /\ missing' = snap.names \ up /\ verify' = "write" /\ NoFault
      /\ UNCHANGED <<host, gate, nightly, snap, result, rebooting, tried, lapsed, failed, history>>
  BY DEF Settle, NoFault
<1>2. result' = NoResult /\ tried' \subseteq Declarable /\ up \subseteq ran
  BY <1>1 DEF GateInv, OwedAnswered, CheckTyped
<1>3. missing' = {} => snap.names \subseteq ran
  BY <1>1, <1>2
<1> QED BY <1>1, <1>2, <1>3, CheckGoes DEF CheckSteps

LEMMA WriteResultKeeps == ASSUME GateInv, WriteResult PROVE GateInv'
<1>1. verify = "write" /\ UNCHANGED <<host, gate, nightly, snap, rebooting, history>>
  BY DEF WriteResult
<1>2. CASE Fault /\ Ends(TRUE) /\ result' = result
  BY <1>1, <1>2, CheckEnds DEF GateInv, GateTyped
<1>3. ASSUME NEW s \in IF missing = {} THEN {"ok", "degraded"} ELSE {"degraded"},
             NoFault, result' = [boot |-> "this", status |-> s],
             verify' = "retire" /\ missing' = {} /\ tried' = {} /\ UNCHANGED <<lapsed, failed>>
      PROVE  GateInv'
  <2>1. s \in {"ok", "degraded"} /\ (s = "ok" => missing = {})
    OBVIOUS
  <2>2. result'.status = "ok" => snap.names \subseteq ran
    BY <1>1, <1>3, <2>1 DEF GateInv, OwedAnswered
  <2>3. result' \in [boot : {"this"}, status : {"ok", "degraded", "stale"}]
    BY <1>3, <2>1
  <2> QED BY <1>1, <1>3, <2>2, <2>3, CheckGoes DEF CheckSteps
<1> QED BY <1>2, <1>3 DEF WriteResult

LEMMA RetireSnapshotKeeps == ASSUME GateInv, RetireSnapshot PROVE GateInv'
<1>1. verify = "retire" /\ UNCHANGED <<host, gate, nightly, result, rebooting, history>>
  BY DEF RetireSnapshot
<1>2. /\ result \in [boot : {"this"}, status : {"ok", "degraded", "stale"}]
      /\ result.status = "ok" => snap.names \subseteq ran
  BY <1>1 DEF GateInv, OwedAnswered, GateTyped, NoResult
<1>3. result.status = "ok" => result = [boot |-> "this", status |-> "ok"]
  BY <1>2
<1>4. CASE snap' = NoSnap /\ Ends(result.status # "ok") /\ NoFault
  BY <1>1, <1>2, <1>3, <1>4, CheckEnds
<1>5. CASE snap' = snap /\ Ends(TRUE) /\ Fault
  BY <1>1, <1>2, <1>5, CheckEnds
<1> QED BY <1>4, <1>5 DEF RetireSnapshot

LEMMA VerifyStoppedKeeps == ASSUME GateInv, VerifyStopped PROVE GateInv'
<1>1. verify # "idle" /\ Fault /\ UNCHANGED <<host, gate, nightly, rebooting, history>>
  BY DEF VerifyStopped, Running
<1>2. CASE /\ Trapped /\ snap' = NoSnap /\ Ends(TRUE)
           /\ result' \in {result, [boot |-> "this", status |-> "degraded"]}
  <2>1. result = NoResult
    BY <1>2 DEF Trapped, GateInv, OwedAnswered
  <2>2. CASE result' = result
    BY <1>1, <1>2, <2>1, <2>2, CheckEnds DEF NoResult
  <2>3. CASE result' = [boot |-> "this", status |-> "degraded"]
    BY <1>1, <1>2, <2>3, CheckEnds
  <2> QED BY <1>2, <2>2, <2>3
<1>3. ASSUME snap' = snap, result' = result, NEW f \in BOOLEAN, Ends(f) PROVE GateInv'
  BY <1>1, <1>3, CheckEnds DEF GateInv, GateTyped
<1> QED BY <1>2, <1>3 DEF VerifyStopped

LEMMA VerifyKilledKeeps == ASSUME GateInv, VerifyKilled PROVE GateInv'
  BY CheckEnds DEF VerifyKilled, Running, GateInv, GateTyped

(* The second chance of a workload that boot did not start.                 *)
LEMMA StartMissingKeeps == ASSUME GateInv, NEW w \in Declarable, StartMissing(w) PROVE GateInv'
<1>1. /\ verify = "start" /\ w \in missing /\ tried' = tried \union {w} /\ (NoFault \/ Fault)
      /\ up' \in {up, up \union {w}} /\ ran' = ran \union up'
      /\ held' = held \ up' /\ coming' = coming \ up'
      /\ idle' = [v \in Declarable |-> IF v \in up' THEN 0 ELSE idle[v]]
      /\ UNCHANGED <<decl, docker, gate, nightly, snap, result, rebooting, verify,
                     missing, lapsed, failed, owed, touched>>
  BY DEF StartMissing
<1>2. w \in Workloads /\ up' \subseteq Workloads /\ up \subseteq up'
  BY <1>1 DEF Workloads, GateInv, HostTyped
<1>3. idle \in [Declarable -> 0 .. MaxAge + 2]
  BY DEF GateInv, CheckTyped
<1>4. HostTyped'
  BY <1>1, <1>2 DEF GateInv, HostTyped
<1>5. GateTyped'
  BY <1>1 DEF GateInv, GateTyped, gate, nightly
<1>6. CheckTyped'
  <2>1. idle' \in [Declarable -> 0 .. MaxAge + 2]
    BY <1>1, <1>3, BoundsAssumption
  <2>2. faults' \in 0 .. Faults /\ edits' \in 0 .. Edits
    BY <1>1, CountersTyped DEF GateInv, CheckTyped
  <2> QED BY <1>1, <1>2, <2>1, <2>2 DEF GateInv, CheckTyped, nightly, CheckSteps
<1>7. SeenReturns'
  BY <1>1, SeenStays DEF GateInv, nightly
<1>8. AgesAgree'
  <2>1. snap # NoSnap /\ snap.names \subseteq Declarable /\ snap.age \in Nat
    BY <1>1, BoundsAssumption DEF GateInv, GateTyped, CheckTyped
  <2>2. \A v \in Declarable : idle'[v] = 0 \/ (v \notin up' /\ idle'[v] = idle[v])
    BY <1>1
  <2>3. plan' = {} /\ window' = window /\ snap' = snap /\ verify' = "start" /\ lapsed' = lapsed
    BY <1>1 DEF GateInv, AgesAgree, CheckTyped, nightly
  <2>4. \A v \in snap.names : idle[v] <= MaxAge + 1 /\ (~lapsed => idle[v] <= MaxAge)
    BY <1>1 DEF GateInv, AgesAgree
  <2>5. snap.age <= MaxAge => \A v \in snap.names : idle[v] <= snap.age
    BY <2>1 DEF GateInv, AgesAgree
  <2>6. \A v \in up' \cap Declarable : idle'[v] = 0
    BY <2>2
  <2>7. \A v \in snap.names : idle'[v] <= MaxAge + 1 /\ (~lapsed => idle'[v] <= MaxAge)
    BY <2>1, <2>2, <2>4, BoundsAssumption
  <2>8. snap.age <= MaxAge => \A v \in snap.names : idle'[v] <= snap.age
    BY <2>1, <2>2, <2>5
  <2> QED BY <2>3, <2>6, <2>7, <2>8 DEF AgesAgree
<1>9. OwedAnswered'
  BY <1>1, OwedStays DEF GateInv, nightly
<1> QED BY <1>4, <1>5, <1>6, <1>7, <1>8, <1>9 DEF GateInv
-----------------------------------------------------------------------------
(* The host around the gate *)

LEMMA ReturnsAreWorkloads ==
  ASSUME GateInv, NEW r \in Returning
  PROVE  r \subseteq Workloads /\ Returns \subseteq r
  BY DEF Returning

LEMMA BootKeeps ==
  ASSUME GateInv, NEW orderly \in BOOLEAN, NEW r \in Returning, Boot(orderly, r), NoFault \/ Fault \/ Edit
  PROVE  GateInv'
<1>1. /\ snap' = NoSnap \/ (snap # NoSnap /\ snap' = [snap EXCEPT !.boot = "earlier"])
      /\ result' = NoResult
      /\ verify' \in {"begin", "idle"} /\ (verify' = "begin" => snap' # NoSnap)
      /\ owed' = IF snap' # NoSnap THEN {snap'.names} ELSE {}
      /\ failed' = FALSE /\ missing' = {} /\ tried' = {} /\ lapsed' = FALSE
      /\ window' = "idle" /\ seen' = {} /\ plan' = {} /\ touched' = {} /\ rebooting' = FALSE
      /\ docker' = [docker EXCEPT !.active = docker.enabled]
      /\ up' = {} /\ ran' = {} /\ coming' = r
      /\ UNCHANGED <<held, decl, gate, since, idle>>
  BY DEF Boot, CheckStarts
<1>2. r \subseteq Workloads
  BY ReturnsAreWorkloads
<1>3. HostTyped'
  BY <1>1, <1>2 DEF GateInv, HostTyped
<1>4. /\ snap' = NoSnap \/ snap' \in [boot : {"this", "earlier"}, age : 0 .. MaxAge + 1,
                                       names : SUBSET Declarable]
      /\ snap' # NoSnap => snap # NoSnap /\ snap'.age = snap.age /\ snap'.names = snap.names
  BY <1>1 DEF GateInv, GateTyped
<1>5. rebooting' \in BOOLEAN /\ lapsed' \in BOOLEAN /\ failed' \in BOOLEAN
  BY <1>1
<1>6. GateTyped'
  BY <1>1, <1>4, <1>5 DEF GateInv, GateTyped, gate
<1>7. faults' \in 0 .. Faults /\ edits' \in 0 .. Edits
  BY CountersTyped DEF GateInv, CheckTyped
<1>8. CheckTyped'
  BY <1>1, <1>5, <1>7 DEF GateInv, CheckTyped, CheckSteps
<1>9. SeenReturns'
  BY <1>1 DEF GateInv, SeenReturns
<1>10. AgesAgree'
  BY <1>1, <1>4 DEF GateInv, AgesAgree
<1>11. OwedAnswered'
  BY <1>1 DEF OwedAnswered, Answered
<1> QED BY <1>3, <1>6, <1>8, <1>9, <1>10, <1>11 DEF GateInv

(* A workload that starts: by boot's hand or the operator's.                *)
LEMMA RunningMore ==
  ASSUME GateInv, NEW w \in Workloads, up' = up \union {w}, coming' = coming \ {w},
         ran' = ran \union {w}, held' = held \ {w},
         idle' = [v \in Declarable |-> IF v = w THEN 0 ELSE idle[v]],
         touched' \subseteq Workloads, seen' \ touched' \subseteq seen \ touched,
         NoFault \/ Edit,
         UNCHANGED <<decl, docker, gate, nightly, snap, result, rebooting, check, owed>>
  PROVE  GateInv'
<1>1. HostTyped'
  BY DEF GateInv, HostTyped
<1>2. GateTyped'
  BY DEF GateInv, GateTyped, gate, nightly
<1>3. idle \in [Declarable -> 0 .. MaxAge + 2]
  BY DEF GateInv, CheckTyped
<1>4. CheckTyped'
  <2>1. idle' \in [Declarable -> 0 .. MaxAge + 2]
    BY <1>3, BoundsAssumption
  <2>2. faults' \in 0 .. Faults /\ edits' \in 0 .. Edits
    BY CountersTyped DEF GateInv, CheckTyped
  <2> QED BY <2>1, <2>2 DEF GateInv, CheckTyped, nightly, check, CheckSteps
<1>5. SeenReturns'
  BY SeenStays DEF GateInv, nightly
<1>6. AgesAgree'
  <2>1. \A v \in Declarable : idle'[v] = IF v = w THEN 0 ELSE idle[v]
    OBVIOUS
  <2>2. snap # NoSnap => snap.names \subseteq Declarable /\ snap.age \in Nat
    BY BoundsAssumption DEF GateInv, GateTyped
  <2>3. plan \subseteq Declarable
    BY DEF GateInv, GateTyped
  <2>4. verify # "idle" => snap # NoSnap
    BY DEF GateInv, CheckTyped
  <2>5. \A v \in up' \cap Declarable : idle'[v] = 0
    BY <2>1 DEF GateInv, AgesAgree
  <2>6. (\A v \in plan : idle'[v] = 0) /\ (window # "judged" => plan = {})
    BY <2>1, <2>3 DEF GateInv, AgesAgree
  <2>7. snap # NoSnap /\ snap.age <= MaxAge => \A v \in snap.names : idle'[v] <= snap.age
    BY <2>1, <2>2 DEF GateInv, AgesAgree
  <2>8. verify \in {"wait", "start", "settle", "write", "retire"} =>
          \A v \in snap.names : idle'[v] <= MaxAge + 1 /\ (~lapsed => idle'[v] <= MaxAge)
    BY <2>1, <2>2, <2>4, BoundsAssumption DEF GateInv, AgesAgree
  <2> QED BY <2>5, <2>6, <2>7, <2>8 DEF AgesAgree, nightly, check
<1>7. OwedAnswered'
  BY OwedStays DEF GateInv, nightly, check
<1> QED BY <1>1, <1>2, <1>4, <1>5, <1>6, <1>7 DEF GateInv

LEMMA ArriveKeeps == ASSUME GateInv, NEW w \in Workloads, Arrive(w) PROVE GateInv'
  BY RunningMore DEF Arrive, nightly, NoFault, GateInv, CheckTyped

(* An hour leaves the host and its types alone.                             *)
LEMMA TickTypes ==
  ASSUME GateInv, Tick, snap' = NoSnap <=> snap = NoSnap, snap # NoSnap => snap'.names = snap.names
  PROVE  HostTyped' /\ CheckTyped' /\ SeenReturns'
<1>1. /\ UNCHANGED <<host, window, seen, plan, verify, missing, tried, failed, ran, touched, counters>>
      /\ idle' = [w \in Declarable |-> IF w \in up THEN 0 ELSE Least(idle[w] + 1, MaxAge + 2)]
      /\ lapsed' = (verify # "idle")
  BY DEF Tick, Running
<1>2. idle' \in [Declarable -> 0 .. MaxAge + 2]
  BY <1>1, BoundsAssumption DEF Least, GateInv, CheckTyped
<1>3. lapsed' \in BOOLEAN
  BY <1>1
<1>4. CheckTyped'
  BY <1>1, <1>2, <1>3 DEF GateInv, CheckTyped, CheckSteps, counters, host
<1> QED BY <1>1, <1>4, HostStays, SeenStays DEF GateInv, host

LEMMA TickKeeps == ASSUME GateInv, Tick PROVE GateInv'
<1>1. /\ window = "idle" /\ (verify # "idle" => ~lapsed) /\ since <= MaxAge
      /\ since' = Least(since + 1, MaxAge + 1)
      /\ snap' = IF snap = NoSnap THEN snap ELSE [snap EXCEPT !.age = Least(@ + 1, MaxAge + 1)]
      /\ idle' = [w \in Declarable |-> IF w \in up THEN 0 ELSE Least(idle[w] + 1, MaxAge + 2)]
      /\ UNCHANGED <<host, gate, window, seen, plan, result, rebooting, verify, missing, tried,
                     failed, ran, owed, touched, counters>>
  BY DEF Tick, Running
<1>2. lapsed' = (verify # "idle")
  BY DEF Tick, Running
<1>3. lapsed' \in BOOLEAN /\ (verify # "idle" => lapsed')
  BY <1>2
<1>4. since' \in 0 .. MaxAge + 1
  BY <1>1, BoundsAssumption DEF Least, GateInv, GateTyped
<1>5. CASE snap = NoSnap
  <2>1. verify = "idle" /\ snap' = NoSnap
    BY <1>1, <1>5 DEF GateInv, CheckTyped
  <2>2. GateTyped'
    BY <1>1, <1>4, <2>1 DEF GateInv, GateTyped, gate
  <2>3. plan = {}
    BY <1>1 DEF GateInv, AgesAgree
  <2>4. AgesAgree'
    BY <1>1, <2>1, <2>3 DEF AgesAgree, host
  <2>5. OwedAnswered'
    BY <1>1, <1>5, <2>1, OwedStays DEF GateInv
  <2> QED BY <1>5, <2>1, <2>2, <2>4, <2>5, TickTypes DEF GateInv
<1>6. CASE snap # NoSnap
  <2>1. /\ snap \in [boot : {"this", "earlier"}, age : 0 .. MaxAge + 1, names : SUBSET Declarable]
        /\ snap' = [snap EXCEPT !.age = Least(@ + 1, MaxAge + 1)]
    BY <1>1, <1>6 DEF GateInv, GateTyped
  <2>2. Least(snap.age + 1, MaxAge + 1) \in 0 .. MaxAge + 1
    BY <2>1, BoundsAssumption DEF Least
  <2>3. /\ snap' \in [boot : {"this", "earlier"}, age : 0 .. MaxAge + 1, names : SUBSET Declarable]
        /\ snap'.names = snap.names /\ snap'.age = Least(snap.age + 1, MaxAge + 1)
    BY <2>1, <2>2
  <2>4. snap' # NoSnap
    <3>1. snap'.boot \in {"this", "earlier"}
      BY <2>3
    <3> QED BY <3>1 DEF NoSnap
  <2>5. GateTyped'
    BY <1>1, <1>4, <2>3 DEF GateInv, GateTyped, gate
  <2>6. AgesAgree'
    <3>1. plan = {}
      BY <1>1 DEF GateInv, AgesAgree
    <3>2. idle \in [Declarable -> 0 .. MaxAge + 2]
      BY DEF GateInv, CheckTyped
    <3>3. \A w \in Declarable : idle'[w] <= idle[w] + 1
      BY <1>1, <3>2, BoundsAssumption DEF Least
    <3>4. \A w \in Declarable : idle'[w] \in 0 .. MaxAge + 2
      BY <1>1, <3>2, BoundsAssumption DEF Least
    <3>5. snap'.age <= MaxAge => snap.age + 1 = snap'.age
      BY <2>1, <2>3, BoundsAssumption DEF Least
    <3>6. snap'.age <= MaxAge => \A w \in snap.names : idle'[w] <= snap'.age
      BY <1>6, <2>1, <2>2, <2>3, <3>2, <3>3, <3>4, <3>5, BoundsAssumption DEF GateInv, AgesAgree
    <3>7. verify \in {"wait", "start", "settle", "write", "retire"} =>
            \A w \in snap.names : idle'[w] <= MaxAge + 1
      BY <1>1, <2>1, <3>2, <3>3, <3>4, BoundsAssumption DEF GateInv, AgesAgree
    <3>8. \A w \in up \cap Declarable : idle'[w] = 0
      BY <1>1
    <3> QED BY <1>1, <1>3, <2>3, <3>1, <3>6, <3>7, <3>8 DEF AgesAgree, host
  <2>7. OwedAnswered'
    <3>1. \A names \in owed : Answered(names)'
      BY <1>1, <1>6, <2>3, <2>4 DEF GateInv, OwedAnswered, Answered
    <3> QED BY <1>1, <2>3, <3>1 DEF GateInv, OwedAnswered
  <2> QED BY <1>1, <2>3, <2>4, <2>5, <2>6, <2>7, TickTypes DEF GateInv
<1> QED BY <1>5, <1>6

(* What the operator does to the host, other than to start a workload.      *)
LEMMA OperatorStep ==
  ASSUME GateInv, NoFault \/ Edit, HostTyped', SeenReturns', up' \subseteq up, touched' \subseteq Workloads,
         UNCHANGED <<gate, nightly, snap, result, rebooting, check, idle, ran, owed>>
  PROVE  GateInv'
<1>1. GateTyped'
  BY DEF GateInv, GateTyped, gate, nightly
<1>2. CheckTyped'
  BY CountersTyped DEF GateInv, CheckTyped, nightly, check
<1>3. AgesAgree'
  BY AgesStay DEF GateInv, AgesAgree, nightly, check
<1>4. OwedAnswered'
  BY OwedStays DEF GateInv, nightly, check
<1> QED BY <1>1, <1>2, <1>3, <1>4 DEF GateInv

(* Whatever comes back and does not after a change of some workloads is one *)
(* of them, or is wanted by one.                                            *)
LEMMA TouchCovers ==
  ASSUME GateInv, NEW ws \in SUBSET Workloads, Touch(ws), seen' = seen,
         \A u \in Units : Wanter[u] = u => decl'[u] # "wanted",
         \A v \in Returns : v \in Returns' \/ v \in ws \/ (v \in Units /\ Wanter[v] \in ws)
  PROVE  SeenReturns' /\ touched' \subseteq Workloads
<1>1. touched \subseteq Workloads
  BY DEF GateInv, CheckTyped
<1>2. CASE seen = {}
  BY <1>2 DEF Touch, SeenReturns
<1>3. CASE seen # {}
  <2>1. touched' = touched \union ws \union {u \in Units : Wanter[u] \in ws}
    BY <1>3 DEF Touch
  <2>2. touched' \subseteq Workloads
    BY <1>1, <2>1 DEF Workloads, Declarable
  <2>3. seen \ touched \subseteq Returns
    BY DEF GateInv, SeenReturns
  <2>4. seen' \ touched' \subseteq Returns'
    BY <2>1, <2>3
  <2> QED BY <2>2, <2>4 DEF SeenReturns
<1> QED BY <1>2, <1>3

LEMMA OperatorStopsKeeps == ASSUME GateInv, NEW w \in Workloads, OperatorStops(w) PROVE GateInv'
<1>1. /\ Edit /\ up' = up \ {w} /\ coming' = coming \ {w} /\ held' = held \union ({w} \cap Containers)
      /\ Touch({w})
      /\ UNCHANGED <<decl, docker, gate, nightly, snap, result, rebooting, check, idle, ran, owed>>
  BY DEF OperatorStops
<1>2. HostTyped'
  BY <1>1 DEF GateInv, HostTyped
<1>3. \A v \in Returns : v \in Returns' \/ v = w
  BY <1>1 DEF Returns, UnitReturns, Starts, ContainerReturns
<1>4. \A u \in Units : Wanter[u] = u => decl'[u] # "wanted"
  BY <1>1 DEF GateInv, SeenReturns
<1>5. SeenReturns' /\ touched' \subseteq Workloads
  BY <1>1, <1>3, <1>4, TouchCovers DEF nightly
<1> QED BY <1>1, <1>2, <1>5, OperatorStep

LEMMA OperatorStartsKeeps == ASSUME GateInv, NEW w \in Workloads, OperatorStarts(w) PROVE GateInv'
<1>1. touched \subseteq Workloads /\ seen' = seen
  BY DEF GateInv, CheckTyped, OperatorStarts, nightly
<1>2. touched' \subseteq Workloads /\ seen' \ touched' \subseteq seen \ touched
  BY <1>1 DEF OperatorStarts, Touch, Workloads, Declarable
<1> QED BY <1>2, RunningMore DEF OperatorStarts

LEMMA OperatorDeclaresKeeps ==
  ASSUME GateInv, NEW w \in Declarable, OperatorDeclares(w)
  PROVE  GateInv'
<1>1. /\ Edit /\ Touch({w})
      /\ UNCHANGED <<up, coming, held, docker, gate, nightly, snap, result, rebooting, check,
                     idle, ran, owed>>
  BY DEF OperatorDeclares
<1>2. PICK d \in IF w \in Units THEN UnitStates ELSE Policies :
        (w \in Units /\ d = "wanted" => Wanter[w] # w) /\ decl' = [decl EXCEPT ![w] = d]
  BY DEF OperatorDeclares
<1>3. /\ decl \in [Declarable -> UnitStates \union Policies]
      /\ decl' \in [Declarable -> UnitStates \union Policies]
      /\ decl'[w] = d /\ \A v \in Declarable : v # w => decl'[v] = decl[v]
  BY <1>2 DEF GateInv, HostTyped
<1>4. w \in Units => w \notin Containers
  BY WorkloadAssumption
<1>5. HostTyped'
  BY <1>1, <1>2, <1>3, <1>4 DEF GateInv, HostTyped, Declarable
<1>6. \A u \in Units : Wanter[u] = u => decl'[u] # "wanted"
  BY <1>2, <1>3 DEF GateInv, SeenReturns, Declarable
<1>7. \A v \in Returns : v \in Returns' \/ v = w \/ (v \in Units /\ Wanter[v] = w)
  <2>1. ASSUME NEW u \in Units, UnitReturns(u), u # w, Wanter[u] # w PROVE UnitReturns(u)'
    <3>1. Wanter[u] \in Units
      BY WorkloadAssumption
    <3> QED BY <1>3, <2>1, <3>1 DEF UnitReturns, Starts, Declarable
  <2>2. ASSUME NEW c \in Containers, ContainerReturns(c), c # w PROVE ContainerReturns(c)'
    BY <1>1, <1>3, <2>2 DEF ContainerReturns, Declarable
  <2> QED BY <2>1, <2>2 DEF Returns
<1>8. w \in Workloads
  BY DEF Workloads
<1>9. SeenReturns' /\ touched' \subseteq Workloads
  BY <1>1, <1>6, <1>7, <1>8, TouchCovers DEF nightly
<1> QED BY <1>1, <1>5, <1>9, OperatorStep

LEMMA OperatorSetsDockerKeeps == ASSUME GateInv, OperatorSetsDocker PROVE GateInv'
<1>1. /\ Edit /\ Touch(Containers) /\ docker' \in [active : BOOLEAN, enabled : BOOLEAN]
      /\ UNCHANGED <<up, coming, held, decl, gate, nightly, snap, result, rebooting, check,
                     idle, ran, owed>>
  BY DEF OperatorSetsDocker
<1>2. HostTyped'
  BY <1>1 DEF GateInv, HostTyped
<1>3. \A v \in Returns : v \in Returns' \/ v \in Containers
  BY <1>1 DEF Returns, UnitReturns, Starts
<1>4. \A u \in Units : Wanter[u] = u => decl'[u] # "wanted"
  BY <1>1 DEF GateInv, SeenReturns
<1>5. Containers \subseteq Workloads
  BY DEF Workloads, Declarable
<1>6. SeenReturns' /\ touched' \subseteq Workloads
  BY <1>1, <1>3, <1>4, <1>5, TouchCovers DEF nightly
<1> QED BY <1>1, <1>2, <1>6, OperatorStep

LEMMA OperatorDisablesKeeps == ASSUME GateInv, OperatorDisables PROVE GateInv'
<1>1. /\ Edit /\ UNCHANGED <<host, nightly, snap, result, rebooting, check, history>>
      /\ timerOn' \in BOOLEAN /\ verifyOn' \in BOOLEAN
  BY DEF OperatorDisables, GateInv, GateTyped
<1>2. GateTyped'
  BY <1>1 DEF GateInv, GateTyped, nightly
<1>3. CheckTyped'
  BY <1>1, CountersTyped DEF GateInv, CheckTyped, host, nightly, check, history
<1> QED BY <1>1, <1>2, <1>3, HostStays, SeenStays, AgesStay, OwedStays
        DEF GateInv, AgesAgree, host, nightly, check, history
-----------------------------------------------------------------------------
(* The theorems *)

LEMMA GateInit == ASSUME Init PROVE GateInv
<1>1. HostTyped
  BY DeclaredAssumption DEF Init, HostTyped, Workloads
<1>2. GateTyped
  <2>1. timerOn \in BOOLEAN /\ verifyOn \in BOOLEAN /\ rebooting \in BOOLEAN /\ ~rebooting
    BY DEF Init
  <2> QED BY <2>1, BoundsAssumption DEF Init, GateTyped
<1>3. CheckTyped
  <2>1. lapsed \in BOOLEAN /\ failed \in BOOLEAN
    BY DEF Init
  <2>2. verify = "idle" /\ tried = {} /\ up \subseteq Workloads /\ ran = up /\ touched = {}
    BY DEF Init, Workloads
  <2>3. idle \in [Declarable -> 0 .. MaxAge + 2] /\ faults \in 0 .. Faults /\ edits \in 0 .. Edits
    BY BoundsAssumption DEF Init
  <2> QED BY <2>1, <2>2, <2>3 DEF CheckTyped
<1>4. SeenReturns
  BY DEF Init, SeenReturns
<1>5. AgesAgree
  BY DEF Init, AgesAgree
<1>6. OwedAnswered
  BY DEF Init, OwedAnswered
<1> QED BY <1>1, <1>2, <1>3, <1>4, <1>5, <1>6 DEF GateInv

LEMMA BootsKeep == ASSUME GateInv, GatedBoot \/ OperatorBoot \/ CrashBoot PROVE GateInv'
  BY BootKeeps DEF GatedBoot, OperatorBoot, CrashBoot

LEMMA GateStep == ASSUME GateInv, [Next]_vars PROVE GateInv'
<1>1. CASE UNCHANGED vars
  <2>1. UNCHANGED <<host, gate, nightly, snap, result, rebooting, check, history, counters>>
    BY <1>1 DEF vars
  <2>2. GateTyped'
    BY <2>1 DEF GateInv, GateTyped, gate, nightly
  <2>3. CheckTyped'
    BY <2>1 DEF GateInv, CheckTyped, host, nightly, check, history, counters
  <2> QED BY <2>1, <2>2, <2>3, HostStays, SeenStays, AgesStay, OwedStays
          DEF GateInv, AgesAgree, host, nightly, check, history
<1>2. CASE Install \/ Window
  BY <1>2, InstallKeeps, TimerFiresKeeps, WriteSnapshotKeeps, IssueRebootKeeps, WindowCutKeeps DEF Window
<1>3. CASE Verify
  BY <1>3, VerifyBeginKeeps, FindMissingKeeps, StartsEndKeeps, SettleKeeps, WriteResultKeeps,
     RetireSnapshotKeeps, VerifyStoppedKeeps, VerifyKilledKeeps, StartMissingKeeps
  DEF Verify
<1>4. CASE Operator
  BY <1>4, OperatorSetsDockerKeeps, OperatorDisablesKeeps, BootsKeep, OperatorStopsKeeps,
     OperatorStartsKeeps, OperatorDeclaresKeeps
  DEF Operator
<1>5. CASE GatedBoot \/ CrashBoot \/ Tick \/ \E w \in Workloads : Arrive(w)
  BY <1>5, BootsKeep, TickKeeps, ArriveKeeps
<1> QED BY <1>1, <1>2, <1>3, <1>4, <1>5 DEF Next

(* The invariant that the theorems below rest on: what the window saw comes *)
(* back, snapshots age with what they name, and a boot's snapshot is        *)
(* answered.                                                                *)
THEOREM GateInvariant == Spec => []GateInv
<1>1. Init => GateInv
  BY GateInit
<1>2. GateInv /\ [Next]_vars => GateInv'
  BY GateStep
<1> QED BY <1>1, <1>2, PTL DEF Spec

LEMMA TypesHold == ASSUME GateInv PROVE TypeOK
<1>1. {timerOn, verifyOn, rebooting, lapsed, failed} \subseteq BOOLEAN
  BY DEF GateInv, GateTyped, CheckTyped
<1> QED BY <1>1 DEF GateInv, HostTyped, GateTyped, CheckTyped, CheckSteps, TypeOK, Running

(* Types, and: the check runs only on a snapshot, starts only what it       *)
(* missed, and never overlaps a window (ConditionPathExists of verifyUnit). *)
THEOREM TypeCorrect == Spec => []TypeOK
  BY GateInvariant, TypesHold, PTL

LEMMA QuietIsAnswered == ASSUME GateInv PROVE QuietMeansChecked
<1> SUFFICES ASSUME Quiet, NEW names \in owed
             PROVE  result = [boot |-> "this", status |-> "ok"] /\ names \subseteq ran
  BY DEF QuietMeansChecked
<1>1. Answered(names)
  BY DEF GateInv, OwedAnswered
<1> QED BY <1>1 DEF Answered, Quiet

(* After a boot that found a snapshot, doctor is quiet only once this boot  *)
(* was compared with it and each workload of it has run                     *)
(* (rebootResultCommand).                                                   *)
THEOREM QuietOnlyWhenChecked == Spec => []QuietMeansChecked
  BY GateInvariant, QuietIsAnswered, PTL

LEMMA BootReturns ==
  ASSUME GateInv, NEW orderly \in BOOLEAN, NEW r \in Returning, Boot(orderly, r)
  PROVE  seen \ touched \subseteq coming'
<1>1. coming' = r
  BY DEF Boot
<1> QED BY <1>1, ReturnsAreWorkloads DEF GateInv, SeenReturns

(* Only a boot ends the gate's reboot.                                      *)
LEMMA RebootDropsNothing ==
  ASSUME GateInv, [Next]_vars, rebooting, ~rebooting'
  PROVE  seen \ touched \subseteq coming'
<1>1. CASE GatedBoot \/ OperatorBoot \/ CrashBoot
  BY <1>1, BootReturns DEF GatedBoot, OperatorBoot, CrashBoot
<1>2. window = "idle"
  BY DEF GateInv, GateTyped
<1>3. CASE ~(GatedBoot \/ OperatorBoot \/ CrashBoot)
  <2>1. CASE UNCHANGED vars
    BY <2>1 DEF vars
  <2>2. CASE Next
    BY <1>2, <1>3, <2>2 DEF Next, Install, Window, TimerFires, WriteSnapshot, IssueReboot, WindowCut,
       Verify, VerifyBegin, FindMissing, StartsEnd, Settle, WriteResult, RetireSnapshot,
       VerifyStopped, VerifyKilled, StartMissing, Operator, OperatorSetsDocker, OperatorDisables,
       OperatorStops, OperatorStarts, OperatorDeclares, Tick, Arrive
  <2> QED BY <2>1, <2>2
<1> QED BY <1>1, <1>3

(* The gate's reboot drops nothing that it found running and that nobody    *)
(* changed since: all of it comes back by itself (serverpro-reboot.sh:2).   *)
THEOREM RebootsDropNothing == Spec => GatedRebootDropsNothing
<1> DEFINE A == rebooting /\ ~rebooting' => seen \ touched \subseteq coming'
<1>1. GateInv /\ [Next]_vars => [A]_vars
  BY RebootDropsNothing
<1>2. Spec => [][A]_vars
  BY <1>1, GateInvariant, PTL DEF Spec
<1> QED BY <1>2 DEF GatedRebootDropsNothing

(* Only the check's second chance adds to what was tried.                   *)
LEMMA TriesOnlyRecent ==
  ASSUME GateInv, [Next]_vars, NEW w \in Declarable, w \in tried' \ tried
  PROVE  idle[w] <= MaxAge + 1
<1>1. CASE \E v \in Declarable : StartMissing(v)
  <2>1. verify = "start" /\ w \in missing
    BY <1>1 DEF StartMissing
  <2>2. w \in snap.names
    BY <2>1 DEF GateInv, CheckTyped
  <2> QED BY <2>1, <2>2 DEF GateInv, AgesAgree
<1>2. CASE GatedBoot \/ OperatorBoot \/ CrashBoot
  BY <1>2 DEF GatedBoot, OperatorBoot, CrashBoot, Boot
<1>3. CASE UNCHANGED vars
  BY <1>3 DEF vars, check
<1>4. CASE Next /\ ~(GatedBoot \/ OperatorBoot \/ CrashBoot) /\ ~\E v \in Declarable : StartMissing(v)
  <2>1. tried' \subseteq tried
    BY <1>4 DEF Next, Install, Window, TimerFires, WriteSnapshot, IssueReboot, WindowCut,
       Verify, VerifyBegin, FindMissing, StartsEnd, Settle, WriteResult, RetireSnapshot,
       VerifyStopped, VerifyKilled, Operator, OperatorSetsDocker, OperatorDisables,
       OperatorStops, OperatorStarts, OperatorDeclares, Tick, Arrive, Ends, check
  <2> QED BY <2>1
<1> QED BY <1>1, <1>2, <1>3, <1>4

(* The check never starts a workload that has been down for longer than a   *)
(* snapshot may be old and a check may take (rebootgate.go:77,              *)
(* serverpro-reboot.sh:581), however the snapshot came to be left behind.   *)
THEOREM LongStoppedStays == Spec => LongStoppedStaysDown
<1> DEFINE A == \A w \in Declarable : w \in tried' \ tried => idle[w] <= MaxAge + 1
<1>1. GateInv /\ [Next]_vars => [A]_vars
  BY TriesOnlyRecent
<1>2. Spec => [][A]_vars
  BY <1>1, GateInvariant, PTL DEF Spec
<1> QED BY <1>2 DEF LongStoppedStaysDown
=============================================================================
