# TLA+ models of serverpro

serverpro is a command-line program that creates, imports, operates and deletes
servers at Hetzner, Vultr or DigitalOcean, reachable only through Tailscale and,
if wanted, a Cloudflare tunnel. It has no daemon and no database. Its state is a
handful of JSON files under `~/.config/serverpro` and `~/.local/state/serverpro`,
advisory lock files next to them, and whatever exists at the providers. The hard
part of the program is therefore not computation but order: several commands of
one operator run at once, no transaction spans the files and the providers, every
call may fail after it took effect, and a command that died anywhere is simply
run again.

These modules model that part. They are written from the Go code under
`internal/`; comments in the modules and `PROJECT.json` (`map`) name the
functions and lines.

## Inventory

| Component | State it keeps | Operations | Correct when |
|---|---|---|---|
| Local locks (`privatefile`, `state/registry_lock.go`) | lock files, open descriptors, flocks | Lock, LockShared/ExclusiveContext, release, unlink by delete, re-creation | two commands never work on one server or write one artifact at once, whatever was deleted and created in between; nobody waits for ever |
| Server state (`state/state.go`) | one JSON file per server | Save, Update, checkpoints of create, ingress, status, ssh-policy, import, delete | no writer undoes what another reported |
| Lifecycle, create (`lifecycle`) | state file, key and policy in memory | Run and its steps, deferred clean-up of the key | a retry resumes, orders nothing twice, binds the right device |
| Delete (`cli/server_power_delete_commands.go`, `server_delete_*.go`) | approved plan, state file, local artifacts | approve, revalidate, provider delete, external deletes with checkpoints, local removal | destroys what was approved, forgets nothing, can be repeated |
| Device identity (`mesh/device.go`) | recorded device, enrolment window | ManagedDeviceQuery, SelectDevice, WaitDevice | bootstrap secrets reach the server of this state |
| Compute adapters (`provider/hetzner`, `vultr`, `digitalocean`) | servers, access policies | Create, Delete, Status, Power | retries converge; foreign resources untouched |
| Cloudflare, Tailscale clients | tunnels, keys, devices, policy document | create, list, delete, read-modify-write with ETag | lost answers are survivable |
| Import (`importsync`) | marker file, artifacts | discovery, enrichment, ordered writes, resume | an interrupted import resumes itself only, and is found by what looks for it |
| Namespace commands (`cli/namespace_*.go`) | directories, registry entries | create, delete of every server in it | only what was approved is removed; nothing appears in a namespace being deleted |
| Tailnet policy (`cli/tailnet_commands.go`, `server_ssh_policy_command.go`, `provider/tailscale/policy_*.go`) | shared policy document, per-server record | ensure, reconcile, revoke, validate | no live rule unrecorded, no needed rule pruned |
| Registry, config, credentials (`state/registry_*.go`, `config`, `credentials`, `cli/provider_flag_guard.go`) | JSON files | Upsert, Remove, SaveIfUnchanged, merge, provider guard | concurrent writers lose nothing; a token goes only to the vendor that issued it |
| Doctor (`doctor`) | one batch of readings, trust in it, scripts that ran | identify, batch, check, guard, repair, re-read, retry | a pass is true, repairs happen on evidence only, one run settles the host |
| Host steps (`lifecycle/openssh.go`, `admin_password.go`, `image_users.go`, `tunnel`, `network/egress.go`) | sudoers, passwords, accounts, connector, firewall, ssh units | the scripts of create, bootstrap and the repairs, cut off anywhere and run again | no lock-out; what a script reported is so |
| Reboot gate (`rebootgate`) | snapshot, result, two systemd units | nightly window, check after boot, doctor's reading | a gated reboot drops nothing, and silence means compared |

Interactions. Commands share the files and meet only through locks: a workflow
(create, import) takes its namespace shared and then its server; a short
update takes the local-artifact guard shared and then the lock beside its file;
a delete takes the namespace exclusively, works under the server lock, drops it,
and takes the guard exclusively to unlink files. The tailnet policy has locks of
its own. Commands and providers interact by calls that may be refused or
answered too late; servers interact with the control plane by enrolling at any
time after boot. On the host, create and doctor send scripts that run to their
end, fail, or are cut off between two commands; the reboot gate and systemd act
there on their own.

What is hard: flock on files that are unlinked; long-lived copies of the state
beside short updates; approval without locks; lost answers; crashes between an
effect and its checkpoint; enrolment that races a retry; a reading that a repair
has overtaken; a script that ends half-way on a host whose only door it is
closing; a snapshot that outlives its boot. `PROJECT.json`
(`hazards`) lists each at its line with the property that covers it or the
reason none does.

## Modules

| Module | Models | Role |
|---|---|---|
| `ServerAuthority` | what the locks promise | abstract specification |
| `LocalLocks` | the lock files and the order they are taken in | implements `ServerAuthority` |
| `...Proofs` | | theorems about the module of that name |
| `ServerState` | concurrent writers of one state file | takes exclusion of single writes from `LocalLocks` |
| `ServerLifecycle` | create and delete against providers that fail | takes the workflow lock from `LocalLocks` (`owner`) |
| `TailnetPolicy` | the policy file of a tailnet and what the states record of it | takes the policy lock from `LocalLocks` (`PolicyExclusion`) |
| `LocalArtifacts` | config, credentials, state, marker and registry of a namespace, and every command that writes or removes them | takes the holders of locks from `LocalLocks`; the remote delete, one step here, is in `ServerLifecycle` |
| `HostAccess` | the scripts of create and of the doctor repairs on one host | the step `remote` of `ServerLifecycle`, taken apart |
| `RemoteDoctor` | one run of `server doctor` against a host | its repairs are the scripts of `HostAccess` and `RebootGate` |
| `RebootGate` | the program that gates nightly reboots | installed by the step `gate` of `HostAccess` |
| `MC...` | | instances for TLC |

### ServerAuthority

Three facts per namespace and server: who shares the namespace, who has it
alone, who owns the server. A command owns a server only inside its namespace
and leaves the namespace last; a crash drops everything at once.

### LocalLocks

State: `link` (path to inode), `fd` and `mode` (per process and descriptor
slot: inode opened, flock held), and per process `phase`, `job`, `target`,
`leaf`, `tail`, `todo`. A command is described by the locks it wants in its
phase (`Wanted`); it releases what it does not want innermost first (`Release`)
and opens and locks what it lacks outermost first (`Open`, then `Flock`, two
steps as in `openLockFile` and `lockContext`), so another process can unlink the
file in between. The phases are those of the code: workflow, policy lock,
artifact update, clean-up, registry record, unwinding. `GiveUp` is a context
that ends while its command waits; writers of artifacts have none. `Crash`
closes the descriptors and leaves the files.

An inode is a generation of a path; a generation is used again once nothing
refers to it, as inode numbers are. So a stale descriptor can even meet a
recycled number.

### ServerState

State: `file`, the commands running on it with the copy each has in memory, and
two histories, `routes` (adds and removals reported to the operator) and
`granted` (last automation source written to the tailnet), which `ReportedKept`
compares with the file. One action per write:
the checkpoints of create go through `Checkpoint` (saveProvisionState: the copy
of the run, but the ingress and, once compute is recorded, the addresses of the
file), the others change their own field inside Update, import saves its
baseline whole. The locks appear as the condition `MayBegin`; that one Update is
one step is what `ServerExclusion` of `LocalLocks` provides. `ImportsAlone` says
whether the operator refrains from running commands beside an import; the locks
do not enforce it (see Further divergences). A write to the tailnet
policy and its record are one step here; `TailnetPolicy` takes them apart.

### ServerLifecycle

State: what exists (`live`, with ids in order of creation, `foreign` tunnels,
what each server was booted with, when it enrolled), the state file `disk`, the
other local artifacts, the lock `owner`, and for every process its step and its
memory as in `lifecycle.Run` (`st`, `key`, `minted`) or in the delete (`plan`).
Actions follow the code from checkpoint to checkpoint. A call is done and
answered, done with its answer lost, or not done (`Abort`); a local write fails;
a process dies; each is a fault of a kind in `Faults`, at most `Budget` of them.
The deferred revocation of the key is the step `unwind`. Enrolment is an action
of the server: with its single-use key, whenever it likes.

The enrolment window (AuthKeyCreatedAt) is the number of the key whose minting
opened it; a device records the newest key at its enrolment, which orders the
two by control-plane time.

### TailnetPolicy

State: the policy file (`policy`: tag owners, SSH rules, and the tags that other
people's tag definitions refer to), the configuration files `config`, what each
registered server records (`st`), the live `devices`, and for every command its
step, the configuration it loaded, the policy it read, and the plan and evidence
of a reconcile. The history `applied` is the configuration that the last write
for a server put in force; it is forgotten when the write was not recorded, and
when an administrator removes something, the operator edits the configuration,
or the server goes.

A write is two steps, as in `readPolicyFile` and `publishPolicyFile`: the read
takes the file, the post succeeds only while the file is what was read (the
If-Match header; a file that was changed and changed back counts as unchanged,
which loses nothing) and posts nothing when nothing changed. The record is a
step of its own after the write, then the revoke with its look at the other
servers, then the read-back. `Fail` ends a command at any step: after a
post it is a lost answer or a crash before the record. Reconcile collects its
evidence, previews, waits for the operator, plans again and refuses another plan.

Server delete, configuration edits, devices that leave, lost local files, an
import of a server whose files are gone, and administrators of the tailnet go on
meanwhile; of these only the import takes the policy lock.

Abstracted: one admin user; rules and owners as sets; the rules the read-back
refuses as unsafe (root, broad access); the registration of a server and its
first state are one step, the two reads of a preview are one step, and so are
the looks at the servers in evidence and in sharers. One tailnet, by its name: a
state without a stable tailnet identity makes reconcile refuse and changes
nothing.

The read-back (`Valid`) asks for SSH rules only. A tag owner that an
administrator removes between the write and the read-back is not noticed; that
is why `applied` counts what serverpro's own commands do and is forgotten at the
removal.

### LocalArtifacts

State: per server the config (the set of edits it contains), the credentials
(token with the vendor that issued it, the vendor recorded beside it, a version
for all other secrets), the state file and the import marker; the registry's
entries and whether it lists the namespace; the compute servers that exist; who
holds the locks; and per command its step and what it has in memory. The
commands are server create up to its first order, server import, every command
that stores a secret on an existing server, server delete, namespace create and
namespace delete. Each write or removal of one file is a step, in the order of
the code: marker, config, credentials, state, registry, marker gone for an
import; config, marker, state, credentials, registry for a delete. `Stop` ends a
command between any two steps (an error, an interrupt, a crash; the deferred
unlocks run, or the kernel's). An operator edits a config or loses a state file.

Read-then-write pairs stay apart: `SnapshotConfig` reads the config before the
workflow lock and `SaveConfig` writes only over the bytes that were read;
`AskCredentials` loads, asks, and `MergeCredentials` fills the gaps of what is
stored by then; `ApproveNamespace` reads before the question and
`RevalidateNamespace` compares under the exclusive lock. `StateIsRouted` says
why the orders are what they are: a state file always has a registry entry or a
marker, so a retry finds it.

### HostAccess

State: the admin's password, the sudoers files (each the set of forms its rules
have), the image account, the connector (trust, source, build, receipt, unit,
running process), the firewall, the gate, the ssh units with the record of what
they were, and what relies on sshd or on a route to it. A script is a chain of
actions, one per command that changes the host, `Cut` ends it anywhere, and each
of them may fail with the roll-back the script has (`Restored` for sudoers).
create runs all that are due in the order of lifecycle.Run and may start again;
`bootstrap` runs tools and lockdown; `fix` runs one, as doctor does. The history
`kept` holds the facets a script vouched for. Everything an operator can do to
the same facets happens in between.

Assumed: nobody edits sudoers between the last reading of the removal and its
userdel, or adds a route between the check and the script; the grant of the first boot is
left to the scripts, so what an operator adds is never that file; a script whose
connection is cut does not run on. `PhaseLockdownAfterBootstrap` is taken as on.

### RemoteDoctor

State: the host as a record of facets, the batch's reading of it (`base`), the
checks whose output was lost or too long (`errors`), whether repairs are still
allowed (`trusted`), the scripts that ran, and one verdict per check in the
order of remoteCheckSpecifications. A check judges its line of the baseline, or
reads live when a repair named in its refreshAfterLive ran (`Refreshed`,
`Source`); a repair is guarded, sent, and the check read again. The host is
first the sound host with up to `Drifts` drifts (`Drift`, `Drifted`), each
another value of one facet, so that drifts meet whose repairs touch one another.
The order of the checks is `Opening`, `Software`, the two lockdown checks if the
configuration asks for them, `Closing`, and the two checks of the tunnel or of
the ingress. `Judge` runs over the checks up to the next repair in one step,
because nothing they read changes; routes at Cloudflare may be added at any time.

### RebootGate

State: which workloads run, how each is declared, the snapshot (its boot, age
and names), the result, the window and the check with their steps. A window
judges (`Gaps`), writes the snapshot, reboots; a boot brings back what systemd
and docker restart; the check waits, starts what is missing once, waits again,
writes its result and retires the snapshot. Each of these steps may fail or be
cut off, hosts crash, operators stop and start and declare workloads and reboot
by hand. Time is in hours up to the age limit of a snapshot. The histories
`idle`, `ran`, `owed` and `touched` serve the properties.

## Runs

| Run | Bounds | Shows |
|---|---|---|
| `locks` | 2 commands of five kinds (`artifact` takes a part of the locks of `create`), 2 namespaces with a server each, artifacts credentials and registry, 2 generations per path | `TypeOK`, `ServerExclusion`, `NoStrandedDescriptor`, `UnlinkOnlyClosed`, and that LocalLocks implements ServerAuthority (`KeepsAuthority`) |
| `locks_live` | 2 commands of three kinds, a server, tailnets `-` and `t1` | `PolicyExclusion`; under fairness `EveryWaitEnds` |
| `state_writers` | 3 commands at once, 2 routes, 2 addresses, 1 automation source; import alone | `TypeOK`, `ReportedKept`, `OwnFieldsOnly` |
| `lifecycle` | 2 operators, 2 resources of a type, 2 creates, 2 faults of any kind, deletes unbounded | `TypeOK`, `NothingForgotten`, `ForeignTunnelsSurvive`, `AtMostOneServer`, `FirstBindIsOwn` |
| `lifecycle_live` | 2 operators, 1 create, 2 faults, deletes unbounded | `DeleteCompletes` |
| `lifecycle_stray` | 1 operator, 3 creates, 2 crashes | `SecretsToOwnServer` violated |
| `policy` | 2 commands, 2 servers with a shared tag and one of their own, 2 configurations each, 1 edit by operator or administrator, everything else unbounded | `TypeOK`, `AccessKept`, `NoLostEdit`, `ReconcileSpares` |
| `policy_revoke` | the same | `RevokesOnlyUnrecorded` violated |
| `artifacts` | 2 servers, 2 vendors, 3 acts (commands of any kind, at most 1 edit, at most 1 lost state file), 2 commands at a time, 1 stops early, 2 compute ids, 2 versions of the secrets | `TypeOK`, `StateIsRouted`, `TokenGoesHome`, `StateOutlivesServer`, `DeletesApprovedOnly`, `EditsKept`, `SecretsKept` |
| `doctor` | every host with at most 2 drifts out of 36 facets (1 in a run without --fix, which repairs nothing), all options, 2 configurations, 1 fault | `TypeOK`, `RefreshedPassHolds`, `OneRunSettles`, `TrustedRepairs` |
| `host` | a new and an older host, 2 passwords, 2 configurations, 5 sudoers rules, 6 uses of sshd, 1 failure or cut and 1 act of the operator, runs unbounded | `TypeOK`, `WayBack`, `PromisesHold`, `NoRuleOutlivesAccount`, `SshdUnused` |
| `reboot` | 2 services of which one wants the other, a container, a session, 2 declarations to begin with, 2 failures, 1 act of the operator, age limit 1 hour, nights and boots unbounded | `TypeOK`, `QuietMeansChecked`, `GatedRebootDropsNothing`, `LongStoppedStaysDown` |

Why the bounds are enough. Lock hazards are between a holder or waiter and a
deleter, so two processes show them. All safety properties of `LocalLocks`, and
those of the seven modules beside it, are proved for any number of everything
(see Proofs). Two generations let a path be unlinked and made again while somebody
still has the old inode. Three state writers are a long create and two short
ones. In the lifecycle, two creates are an attempt and its retry, two resources
of a type are the attempt's and the retry's; a further create fails to make
anything and adds only the paths of a rerun. Two faults are a failure and a
failure of what repairs it. In the policy two servers are one that shares a rule
and one that revokes it, or one whose record protects and one whose tags are
stale; the commands exclude each other, so two processes are a command and its
successor. The operators' and administrators' edit is what a write can miss
or a revoke can misread: one is enough for either, and deletes, imports and
leaving devices come on top of it. Processes that are interchangeable are
declared so (`Symmetry`), and so are servers and vendors in `artifacts`.

In `artifacts` three acts are a command that stops half-way, one that meets what
it left, and one beside it; two servers are the one approved and the one that
appears; two vendors are the right and the wrong one. In `doctor` two drifts are
one whose repair disturbs another check and the drift of that check; a third
independent drift repeats a pair. In `host` a failure and an act of the operator
are what a rerun has to find right; larger instances were run once and add no
violation (two failures, 3.9 million states; two acts with one password, 5.7
million). In `reboot` an hour of age limit tells fresh from stale, an act is a
stop, a start, a declaration or a reboot, and two failures are a cut and a
failure of what comes after it; two acts with one failure were run once (3.0
million states) and add no violation.

Deadlock is checked in `locks`, `locks_live`, `state_writers`, `policy`, `host`
and `reboot`. Elsewhere the system may really stop: in the lifecycle runs and in
`artifacts` the commands are bounded and when the last server is deleted nothing
is left to do; a doctor run ends. These say CHECK_DEADLOCK FALSE.

Fairness. In `LocalLocks` a command that can open, release or exit does (weak
fairness: it is a running process); a lock that is free again and again is
obtained (strong fairness: lockContext retries every 10 ms, Lock blocks in the
kernel's queue); and every piece of work under a lock ends (strong fairness of
`Finish`: provider calls and waits have deadlines). In `ServerLifecycle` each
command takes its next step if it can, and the operator repeats a delete; all
weak. Nothing makes a create happen or a fault not happen; faults are finite.

## Findings

Two disagreements between the code and its documentation are runs that TLC
refutes.

- `lifecycle_stray`. A delete that got through its external clean-up but not the
  local removal leaves a state with the compute recorded and neither device nor
  window. `create` then binds any device of the name, against the comment on
  waitTailscaleDevice. A server that a crashed attempt left behind has such a
  device. Binds inside an open window are right (`FirstBindIsOwn`).
- `policy_revoke`. `ssh-policy` with automation off looks for other servers that
  record the automation source and compares the tags of their current
  *configuration*, not the tags their state records. When the operator has edited
  `ssh_tags` of another server and not yet applied it, the command revokes the
  rule that this server records and still relies on, against USAGE.md
  ("removes the rule only when no other registered server on the tailnet records
  it"). With the configurations unedited nothing is taken away (`AccessKept`).

### Further divergences

These are smaller; each has a configuration that reproduces it
(`tlc -config X.cfg M`), kept beside the runs.

- `MCServerStateImport.cfg` (`ReportedKept`). A forced or resumed import reads
  the existing state before discovery (importsync/import.go:136) and saves it
  whole afterwards. A route that `ingress add` reports in between is lost,
  against ARCHITECTURE.md:575-578 on read-modify-write updates.
- `MCServerLifecycleEarly.cfg` (`DeleteAcceptsEarlyFailure`). A create that fails
  before compute leaves state that `server delete` refuses ("provider server id
  missing", provider/hetzner/compute.go:193), against the comment in
  initializeProvisionState. A rerun of create gets out of it.
- `MCServerLifecycleStale.cfg` (`NoStaleWriter`). The approval of a delete may
  write the credentials file (cli/server_delete_cleanup.go:66) after another
  delete removed everything, because it holds no namespace lock; against
  ARCHITECTURE.md:579-583.
- `MCLocalArtifactsImport.cfg` (`ImportKeepsSecrets`). Only where a state file
  exists is the existing credentials file the baseline of a forced import
  (importsync/import.go:135). When the state is lost and the other files are in
  place, the import writes an empty set over the stored service tokens, against
  USAGE.md ("preserves existing service tokens when replacements are omitted").
- `MCLocalArtifactsRetry.cfg` (`NamespaceDeleteRetries`). A namespace delete
  removes the registry entry of a server without a state file and leaves that
  server's config and credentials (cli/namespace_delete.go:232); when a later
  server fails, the retry refuses, because they have no registry authority
  (:109), against USAGE.md ("so the operation can be retried").
- `MCRemoteDoctorStale.cfg` (`PassIsCurrent`). The check of the firewall's ssh
  ingress keeps its baseline although a repair before it can enable ufw with the
  rule in place (doctor/remote_specifications.go:46), and passes on a host where
  it would now fail; the comment at doctor/remote_checks.go:26 says that such
  checks re-read live. Checks that name the repairs they depend on are right
  (`RefreshedPassHolds`). The next run finds it.
- Read, not run: when the removal of the image account stops a second time, the
  undo command it prints restores the values that the first lock set
  (lifecycle/image_users.go:312-331), not those before it.

## Proofs

Each theorem below holds for every value of the constants that satisfies the
module's named assumptions: any number of processes, servers, tags, resources,
creates, faults and drifts. Each safety invariant is proved from an inductive
one, with one step per action; action properties follow from the same invariant,
step by step. `LifeInv`, `ArtifactInv` and the four parts of the doctor's
invariant, the least obvious ones, were model-checked on the instances of the
runs `lifecycle`, `artifacts` and `doctor` before they were proved.

The assumptions are what the code fixes: sentinels are no ordinary values
(`NoServer`, `NoGeneration`, `None`, `Missing`, `NoState`, `NoFile`); a server
lies in one namespace; a namespace has finitely many servers, and what an
operator types contains a secret (`ServerAssumption`, `Secrets` at least 1); the
configuration of a server names at least one tag (`TagsOf`), and the
automation's own tag is none of them; the operator of a host does not write the
first boot's sudo grant (`HostAssumption`); the service that wants another is
itself wanted by none (`WorkloadAssumption`, chains of one); a server that
doctor looks at has a lockdown or not and a tunnel or not (`ConfigsAssumption`).

Three theorems have a hypothesis besides. The two of `ServerState` about reports
hold where `ImportsAlone`: the locks do not enforce it, and
`MCServerStateImport.cfg` shows what happens without. `NoSecondServer` holds
where `AttachmentVisible`: DigitalOcean selects a firewall's servers by tag and
reports no attachment, so a lost order is not seen there (hazards). Every other
theorem about the lifecycle holds for either value.

| Module | Theorem | States |
|---|---|---|
| `LocalLocksProofs` | `TypeCorrect`, `LockInvariant` | `TypeOK`, `LockInv` |
| | `NeverStranded` | `NoStrandedDescriptor` |
| | `ServersExclusive` | `ServerExclusion` |
| | `PoliciesExclusive` | `PolicyExclusion` |
| | `UnlinksOnlyClosed` | `UnlinkOnlyClosed` |
| | `LocksKeepAuthority` | `KeepsAuthority`: the refinement of `ServerAuthority` |
| `ServerStateProofs` | `StateInvariant`, `TypeCorrect` | `StateInv`, `TypeOK` |
| | `RoutesAndSourceKept` | `ReportedKept`, imports alone |
| | `WritesOwnFields` | `OwnFieldsOnly`, imports alone |
| `TailnetPolicyProofs` | `AccessInvariant`, `TypeCorrect` | `AccessInv`, `TypeOK` |
| | `NoEditLost` | `NoLostEdit` |
| | `ReconcileSparesRecorded` | `ReconcileSpares` |
| | `AccessIsKept` | `AccessKept` |
| `ServerLifecycleProofs` | `LifeInvariant`, `TypeCorrect` | `LifeInv`, `TypeOK` |
| | `NothingIsForgotten` | `NothingForgotten` |
| | `ForeignTunnelsAreSpared` | `ForeignTunnelsSurvive` |
| | `NoSecondServer` | `AtMostOneServer`, attachments visible |
| | `BindsFirstItsOwn` | `FirstBindIsOwn` |
| `LocalArtifactsProofs` | `ArtifactInvariant`, `TypeCorrect` | `ArtifactInv`, `TypeOK` |
| | `StatesAreRouted` | `StateIsRouted` |
| | `TokensGoHome` | `TokenGoesHome` |
| | `StatesOutliveServers` | `StateOutlivesServer` |
| | `DeletesWhatItApproved` | `DeletesApprovedOnly` |
| | `EditsAreKept` | `EditsKept` |
| | `SecretsAreKept` | `SecretsKept` |
| `HostAccessProofs` | `HostInvariant`, `TypeCorrect` | `HostInv`, `TypeOK` |
| | `AlwaysAWayBack` | `WayBack` |
| | `ReportsStayTrue` | `PromisesHold` |
| | `RulesGoWithAccount` | `NoRuleOutlivesAccount` |
| | `SshdStopsUnused` | `SshdUnused` |
| `RebootGateProofs` | `GateInvariant`, `TypeCorrect` | `GateInv`, `TypeOK` |
| | `QuietOnlyWhenChecked` | `QuietMeansChecked` |
| | `RebootsDropNothing` | `GatedRebootDropsNothing` |
| | `LongStoppedStays` | `LongStoppedStaysDown` |
| `RemoteDoctorProofs` | `Typed` | `TypeOK` |
| | `RepairsTrusted` | `TrustedRepairs` |
| | `PassesHold` | `RefreshedPassHolds` |
| | `RunSettles` | `OneRunSettles` |

### The arguments

**Locks.** `ServerExclusion` is not inductive. Two commands with the flock on one
path conflict only if they have the same inode, so exclusion needs
`NoStrandedDescriptor`; that one survives an unlink only because nobody has a
removable file open while a clean-up holds the guard. `LockInv` is therefore the
conjunction of: `TypeOK`; `Compatible` (locks held on one inode are compatible);
`ModesRight` (a lock is held in the mode its slot asks for); `Guarded` (a
descriptor of a removable file implies the guard held shared by the same
command); `Phases` (what a command may hold in each phase, in particular that a
clean-up that unlinks holds the guard exclusively); and `NoStrandedDescriptor`.
The unlink step is the heart: the deleter has the guard exclusively, by
`NoStrandedDescriptor` and `Compatible` nobody else has it shared, so by
`Guarded` nobody has the file open.

For the refinement, sharing, excluding and owning are read off the locks held on
the namespace and the server. Opening, and locks on other files, are stutters;
locking, release and crash are the abstract steps. That a server's lock is held
only inside its namespace, and released before it, is `OwnsInside`.

**State file.** A create keeps a copy of the state for its whole run. That its
checkpoints put back nothing old rests on two facts: `Checkpoint` takes the
fields of the short commands from the file, and the locks keep everybody off the
fields that it takes from the copy. `StateInv` is `LocksInv` (types, arguments,
who runs beside whom), `CopyIsFile` (the fields a copy will write are those of
the file) and `Recorded` (`ReportedKept`, and nothing is on
record of a server without a state file).

**Tailnet policy.** The lock keeps commands apart, so the proofs are about what
happens beside it. `JobInv` says what a command has in hand at each step and that
states which protect a tag only go while a reconcile waits (`EvidenceHolds`), so
its evidence protects too much at worst. `AccessInv` adds that what is in force
for a server is its configuration and recorded, but for the moment between write
and record (`AppliedRight`), that a state records all tags of its server or none
(`TagsWhole`), that a command which goes on to revoke has seen nobody else rely
on the rule and nobody can since (`RevokeRight`), and that access is there from
the write on (`AllInForce`), which is stronger than `AccessKept`: that speaks of
complete servers.

**Lifecycle.** The memory of the running command decides, because it is saved
again and again, also by a create that fails. So it must carry every live
resource that was ever recorded (`Carried`), the key that a server may still
enrol with (`KeysInMind`) and, as long as only calls fail, the policy that every
server is attached to (`PoliciesInMind`; with it a retry finds the server that a
lost answer hid). `InMind` says how memory and disk differ at each step between a
call and its checkpoint, `Removing` what a delete has already destroyed.
`LifeInv` joins these, for the holder of the locks, with what holds whoever runs:
`Shape` (types, phases, numbering, well-formed states), every owed resource on
disk, `KeysOnDisk` and `OneServer`. `ForeignTunnelsSurvive` needs
from `States` that an owned tunnel on record was never foreign.

**Local artifacts.** `ArtifactInv` says for each command what it found and has
written (`CreateRight`, `ImportRight`, `DeleteRight`, `NamespaceRight`), that it
has its locks past its first step (`Locked`), and for each server that a
recorded vendor is the token's, an unrecorded one the state's (`TokenRight`), and
`Routed`, which is `StateIsRouted`. Three lemmas keep the proof to one step per
action. A delete past its approval is alone (`DeletingKeeps`). Workflows that
run together are of different servers, and none runs beside a delete
(`WorkingKeeps`). What needs no lock, approvals that fill credentials, stored
secrets, edits and lost states, disturbs nothing that the others rely on
(`FreeKeeps`). `TokenGoesHome` needs `TokenRight` and `CreateRight` together: an
approval may fill in a token while a create is between its check and its order,
but only one of the state's vendor, which the check found to be the create's.
`DeletesApprovedOnly` needs, besides the revalidation under the lock, that no
file can appear later for a server without files and entry (`NothingAppears`).

**Host.** `HostInv` has one part per facet: `SudoRight`, `UsersRight`,
`ConnectorRight`, `EgressRight`, `GateRight`, `OpensshRight`, and `JobTyped` for
what a run has in hand. Each says what the script relies on between two of its
commands and what it left when it vouched. For `WayBack`: the password is set
before the grant of the first boot goes, and ssh units change only once their
record is written. A removal of the image account has locked it first, nothing
logs in as it once its processes were looked for, and no backup of the password
script names an account that is removed: else a roll-back would bring its rules
back.

**Reboot gate.** `GateInv` joins three arguments: what the window saw comes back
unless the operator touched it (`SeenReturns`), what a snapshot names has not
been down for longer than the snapshot is old (`AgesAgree`), and what a boot found
in a snapshot is compared, or doctor warns (`OwedAnswered`).

**Doctor.** Two facts about the code carry all four theorems. The checks come in
a fixed order (`Rank` is the place of a check in it, whatever the configuration),
and a repair only ever settles what it changes (`Keeps`), except for the ssh
units, which a restart of sshd may fail. So the host is at all times a settled
form of the baseline (`Settled`), and for the checks that name their repairs a
reading that a repair has overtaken is wrong in one direction only: it may still
find what is gone. The invariant has four parts.

- `WellTyped`: types, and that repairs are trusted only under --fix with a whole
  baseline.
- `Trusting`: while a repair is under way the baseline was read on Ubuntu, and the
  token check stands there only for a rejected or absent token; the host is
  settled from the baseline. `TrustedRepairs` needs the latter too: it
  speaks of the token on the host, the check saw the one of the batch.
- `Passing`: each pass of a check that names its repairs holds on the host. No
  later repair finds anything new for it; the units are the one case in which
  that is not `Keeps` but the order: both checks that restart sshd come before
  the check of the units, which then reads live, and turning OpenSSH off heals
  them.
- `Settling`: a run with no gap, fault or route, on a host that doctor can repair,
  is `Orderly`. The scripts that ran belong to earlier checks; the settings of
  sshd and the lockdown are in place once their script ran, which is what the
  second check of the same script finds; ufw is active and no rejected token is
  left when the repairs come that need it. So each check that wants its repair
  gets it, the repair succeeds (`RepairMends`), and its second reading is clean
  enough.

For the check of the firewall's ssh ingress this fails: on a settled host, ufw
active again, it finds a rule that it did not find before. That is how
`PassIsCurrent` is refuted (Further divergences).

### Only model-checked

Liveness under fairness (`EveryWaitEnds`, `DeleteCompletes`) and ENABLED are out
of the prover's reach. What the findings and divergences refute has no theorem.
Every invariant and every other action property of a passing run is proved.

## Plan

1. `LocalLocks` with `ServerAuthority` and its proofs; `ServerState`;
   `ServerLifecycle`; `TailnetPolicy`. Done.
2. `LocalArtifacts`, `HostAccess`, `RemoteDoctor`, `RebootGate`. Done.
3. Proofs: all safety properties of the eight modules above, and the refinement
   of `ServerAuthority`. No module declares a RECURSIVE operator. Done.
4. The grader of sudoers rules (doctor/remote_sudoers.go) and the adapters'
   details (firewall rules, DigitalOcean without an attachment check) as
   operators and variants.

## Not modelled

Text generation (cloud-init beyond the state it leaves, the wording of scripts
and previews), the grader of sudoers rules, provider checks of doctor other than
the device identity, logs and reports, catalogs, power and status, migration of
old files, the test and release tooling. They are pure, read-only, or out of
TLC's reach.

Within the modelled parts: names, tags, ownership labels and wording are
abstracted to identity, and failures of local system calls in `LocalLocks` other
than a refused lock are left out. Known limits of the host models, where the code
has an exposure that no property speaks of:

- `ufw default deny outgoing` precedes the allow rules (network/egress.go:68); a
  cut between them leaves a host that reaches nothing until the script runs
  again. HostAccess has the state; WayBack is about sudo and ssh, not about the
  network.
- A repair of the connector that is cut between reinstall and restart leaves the
  old process running while the check of the package passes; `enable --now` of a
  rerun does not restart it. PromisesHold does not count that process, because
  no script vouched for it.
- After the image account was removed by hand, its uid is not known and rules
  for it are not looked for. A record of the ssh units that was kept through a
  return to OpenSSH may be older than the units.
- `gh auth login` by an operator between the batch and the repair of the
  GitHub token is overwritten; RemoteDoctor has nobody else on the host.
- The window and the check of one boot are not mutually excluded by a lock
  (serverpro-reboot.sh:522 and :714); RebootGate lets the timer fire only while
  no check runs, which systemd's limits make the normal case. Two static services
  that want each other pass service_comes_back; RebootGate has chains of one. A
  `systemctl reboot` whose answer times out takes the snapshot with it, so its
  boot is not compared, and `owed` says so. What an operator stops between
  snapshot and reboot may be started again after the boot.
