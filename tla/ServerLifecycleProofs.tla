------------------------ MODULE ServerLifecycleProofs ------------------------
(***************************************************************************)
(* What holds of ServerLifecycle for any number of commands, resources,    *)
(* creates and faults of any kind.                                         *)
(*                                                                         *)
(* The state that a command has in memory is what decides: it is saved     *)
(* again and again, also by a create that fails.  It must carry every      *)
(* live resource that was ever recorded (Carried), the key that a server   *)
(* may still enrol with (KeysInMind) and, as long as only calls fail, the  *)
(* policy that every server is attached to (PoliciesInMind).               *)
(***************************************************************************)
EXTENDS ServerLifecycle, FiniteSetTheorems, TLAPS

-----------------------------------------------------------------------------
(* The invariant *)

CreateSteps == {"makeTunnel", "saveTunnel", "oldKey", "mint", "saveKey", "makePolicy", "makeServer",
                "lookUp", "saveServer", "savePartial", "bind", "saveDevice", "remote", "finish",
                "complete"}
DeleteSteps == {"server", "policy", "device", "tunnel", "key", "rmConfig", "rmState", "refused"}
BeforeMint == {"makeTunnel", "saveTunnel", "oldKey", "mint"}
Bound == {"bind", "saveDevice", "remote", "finish", "complete"}
Unsaved == {"saveTunnel", "saveKey", "saveServer", "savePartial", "saveDevice"}

Cleaning(p) == at[p] = "unwind" /\ minted[p] /\ key[p] # 0
(* The state that p has in memory may still be saved, or decides.           *)
Carries(p) == at[p] \in CreateSteps \union DeleteSteps \/ Cleaning(p)

(* Commands are at the steps of their kind, and a create holds the locks    *)
(* until it returns.                                                        *)
Phases ==
    \A p \in Proc :
        /\ kind[p] = "idle" <=> at[p] = "idle"
        /\ at[p] \in CreateSteps \union File \union {"init"} => kind[p] = "create"
        /\ at[p] \in DeleteSteps \union {"authorize", "await", "rmCredentials", "rmRegistry"}
             => kind[p] = "delete"
        /\ minted[p] => kind[p] = "create" /\ owner = p
        /\ at[p] \in File \union {"init"} \union BeforeMint => ~minted[p]

(* Resources are numbered as they are made.                                 *)
Known(r) == IF r[1] = "device" THEN joined[r[2]] # 0 ELSE r[2] <= made[r[1]]
Numbered ==
    /\ \A r \in live \union recorded : Known(r)
    /\ \A t \in foreign : t <= made["tunnel"]
    /\ \A p \in Proc : policy[p] <= made["policy"] /\ key[p] <= made["key"]
    /\ \A s \in 1 .. Ids : /\ boot[s].key <= made["key"] /\ joined[s] <= made["key"]
                           /\ joined[s] # 0 => s <= made["server"]

(* A state file names what was made, binds a device only of a recorded      *)
(* server and once the window is closed, and owns no foreign tunnel.        *)
Sound(x) ==
    /\ x.server <= made["server"] /\ x.policy <= made["policy"] /\ x.tunnel <= made["tunnel"]
    /\ x.key <= made["key"] /\ x.window <= made["key"]
    /\ x.device # 0 => joined[x.device] # 0 /\ x.server # 0 /\ x.window = 0
    /\ x.window # 0 => x.key \in {0, x.window}
    /\ x.origin = "created" /\ x.tunnel # 0 => x.tunnel \notin foreign
States == (disk # NoState => Sound(disk)) /\ \A p \in Proc : Sound(st[p])

(* Nothing live that was recorded is missing, from disk or from the memory  *)
(* of the command that holds the locks.                                     *)
Owed == recorded \intersect live
Carried(p) == Carries(p) => disk # NoState /\ Owed \subseteq Refs(st[p])

(* What the holder of the locks has in memory, step by step.                *)
InMind(p) ==
    /\ at[p] \in (CreateSteps \ Unsaved) \union DeleteSteps => st[p] = disk
    /\ at[p] = "mint" => st[p].server = 0 /\ st[p].key = 0
    /\ at[p] = "saveTunnel" => /\ st[p].key = disk.key /\ st[p].window = disk.window
                               /\ st[p].server = disk.server /\ st[p].policy = disk.policy
    /\ at[p] = "saveKey" => disk.key = 0 /\ disk.server = 0 /\ st[p].policy = disk.policy
    /\ at[p] \in {"saveServer", "savePartial"} =>
         /\ disk.key = st[p].key /\ disk.server = 0 /\ disk.policy \in {0, policy[p]}
         /\ policy[p] # 0 /\ st[p].policy = policy[p]
    /\ at[p] = "saveServer" => st[p].server # 0
    /\ at[p] = "saveDevice" => disk.key = st[p].key /\ disk.policy = st[p].policy
    /\ at[p] \in {"saveKey", "makePolicy", "makeServer", "lookUp"} => st[p].server = 0
    /\ at[p] \in {"saveKey", "makePolicy", "makeServer", "lookUp", "saveServer", "savePartial"} =>
         key[p] # 0 /\ st[p].key = key[p] /\ st[p].window = key[p]
    /\ at[p] \in {"makeServer", "lookUp"} => policy[p] # 0 /\ st[p].policy \in {0, policy[p]}
    /\ at[p] \in Bound => st[p].server # 0 /\ st[p].key \in {0, key[p]}
    /\ minted[p] /\ key[p] # 0 =>
         /\ st[p].key \in {0, key[p]} /\ st[p].window \in {0, key[p]}
         /\ disk.key \in {0, key[p]}

(* What a delete has removed is gone.                                       *)
Removing(p) ==
    /\ at[p] \in {"policy", "device", "tunnel", "key", "rmConfig", "rmState"} =>
         ~Live("server", st[p].server)
    /\ at[p] \in {"device", "tunnel", "key", "rmConfig", "rmState"} => ~Live("policy", st[p].policy)
    /\ at[p] \in {"tunnel", "key", "rmConfig", "rmState"} => st[p].device = 0
    /\ at[p] \in {"key", "rmConfig", "rmState"} => ~OwnsTunnel(st[p])
    /\ at[p] \in {"rmConfig", "rmState"} => st[p].key = 0

(* A server enrols only with the key on disk, and within a window only the  *)
(* server that was made with its key.                                       *)
MayEnrol(s) == Live("server", s) /\ joined[s] = 0 /\ Live("key", boot[s].key)
Windowed(x) ==
    x.window # 0 =>
        /\ \A s \in 1 .. Ids : joined[s] >= x.window => boot[s].key = x.window
        /\ x.server # 0 => \A s \in 1 .. Ids : boot[s].key = x.window => s = x.server
KeysOnDisk ==
    /\ \A s \in 1 .. Ids : MayEnrol(s) => disk # NoState /\ boot[s].key = disk.key
    /\ disk # NoState => Windowed(disk)
KeysInMind(p) ==
    /\ Carries(p) => Windowed(st[p])
    /\ at[p] \in {"saveKey", "makePolicy", "makeServer"} => \A s \in 1 .. Ids : boot[s].key # key[p]
    /\ at[p] = "lookUp" => \A s \in 1 .. Ids : boot[s].key = key[p] => Live("server", s)

(* As long as only calls failed, every server is attached to the policy on  *)
(* disk, or to the one whose order is under way.                            *)
CallsFail == AttachmentVisible /\ seen \subseteq {"abort", "lost"}
Ordering(p) == owner = p /\ at[p] \in {"lookUp", "saveServer", "savePartial"}
OneServer ==
    CallsFail =>
        /\ \A s, t \in AllLive("server") : s = t
        /\ \A s \in AllLive("server") :
             \/ disk # NoState /\ disk.policy # 0 /\ boot[s].policy = disk.policy
             \/ \E p \in Proc : Ordering(p) /\ boot[s].policy = policy[p]
PoliciesInMind(p) ==
    CallsFail =>
        /\ at[p] \in {"makeServer", "device", "tunnel", "key", "rmConfig", "rmState"} =>
             AllLive("server") = {}
        /\ Cleaning(p) => st[p].policy = disk.policy

Shape == TypeOK /\ Phases /\ Numbered /\ States
Held(p) == Carried(p) /\ InMind(p) /\ Removing(p) /\ KeysInMind(p) /\ PoliciesInMind(p)
LifeInv ==
    /\ Shape
    /\ Owed \subseteq Refs(disk) /\ KeysOnDisk /\ OneServer
    /\ \A p \in Proc : owner = p => Held(p)
-----------------------------------------------------------------------------
LEMMA RefsTyped == ASSUME NEW x \in State PROVE Refs(x) \subseteq Resource
<1>1. x # NoState
  BY NoStateAssumption
<1> QED BY <1>1, BoundsAssumption DEF Refs, Resource, OwnsTunnel, State, Type, Id
LEMMA InRefs ==
  ASSUME NEW x \in State, NEW r \in Resource
  PROVE  r \in Refs(x) <=> \/ r = <<"server", x.server>>
                           \/ r = <<"policy", x.policy>>
                           \/ r = <<"device", x.device>>
                           \/ r = <<"key", x.key>>
                           \/ r = <<"tunnel", x.tunnel>> /\ x.origin = "created"
<1>1. PICK t \in Type, i \in 1 .. Ids : r = <<t, i>>
  BY DEF Resource
<1>2. i # 0
  OBVIOUS
<1>3. x # NoState
  BY NoStateAssumption
<1>4. Refs(x) = {<<type, x[type]>> : type \in {y \in Type \ {"tunnel"} : x[y] # 0}}
             \union {y \in {<<"tunnel", x.tunnel>>} : OwnsTunnel(x)}
  BY <1>3 DEF Refs
<1>5. r \in Refs(x) <=> (t # "tunnel" /\ x[t] = i) \/ (t = "tunnel" /\ x.tunnel = i /\ OwnsTunnel(x))
  BY <1>1, <1>2, <1>4
<1>6. t \in {"server", "policy", "device", "tunnel", "key"}
  BY DEF Type
<1> QED BY <1>1, <1>2, <1>5, <1>6 DEF OwnsTunnel, State
-----------------------------------------------------------------------------
(* Resources and states *)

(* Calls make resources and never undo what they made known.                *)
Grows ==
    /\ \A t \in Type : made[t] <= made'[t]
    /\ \A s \in 1 .. Ids : joined[s] # 0 => joined'[s] # 0
    /\ \A t \in foreign' : t \in foreign \/ made["tunnel"] < t
Calm == live' \subseteq live /\ UNCHANGED <<made, foreign, boot, joined>>

LEMMA CalmGrows == ASSUME TypeOK, Calm PROVE Grows
  BY DEF TypeOK, Calm, Grows, Id

LEMMA SoundStays ==
  ASSUME TypeOK, TypeOK', Grows, NEW x \in State, Sound(x)
  PROVE  Sound(x)'
<1>1. \A t \in Type : made[t] \in Nat /\ made'[t] \in Nat /\ made[t] <= made'[t]
  BY DEF TypeOK, Grows, Id
<1>2. /\ x.server <= made'["server"] /\ x.policy <= made'["policy"] /\ x.tunnel <= made'["tunnel"]
      /\ x.key <= made'["key"] /\ x.window <= made'["key"]
  BY <1>1 DEF Sound, State, Type, Id
<1>3. x.device # 0 => joined'[x.device] # 0
  BY DEF Sound, Grows, State, Id
<1>4. x.origin = "created" /\ x.tunnel # 0 => x.tunnel \notin foreign'
  BY <1>1 DEF Sound, Grows, State, Type, Id
<1> QED BY <1>2, <1>3, <1>4 DEF Sound

LEMMA KnownStays ==
  ASSUME TypeOK, TypeOK', Grows, NEW r \in Resource, Known(r)
  PROVE  Known(r)'
<1>1. \A t \in Type : made[t] \in Nat /\ made'[t] \in Nat /\ made[t] <= made'[t]
  BY DEF TypeOK, Grows, Id
<1>2. r[1] \in Type /\ r[2] \in 1 .. Ids
  BY DEF Resource
<1> QED BY <1>1, <1>2 DEF Grows, Known, Id

(* The numbers of what is live and recorded, after a step that leaves at    *)
(* most x in memory and on disk.                                            *)
LEMMA ShapeKept ==
  ASSUME Shape, TypeOK', Phases', Grows, NEW x \in State, Sound(x)',
         \A q \in Proc : st'[q] \in {st[q], x}, disk' \in {disk, x, NoState},
         recorded' \subseteq recorded \union Refs(x), \A r \in live' \ live : Known(r)',
         \A t \in foreign' : t <= made'["tunnel"],
         \A q \in Proc : policy'[q] <= made'["policy"] /\ key'[q] <= made'["key"],
         \A s \in 1 .. Ids : /\ boot'[s].key <= made'["key"] /\ joined'[s] <= made'["key"]
                             /\ joined'[s] # 0 => s <= made'["server"]
  PROVE  Shape'
<1>1. ASSUME NEW r \in live' \union recorded' PROVE Known(r)'
  <2>1. r \in Resource
    BY DEF TypeOK
  <2>2. CASE r \in live \union recorded
    BY <2>1, <2>2, KnownStays DEF Shape, Numbered
  <2>3. CASE r \in Refs(x)
    BY <2>1, <2>3, InRefs DEF Known, Sound, Resource
  <2> QED BY <2>2, <2>3
<1>2. Numbered'
  BY <1>1 DEF Numbered
<1>3. \A y \in State : Sound(y) => Sound(y)'
  BY SoundStays DEF Shape
<1>4. disk' # NoState => Sound(disk)'
  <2>1. CASE disk' = disk
    BY <2>1, <1>3 DEF Shape, TypeOK, States, Sound
  <2> QED BY <2>1 DEF Sound
<1>5. \A q \in Proc : Sound(st[q])'
  <2> SUFFICES ASSUME NEW q \in Proc PROVE Sound(st[q])'
    OBVIOUS
  <2>1. st[q] \in State /\ st'[q] \in {st[q], x}
    BY DEF Shape, TypeOK
  <2>2. PICK y \in State : y = st[q]
    BY <2>1
  <2>3. Sound(y)'
    BY <2>2, <1>3 DEF Shape, States, Sound
  <2> QED BY <2>1, <2>2, <2>3 DEF Sound
<1> QED BY <1>2, <1>4, <1>5 DEF Shape, States

(* The same for a step of p.                                                *)
LEMMA ShapeStays ==
  ASSUME Shape, TypeOK', Phases', Grows, NEW p \in Proc, NEW x \in State, Sound(x)',
         InMemory(p, x), disk' \in {disk, x, NoState},
         recorded' \subseteq recorded \union Refs(x), \A r \in live' \ live : Known(r)',
         \A t \in foreign' : t <= made'["tunnel"],
         \A q \in Proc : policy'[q] <= made'["policy"] /\ key'[q] <= made'["key"],
         \A s \in 1 .. Ids : /\ boot'[s].key <= made'["key"] /\ joined'[s] <= made'["key"]
                             /\ joined'[s] # 0 => s <= made'["server"]
  PROVE  Shape'
<1>1. \A q \in Proc : st'[q] \in {st[q], x}
  BY DEF Shape, TypeOK, InMemory
<1> QED BY <1>1, ShapeKept
-----------------------------------------------------------------------------
(* Types *)

LEMMA TroubleTyped ==
  ASSUME TypeOK, NEW f, Answered(f) \/ Fault(f) \/ UNCHANGED trouble
  PROVE  faults' \in 0 .. Budget /\ seen' \subseteq Faults /\ seen \subseteq seen'
  BY BoundsAssumption DEF TypeOK, Answered, Fault, trouble

(* A step of a command.                                                     *)
LEMMA StepTyped ==
  ASSUME TypeOK, NEW p \in Proc, NEW x \in State, NEW a \in At, InMemory(p, x), Go(p, a),
         live' \subseteq Resource, made' \in [Type -> Id], UNCHANGED <<foreign, joined>>,
         boot' \in [1 .. Ids -> [policy : Id, key : Id]],
         disk' \in {disk, x, NoState}, recorded' \subseteq recorded \union Refs(x),
         files' \subseteq File, UNCHANGED <<owner, kind, plan, creates>>,
         policy' \in [Proc -> Id], key' \in [Proc -> Id], minted' \in [Proc -> BOOLEAN],
         faults' \in 0 .. Budget, seen' \subseteq Faults,
         owner = p \/ a \in {"idle", "authorize", "await", "unwind"}
  PROVE  TypeOK'
<1>1. live' \subseteq Resource /\ made' \in [Type -> Id] /\ foreign' \subseteq 1 .. Ids
      /\ joined' \in [1 .. Ids -> Id]
  BY DEF TypeOK
<1>2. disk' \in State \union {NoState} /\ recorded' \subseteq Resource
  BY RefsTyped DEF TypeOK
<1>3. st' \in [Proc -> State] /\ plan' \in [Proc -> State]
  BY DEF TypeOK, InMemory
<1>4. owner' \in Proc \union {NoProc} /\ kind' \in [Proc -> {"idle", "create", "delete"}]
      /\ at' \in [Proc -> At] /\ creates' \in 0 .. Creates
  BY DEF TypeOK, Go
<1>5. \A q \in Proc : at'[q] \notin {"idle", "authorize", "await", "unwind"} => owner' = q
  BY DEF TypeOK, Go
<1> QED BY <1>1, <1>2, <1>3, <1>4, <1>5 DEF TypeOK

LEMMA MakeTyped ==
  ASSUME TypeOK, NEW t \in Type, Make(t)
  PROVE  /\ live' \subseteq Resource /\ made' \in [Type -> Id]
         /\ made'[t] = made[t] + 1 /\ made'[t] \in 1 .. Ids
         /\ live' = live \union {<<t, made'[t]>>}
         /\ \A u \in Type \ {t} : made'[u] = made[u]
         /\ \A u \in Type : made[u] <= made'[u]
<1>1. made[t] \in 0 .. Ids /\ made[t] < Ids
  BY DEF TypeOK, Make, Id
<1>2. made'[t] = made[t] + 1 /\ made'[t] \in 1 .. Ids
  BY <1>1, BoundsAssumption DEF TypeOK, Make
<1>3. made' \in [Type -> Id]
  BY <1>1, BoundsAssumption DEF TypeOK, Make, Id
<1>4. \A u \in Type \ {t} : made'[u] = made[u]
  BY DEF TypeOK, Make
<1>5. \A u \in Type : made[u] <= made'[u]
  <2>1. \A u \in Type : made[u] \in 0 .. Ids
    BY DEF TypeOK, Id
  <2> QED BY <1>2, <1>4, <2>1, BoundsAssumption
<1>6. live' = live \union {<<t, made'[t]>>}
  BY <1>2 DEF Make
<1>7. live' \subseteq Resource
  BY <1>2, <1>6 DEF TypeOK, Resource
<1> QED BY <1>2, <1>3, <1>4, <1>5, <1>6, <1>7
-----------------------------------------------------------------------------
(* Who holds the locks, and who looks on *)

LEMMA Holder ==
  ASSUME LifeInv, NEW p \in Proc,
         at[p] \notin {"idle", "authorize", "await", "unwind"} \/ minted[p]
  PROVE  owner = p /\ owner # NoProc /\ Held(p)
  BY NoProcAssumption DEF LifeInv, Shape, TypeOK, Phases

LEMMA HolderKeeps ==
  ASSUME Shape', (Owed \subseteq Refs(disk))', KeysOnDisk', OneServer', NEW p \in Proc,
         owner' \in {p, NoProc}, owner' = p => Held(p)'
  PROVE  LifeInv'
<1>1. \A q \in Proc : owner' = q => q = p
  BY NoProcAssumption
<1> QED BY <1>1 DEF LifeInv

(* What the holder q has in mind while others, or the world, act.           *)
LEMMA HeldWhile ==
  ASSUME NEW q \in Proc, Held(q), UNCHANGED <<boot, disk>>, Owed' \subseteq Owed, seen \subseteq seen',
         \A i : Live("server", i)' = Live("server", i),
         \A i : Live("policy", i)' = Live("policy", i),
         Carries(q) /\ Windowed(st[q]) => Windowed(st[q])',
         UNCHANGED <<at[q], st[q], policy[q], key[q], minted[q]>>
  PROVE  Held(q)'
<1>1. Carries(q)' = Carries(q) /\ Cleaning(q)' = Cleaning(q) /\ (CallsFail' => CallsFail)
  BY DEF Carries, Cleaning, CallsFail
<1>2. Carried(q)'
  BY <1>1 DEF Held, Carried
<1>3. InMind(q)'
  BY DEF Held, InMind
<1>4. Removing(q)'
  BY DEF Held, Removing
<1>5. KeysInMind(q)'
  BY <1>1 DEF Held, KeysInMind
<1>6. PoliciesInMind(q)'
  BY <1>1 DEF Held, PoliciesInMind, AllLive
<1> QED BY <1>2, <1>3, <1>4, <1>5, <1>6 DEF Held

LEMMA HeldStays ==
  ASSUME NEW q \in Proc, Held(q), UNCHANGED <<cloud, disk, recorded>>, seen \subseteq seen',
         UNCHANGED <<at[q], st[q], policy[q], key[q], minted[q]>>
  PROVE  Held(q)'
<1>1. /\ \A i : Live("server", i)' = Live("server", i)
      /\ \A i : Live("policy", i)' = Live("policy", i)
      /\ Owed' = Owed /\ UNCHANGED <<boot, disk>>
      /\ Windowed(st[q]) => Windowed(st[q])'
  BY DEF Live, Owed, Windowed, cloud
<1> QED BY <1>1, HeldWhile

(* Nothing changes but what p, which need not hold the locks, is about.     *)
LEMMA MovesKeep ==
  ASSUME LifeInv, TypeOK', Phases', NEW p \in Proc, NEW x \in State, Sound(x), InMemory(p, x),
         UNCHANGED <<cloud, disk, recorded>>, seen \subseteq seen',
         \A q \in Proc \ {p} : UNCHANGED <<at[q], policy[q], key[q], minted[q]>>,
         policy'[p] <= made["policy"] /\ key'[p] <= made["key"],
         owner' \in {owner, p, NoProc}, owner' # owner => owner \in {p, NoProc},
         owner = p /\ CallsFail' /\ Ordering(p) => Ordering(p)' /\ policy'[p] = policy[p],
         owner' = p => Held(p)'
  PROVE  LifeInv'
<1>1. Calm /\ Grows
  BY CalmGrows DEF Calm, cloud, LifeInv, Shape
<1>2. Sound(x)'
  BY <1>1, SoundStays DEF LifeInv, Shape
<1>3. Shape'
  <2>1. \A q \in Proc : policy'[q] <= made'["policy"] /\ key'[q] <= made'["key"]
    BY DEF LifeInv, Shape, Numbered, cloud
  <2>2. /\ \A t \in foreign' : t <= made'["tunnel"]
        /\ \A s \in 1 .. Ids : /\ boot'[s].key <= made'["key"] /\ joined'[s] <= made'["key"]
                               /\ joined'[s] # 0 => s <= made'["server"]
    BY DEF LifeInv, Shape, Numbered, cloud
  <2> QED BY <1>1, <1>2, <2>1, <2>2, ShapeStays DEF LifeInv, Calm
<1>4. \A q \in Proc \ {p} : st'[q] = st[q]
  BY DEF LifeInv, Shape, TypeOK, InMemory
<1>5. \A q \in Proc : owner' = q => Held(q)'
  BY <1>4, HeldStays, NoProcAssumption DEF LifeInv
<1>6. (Owed \subseteq Refs(disk))' /\ KeysOnDisk'
  BY DEF LifeInv, Owed, KeysOnDisk, MayEnrol, Windowed, Live, cloud
<1>7. OneServer'
  <2>1. CallsFail' => CallsFail
    BY DEF CallsFail
  <2>2. \A q \in Proc : CallsFail' /\ Ordering(q) => Ordering(q)' /\ policy'[q] = policy[q]
    BY NoProcAssumption DEF Ordering
  <2> QED BY <2>1, <2>2, ZenonT(60) DEF LifeInv, OneServer, AllLive, Live, cloud
<1> QED BY <1>3, <1>5, <1>6, <1>7 DEF LifeInv
-----------------------------------------------------------------------------
(* Steps that only go on *)

LEMMA GoesOn ==
  ASSUME LifeInv, Phases', NEW p \in Proc, NEW a \in At, NEW f, Go(p, a),
         owner = p \/ a \in {"idle", "authorize", "await", "unwind"},
         UNCHANGED <<cloud, disk, st, recorded, owner, kind, plan, creates>>,
         files' \subseteq File, Answered(f) \/ Fault(f) \/ UNCHANGED trouble,
         policy' \in [Proc -> Id], key' \in [Proc -> Id], minted' \in [Proc -> BOOLEAN],
         \A q \in Proc \ {p} : UNCHANGED <<policy[q], key[q], minted[q]>>,
         policy'[p] <= made["policy"] /\ key'[p] <= made["key"],
         owner = p /\ CallsFail' /\ Ordering(p) => Ordering(p)' /\ policy'[p] = policy[p],
         owner = p => Held(p)'
  PROVE  LifeInv'
<1>1. PICK x \in State : x = st[p]
  BY DEF LifeInv, Shape, TypeOK
<1>2. InMemory(p, x) /\ Sound(x)
  BY <1>1 DEF LifeInv, Shape, TypeOK, States, InMemory, Sound
<1>3. faults' \in 0 .. Budget /\ seen' \subseteq Faults /\ seen \subseteq seen'
  BY TroubleTyped DEF LifeInv, Shape
<1>4. TypeOK
  BY DEF LifeInv, Shape
<1>5. /\ live' \subseteq Resource /\ made' \in [Type -> Id] /\ UNCHANGED <<foreign, joined>>
      /\ boot' \in [1 .. Ids -> [policy : Id, key : Id]]
  BY <1>4 DEF TypeOK, cloud
<1>6. TypeOK'
  BY <1>2, <1>3, <1>4, <1>5, StepTyped
<1>7. \A q \in Proc \ {p} : at'[q] = at[q]
  BY <1>4 DEF TypeOK, Go
<1> QED BY <1>2, <1>3, <1>6, <1>7, MovesKeep

LEMMA OnlyGoesOn ==
  ASSUME LifeInv, Phases', NEW p \in Proc, NEW a \in At, NEW f, Go(p, a),
         owner = p \/ a \in {"idle", "authorize", "await", "unwind"},
         UNCHANGED <<cloud, disk, owner, kind, memory, recorded, creates>>,
         files' \subseteq File, Answered(f) \/ Fault(f) \/ UNCHANGED trouble,
         owner = p /\ CallsFail' => at[p] \notin {"lookUp", "saveServer", "savePartial"},
         owner = p => Held(p)'
  PROVE  LifeInv'
<1>1. UNCHANGED <<st, plan, policy, key, minted>>
  BY DEF memory
<1>2. /\ policy' \in [Proc -> Id] /\ key' \in [Proc -> Id] /\ minted' \in [Proc -> BOOLEAN]
      /\ policy'[p] <= made["policy"] /\ key'[p] <= made["key"]
  BY <1>1 DEF LifeInv, Shape, TypeOK, Numbered
<1> QED BY <1>1, <1>2, GoesOn DEF Ordering

LEMMA NothingHeld ==
  ASSUME NEW p \in Proc, at'[p] \notin CreateSteps \union DeleteSteps,
         ~(minted'[p] /\ key'[p] # 0)
  PROVE  Held(p)'
  BY DEF Held, Carried, Carries, Cleaning, InMind, Removing, KeysInMind, PoliciesInMind,
         CreateSteps, DeleteSteps, Unsaved, Bound

LEMMA PublishKeeps == ASSUME LifeInv, NEW p \in Proc, Publish(p) PROVE LifeInv'
<1>1. owner = p /\ ~minted[p]
  BY Holder DEF Publish, File, LifeInv, Shape, Phases
<1>2. PICK a \in {"credentials", "registry", "init"} : Go(p, a)
  BY DEF Publish, File, Following
<1>3. at'[p] = a /\ ~minted'[p]
  BY <1>1, <1>2 DEF Publish, Go, LifeInv, Shape, TypeOK, memory
<1>4. Held(p)'
  BY <1>3, NothingHeld DEF CreateSteps, DeleteSteps
<1>5. Phases'
  BY <1>1, <1>2, <1>3 DEF Publish, Go, memory, LifeInv, Shape, TypeOK, Phases, CreateSteps,
                          DeleteSteps, BeforeMint, File
<1> QED
  BY <1>1, <1>2, <1>4, <1>5, OnlyGoesOn DEF Publish, LifeInv, Shape, TypeOK, At, File

(* The holder goes on from step a to step b.                                *)
Onward(p, a, b) ==
    /\ at[p] = a /\ Go(p, b)
    /\ UNCHANGED <<cloud, disk, files, owner, kind, memory, recorded, creates, trouble>>
Onwards ==
    {<<"makeTunnel", "oldKey">>, <<"bind", "unwind">>, <<"remote", "finish">>,
     <<"server", "refused">>, <<"policy", "unwind">>}

LEMMA OnwardHeld ==
  ASSUME LifeInv, NEW p \in Proc, NEW a, NEW b, <<a, b>> \in Onwards, Onward(p, a, b)
  PROVE  LifeInv'
<1>1. owner = p /\ Held(p)
  BY Holder DEF Onward, Onwards
<1>2. at[p] = a /\ at'[p] = b /\ UNCHANGED <<cloud, disk, st, policy, key, minted, recorded, seen>>
  BY DEF Onward, Go, memory, trouble, LifeInv, Shape, TypeOK
<1>3. Carried(p)' /\ Removing(p)' /\ KeysInMind(p)'
  BY <1>1, <1>2 DEF Onwards, Held, Carried, Carries, Cleaning, Owed, Removing, KeysInMind, Windowed,
                    Live, cloud, CreateSteps, DeleteSteps
<1>4. InMind(p)'
  BY <1>1, <1>2 DEF Onwards, Held, InMind, CreateSteps, DeleteSteps, Unsaved, Bound
<1>5. PoliciesInMind(p)'
  BY <1>1, <1>2 DEF Onwards, Held, PoliciesInMind, InMind, CallsFail, Cleaning, AllLive, Live, cloud,
                    CreateSteps, DeleteSteps, Unsaved
<1>6. Phases'
  BY <1>1, <1>2 DEF Onwards, Onward, Go, memory, LifeInv, Shape, TypeOK, Phases, CreateSteps,
                    DeleteSteps, BeforeMint, File
<1>7. b \in At /\ a \notin {"lookUp", "saveServer", "savePartial"}
  BY DEF Onwards, At
<1> QED
  BY <1>1, <1>2, <1>3, <1>4, <1>5, <1>6, <1>7, OnlyGoesOn
     DEF Onward, Held, LifeInv, Shape, TypeOK

LEMMA OnwardKeeps ==
  ASSUME LifeInv, NEW p \in Proc,
         TunnelKnown(p) \/ BindFails(p) \/ Remote(p) \/ RefuseDelete(p) \/ PolicyInUse(p)
  PROVE  LifeInv'
<1>1. PICK o \in Onwards : Onward(p, o[1], o[2])
  BY DEF TunnelKnown, BindFails, Remote, RefuseDelete, PolicyInUse, Onward, Onwards
<1>2. <<o[1], o[2]>> \in Onwards
  BY DEF Onwards
<1> QED BY <1>1, <1>2, OnwardHeld

LEMMA NoOldKeyKeeps == ASSUME LifeInv, NEW p \in Proc, NoOldKey(p) PROVE LifeInv'
<1>1. owner = p /\ Held(p)
  BY Holder DEF NoOldKey, KeepOldKey
<1>2. /\ at[p] = "oldKey" /\ at'[p] = "mint" /\ st[p].server = 0 /\ st[p].key = 0
      /\ UNCHANGED <<cloud, disk, st, policy, key, minted, recorded, seen>>
  BY DEF NoOldKey, KeepOldKey, Go, memory, trouble, LifeInv, Shape, TypeOK
<1>3. Carried(p)' /\ Removing(p)' /\ KeysInMind(p)' /\ PoliciesInMind(p)'
  BY <1>1, <1>2 DEF Held, Carried, Carries, Cleaning, Owed, Removing, KeysInMind, Windowed,
                    PoliciesInMind, Live, cloud, CreateSteps, DeleteSteps
<1>4. InMind(p)'
  BY <1>1, <1>2 DEF Held, InMind, CreateSteps, DeleteSteps, Unsaved, Bound
<1>5. Phases'
  BY <1>1, <1>2 DEF NoOldKey, KeepOldKey, Go, memory, LifeInv, Shape, TypeOK, Phases, CreateSteps,
                    DeleteSteps, BeforeMint, File
<1> QED
  BY <1>1, <1>2, <1>3, <1>4, <1>5, OnlyGoesOn
     DEF NoOldKey, KeepOldKey, Held, LifeInv, Shape, TypeOK, At

LEMMA NotTracked ==
  ASSUME NEW x \in State, NEW type \in {"device", "tunnel", "key"}, ~Tracked(x, type)
  PROVE  /\ type = "device" => x.device = 0
         /\ type = "tunnel" => ~OwnsTunnel(x)
         /\ type = "key" => x.key = 0
<1>1. x # NoState
  BY NoStateAssumption
<1> QED BY <1>1 DEF Tracked, Refs, Type, State

LEMMA SkipExternalKeeps == ASSUME LifeInv, NEW p \in Proc, SkipExternal(p) PROVE LifeInv'
<1>1. owner = p /\ Held(p)
  BY Holder DEF SkipExternal, After
<1>2. \/ at[p] = "device" /\ Go(p, "tunnel")
      \/ at[p] = "tunnel" /\ Go(p, "key")
      \/ at[p] = "key" /\ Go(p, "rmConfig")
  <2>1. at[p] \in {"device", "tunnel", "key"} /\ Go(p, After[at[p]])
    BY DEF SkipExternal, After
  <2>2. After["device"] = "tunnel" /\ After["tunnel"] = "key" /\ After["key"] = "rmConfig"
    BY DEF After
  <2> QED BY <2>1, <2>2
<1>3. /\ \/ at[p] = "device" /\ at'[p] = "tunnel"
         \/ at[p] = "tunnel" /\ at'[p] = "key"
         \/ at[p] = "key" /\ at'[p] = "rmConfig"
      /\ UNCHANGED <<cloud, disk, st, policy, key, minted, recorded, seen>>
  BY <1>2 DEF SkipExternal, Go, memory, trouble, LifeInv, Shape, TypeOK
<1>4. /\ at[p] = "device" => st[p].device = 0
      /\ at[p] = "tunnel" => ~OwnsTunnel(st[p])
      /\ at[p] = "key" => st[p].key = 0
  BY <1>2, NotTracked DEF SkipExternal, LifeInv, Shape, TypeOK
<1>5. Removing(p)'
  BY <1>1, <1>2, <1>3, <1>4 DEF Held, Removing, OwnsTunnel, Live, cloud
<1>6. Carried(p)' /\ KeysInMind(p)' /\ PoliciesInMind(p)'
  BY <1>1, <1>2, <1>3 DEF Held, Carried, Carries, Cleaning, Owed, KeysInMind, Windowed,
                    PoliciesInMind, CallsFail, AllLive, Live, cloud, CreateSteps, DeleteSteps
<1>7. InMind(p)'
  BY <1>1, <1>2, <1>3 DEF Held, InMind, CreateSteps, DeleteSteps, Unsaved, Bound
<1>8. Phases'
  BY <1>1, <1>2, <1>3 DEF SkipExternal, Go, memory, LifeInv, Shape, TypeOK, Phases, CreateSteps,
                    DeleteSteps, BeforeMint, File
<1>9. PICK b \in {"tunnel", "key", "rmConfig"} : Go(p, b)
  BY <1>2
<1> QED
  BY <1>1, <1>2, <1>5, <1>6, <1>7, <1>8, <1>9, OnlyGoesOn
     DEF SkipExternal, Held, LifeInv, Shape, TypeOK, At, After, Removal

(* A refused call or a failed write ends the command; the clean-up of the   *)
(* key that a create still owes saves what it had in memory.                *)
LEMMA AbortKeeps == ASSUME LifeInv, NEW p \in Proc, Abort(p) PROVE LifeInv'
<1>1. PICK f : f = (IF at[p] \in Writes THEN "disk" ELSE "abort") /\ Fault(f)
  BY DEF Abort
<1>2. /\ at[p] \notin {"idle", "unwind", "refused", "makeServer", "lookUp"}
      /\ at'[p] = "unwind" /\ UNCHANGED <<cloud, disk, st, policy, key, minted, recorded>>
      /\ seen' = seen \union {f}
  BY <1>1 DEF Abort, Fault, Go, memory, LifeInv, Shape, TypeOK
<1>3. CallsFail' => at[p] \notin Unsaved
  BY <1>1, <1>2 DEF CallsFail, Writes, Unsaved
<1>4. ASSUME owner = p, minted[p], key[p] # 0 PROVE Held(p)'
  <2>1. Held(p) /\ kind[p] = "create" /\ at[p] \in CreateSteps
    BY <1>2, <1>4 DEF LifeInv, Shape, TypeOK, Phases, At, CreateSteps, DeleteSteps, File, After, Removal
  <2>2. Carried(p)' /\ KeysInMind(p)' /\ Removing(p)'
    BY <1>2, <2>1 DEF Held, Carried, Carries, Cleaning, Owed, KeysInMind, Windowed, Removing, cloud
  <2>3. InMind(p)'
    BY <1>2, <2>1 DEF Held, InMind, CreateSteps, DeleteSteps, Unsaved, Bound
  <2>4. PoliciesInMind(p)'
    BY <1>2, <1>3, <2>1 DEF Held, PoliciesInMind, InMind, CreateSteps, Unsaved
  <2> QED BY <2>2, <2>3, <2>4 DEF Held
<1>5. owner = p => Held(p)'
  BY <1>2, <1>4, NothingHeld DEF CreateSteps, DeleteSteps
<1>6. Phases'
  BY <1>2 DEF Abort, Go, memory, LifeInv, Shape, TypeOK, Phases, CreateSteps, DeleteSteps,
              BeforeMint, File
<1>7. owner = p /\ CallsFail' => at[p] \notin {"lookUp", "saveServer", "savePartial"}
  BY <1>2, <1>3 DEF Unsaved
<1> QED BY <1>1, <1>5, <1>6, <1>7, OnlyGoesOn DEF Abort, LifeInv, Shape, TypeOK, At

LEMMA AuthorizeKeeps == ASSUME LifeInv, NEW p \in Proc, Authorize(p) PROVE LifeInv'
<1>1. PICK a \in {"await", "unwind"} : Go(p, a)
  BY DEF Authorize
<1>2. at[p] = "authorize" /\ at'[p] = a /\ ~minted[p] /\ ~minted'[p]
  BY <1>1 DEF Authorize, Go, memory, LifeInv, Shape, TypeOK, Phases
<1>3. Held(p)'
  BY <1>1, <1>2, NothingHeld DEF CreateSteps, DeleteSteps
<1>4. files' \subseteq File
  BY DEF Authorize, File, LifeInv, Shape, TypeOK
<1>5. Phases'
  BY <1>1, <1>2 DEF Authorize, Go, memory, LifeInv, Shape, TypeOK, Phases, CreateSteps, DeleteSteps,
                    BeforeMint, File
<1> QED BY <1>1, <1>2, <1>3, <1>4, <1>5, OnlyGoesOn DEF Authorize, At

LEMMA RefuseServerKeeps == ASSUME LifeInv, NEW p \in Proc, RefuseServer(p) PROVE LifeInv'
<1>1. owner = p /\ Held(p)
  BY Holder DEF RefuseServer
<1>2. /\ at[p] = "makeServer" /\ at'[p] = "lookUp"
      /\ UNCHANGED <<cloud, disk, st, policy, key, minted, recorded>> /\ seen \subseteq seen'
  BY DEF RefuseServer, Fault, Go, memory, LifeInv, Shape, TypeOK
<1>3. Carried(p)' /\ Removing(p)' /\ PoliciesInMind(p)'
  BY <1>1, <1>2 DEF Held, Carried, Carries, Cleaning, Owed, Removing, PoliciesInMind, CallsFail,
                    AllLive, Live, cloud, CreateSteps, DeleteSteps
<1>4. InMind(p)'
  BY <1>1, <1>2 DEF Held, InMind, CreateSteps, DeleteSteps, Unsaved, Bound
<1>5. KeysInMind(p)'
  BY <1>1, <1>2 DEF Held, KeysInMind, Carries, Cleaning, Windowed, Live, cloud, CreateSteps,
                    DeleteSteps
<1>6. Phases'
  BY <1>1, <1>2 DEF RefuseServer, Go, memory, LifeInv, Shape, TypeOK, Phases, CreateSteps,
                    DeleteSteps, BeforeMint, File
<1> QED
  BY <1>1, <1>2, <1>3, <1>4, <1>5, <1>6, OnlyGoesOn
     DEF RefuseServer, Held, LifeInv, Shape, TypeOK, At

LEMMA ResumeComputeKeeps == ASSUME LifeInv, NEW p \in Proc, ResumeCompute(p) PROVE LifeInv'
<1>1. owner = p /\ Held(p) /\ ~minted[p]
  BY Holder DEF ResumeCompute, LifeInv, Shape, Phases, BeforeMint
<1>2. /\ at[p] = "oldKey" /\ at'[p] = "bind" /\ st[p].server # 0 /\ key'[p] = st[p].key
      /\ UNCHANGED <<cloud, disk, st, policy, minted, recorded, seen>>
  BY DEF ResumeCompute, Go, trouble, LifeInv, Shape, TypeOK
<1>3. Carried(p)' /\ Removing(p)' /\ KeysInMind(p)' /\ PoliciesInMind(p)'
  BY <1>1, <1>2 DEF Held, Carried, Carries, Cleaning, Owed, Removing, KeysInMind, Windowed,
                    PoliciesInMind, cloud, CreateSteps, DeleteSteps
<1>4. InMind(p)'
  BY <1>1, <1>2 DEF Held, InMind, CreateSteps, DeleteSteps, Unsaved, Bound
<1>5. Phases'
  BY <1>1, <1>2 DEF ResumeCompute, Go, LifeInv, Shape, TypeOK, Phases, CreateSteps, DeleteSteps,
                    BeforeMint, File
<1>6. key' \in [Proc -> Id] /\ key'[p] <= made["key"] /\ \A q \in Proc \ {p} : key'[q] = key[q]
  BY <1>2 DEF ResumeCompute, LifeInv, Shape, TypeOK, States, Sound, State
<1>7. policy' \in [Proc -> Id] /\ minted' \in [Proc -> BOOLEAN] /\ policy'[p] <= made["policy"]
  BY DEF ResumeCompute, LifeInv, Shape, TypeOK, Numbered
<1> QED
  BY <1>1, <1>2, <1>3, <1>4, <1>5, <1>6, <1>7, GoesOn
     DEF ResumeCompute, Held, LifeInv, Shape, TypeOK, Ordering, At

(* A checkpointed policy that is used again has nothing attached, and every *)
(* server would be attached to it.                                          *)
LEMMA ReusePolicyKeeps == ASSUME LifeInv, NEW p \in Proc, ReusePolicy(p) PROVE LifeInv'
<1>1. owner = p /\ Held(p)
  BY Holder DEF ReusePolicy
<1>2. /\ at[p] = "makePolicy" /\ st[p] = disk /\ st[p].policy # 0 /\ disk # NoState
      /\ UNCHANGED <<cloud, disk, st, key, minted, recorded, seen>>
  BY <1>1 DEF ReusePolicy, Held, Carried, Carries, InMind, CreateSteps, Unsaved, trouble
<1>3. \/ /\ at'[p] = "makeServer" /\ policy'[p] = st[p].policy
         /\ policy' = [policy EXCEPT ![p] = st[p].policy] /\ Go(p, "makeServer")
         /\ ~(AttachmentVisible /\ Attached(st[p].policy))
      \/ at'[p] = "unwind" /\ policy' = policy /\ Go(p, "unwind")
  BY DEF ReusePolicy, Go, LifeInv, Shape, TypeOK
<1>4. Carried(p)' /\ Removing(p)' /\ KeysInMind(p)'
  BY <1>1, <1>2, <1>3 DEF Held, Carried, Carries, Cleaning, Owed, Removing, KeysInMind, Windowed,
                          cloud, CreateSteps, DeleteSteps
<1>5. InMind(p)'
  BY <1>1, <1>2, <1>3 DEF Held, InMind, CreateSteps, DeleteSteps, Unsaved, Bound
<1>6. PoliciesInMind(p)'
  <2>1. ASSUME CallsFail, at'[p] = "makeServer" PROVE AllLive("server") = {}
    <3>1. ~Attached(st[p].policy)
      BY <1>3, <2>1 DEF CallsFail
    <3>2. \A q \in Proc : ~Ordering(q)
      BY <1>1, <1>2 DEF Ordering
    <3> QED BY <1>2, <2>1, <3>1, <3>2 DEF LifeInv, OneServer, Attached
  <2>2. AllLive("server")' = AllLive("server")
    BY <1>2 DEF AllLive, Live, cloud
  <2> QED BY <1>2, <1>3, <2>1, <2>2 DEF PoliciesInMind, CallsFail
<1>7. Phases'
  BY <1>1, <1>2, <1>3 DEF ReusePolicy, Go, LifeInv, Shape, TypeOK, Phases, CreateSteps, DeleteSteps,
                          BeforeMint, File
<1>8. /\ policy' \in [Proc -> Id] /\ policy'[p] <= made["policy"]
      /\ \A q \in Proc \ {p} : policy'[q] = policy[q]
  BY <1>3 DEF LifeInv, Shape, TypeOK, Numbered, States, Sound, State
<1>9. key' \in [Proc -> Id] /\ minted' \in [Proc -> BOOLEAN] /\ key'[p] <= made["key"]
  BY <1>2 DEF LifeInv, Shape, TypeOK, Numbered
<1>10. PICK a \in {"makeServer", "unwind"} : Go(p, a)
  BY <1>3
<1> QED
  BY <1>1, <1>2, <1>4, <1>5, <1>6, <1>7, <1>8, <1>9, <1>10, GoesOn
     DEF ReusePolicy, Held, LifeInv, Shape, TypeOK, Ordering, At

LEMMA DeferredCleanUpFailsKeeps ==
  ASSUME LifeInv, NEW p \in Proc, DeferredCleanUpFails(p)
  PROVE  LifeInv'
<1>1. owner = p /\ Go(p, "unwind")
  BY Holder DEF DeferredCleanUpFails, Go, LifeInv, Shape, TypeOK
<1>2. at[p] = "unwind" /\ at'[p] = "unwind" /\ ~minted'[p]
  BY DEF DeferredCleanUpFails, LifeInv, Shape, TypeOK
<1>3. Held(p)'
  BY <1>2, NothingHeld DEF CreateSteps, DeleteSteps
<1>4. Phases'
  BY <1>1, <1>2 DEF DeferredCleanUpFails, LifeInv, Shape, TypeOK, Phases, CreateSteps, DeleteSteps,
                    BeforeMint, File
<1>5. minted' \in [Proc -> BOOLEAN] /\ \A q \in Proc \ {p} : minted'[q] = minted[q]
  BY DEF DeferredCleanUpFails, LifeInv, Shape, TypeOK
<1>6. /\ policy' \in [Proc -> Id] /\ key' \in [Proc -> Id]
      /\ policy'[p] <= made["policy"] /\ key'[p] <= made["key"]
  BY DEF DeferredCleanUpFails, LifeInv, Shape, TypeOK, Numbered
<1>7. Fault("abort")
  BY DEF DeferredCleanUpFails
<1> QED
  BY <1>1, <1>2, <1>3, <1>4, <1>5, <1>6, <1>7, GoesOn
     DEF DeferredCleanUpFails, LifeInv, Shape, TypeOK, Ordering, At
-----------------------------------------------------------------------------
(* Checkpoints: what the holder has in memory goes to disk *)

LEMMA SavesKeep ==
  ASSUME LifeInv, Phases', NEW p \in Proc, NEW a \in At, owner = p, Carries(p), Save(st[p]), Go(p, a),
         UNCHANGED <<cloud, files, owner, kind, memory, creates, trouble>>,
         disk.key \in {0, st[p].key},
         CallsFail => \/ disk.policy = st[p].policy /\ ~Ordering(p)
                      \/ disk.policy \in {0, policy[p]} /\ st[p].policy = policy[p] /\ policy[p] # 0,
         Carries(p)' => a \in CreateSteps \union {"unwind"},
         InMind(p)', KeysInMind(p)', PoliciesInMind(p)'
  PROVE  LifeInv'
<1>1. PICK x \in State : x = st[p]
  BY DEF LifeInv, Shape, TypeOK
<1>2. /\ InMemory(p, x) /\ Sound(x) /\ UNCHANGED <<st, plan, policy, key, minted>>
      /\ disk' = x /\ recorded' = recorded \union Refs(x) /\ x # NoState
  BY <1>1, NoStateAssumption DEF LifeInv, Shape, TypeOK, States, InMemory, Sound, Save, memory
<1>3. TypeOK
  BY DEF LifeInv, Shape
<1>4. /\ live' \subseteq Resource /\ made' \in [Type -> Id] /\ UNCHANGED <<foreign, joined>>
      /\ boot' \in [1 .. Ids -> [policy : Id, key : Id]] /\ files' \subseteq File
      /\ policy' \in [Proc -> Id] /\ key' \in [Proc -> Id] /\ minted' \in [Proc -> BOOLEAN]
      /\ faults' \in 0 .. Budget /\ seen' \subseteq Faults
  BY <1>2, <1>3 DEF TypeOK, cloud, trouble
<1>5. TypeOK'
  BY <1>2, <1>3, <1>4, StepTyped
<1>6. Calm /\ Grows
  BY <1>3, CalmGrows DEF Calm, cloud
<1>7. Shape'
  <2>1. Sound(x)'
    BY <1>2, <1>3, <1>5, <1>6, SoundStays
  <2>2. /\ \A q \in Proc : policy'[q] <= made'["policy"] /\ key'[q] <= made'["key"]
        /\ \A t \in foreign' : t <= made'["tunnel"]
        /\ \A s \in 1 .. Ids : /\ boot'[s].key <= made'["key"] /\ joined'[s] <= made'["key"]
                               /\ joined'[s] # 0 => s <= made'["server"]
    BY <1>2 DEF LifeInv, Shape, Numbered, cloud
  <2> QED BY <1>2, <1>5, <1>6, <2>1, <2>2, ShapeStays DEF LifeInv, Calm
<1>8. Owed \subseteq Refs(x)
  BY <1>1 DEF LifeInv, Held, Carried
<1>9. (Owed \subseteq Refs(disk))' /\ Carried(p)'
  <2>1. (recorded \union Refs(x)) \intersect live \subseteq Refs(x)
    BY <1>8 DEF Owed
  <2>2. st'[p] = x
    BY <1>1, <1>2
  <2> QED BY <1>2, <2>1, <2>2 DEF Carried, Owed, cloud
<1>10. KeysOnDisk'
  <2>1. Windowed(x)
    BY <1>1 DEF LifeInv, Held, KeysInMind, Windowed
  <2>2. ASSUME NEW s \in 1 .. Ids, MayEnrol(s) PROVE boot[s].key = x.key
    <3>1. <<"key", boot[s].key>> \in Resource
      BY <2>2, <1>3 DEF MayEnrol, Live, TypeOK
    <3> QED BY <1>1, <2>2, <3>1 DEF LifeInv, KeysOnDisk, Resource
  <2> QED BY <1>2, <2>1, <2>2 DEF KeysOnDisk, Windowed, MayEnrol, Live, cloud
<1>11. OneServer'
  <2>1. \A q \in Proc : Ordering(q) => q = p
    BY DEF Ordering
  <2>2. CallsFail' = CallsFail /\ AllLive("server")' = AllLive("server") /\ boot' = boot
    BY DEF CallsFail, AllLive, Live, cloud, trouble
  <2>3. ASSUME CallsFail, NEW s \in AllLive("server")
        PROVE  boot[s].policy = x.policy /\ x.policy # 0
    BY <1>1, <2>1, <2>3 DEF LifeInv, OneServer
  <2> QED BY <1>2, <2>2, <2>3 DEF LifeInv, OneServer
<1>12. Removing(p)'
  <2>1. at'[p] = a
    BY <1>3 DEF TypeOK, Go
  <2> QED BY <2>1 DEF Removing, Carries, Cleaning, CreateSteps, DeleteSteps
<1> QED BY <1>7, <1>9, <1>10, <1>11, <1>12, HolderKeeps DEF Held

LEMMA SaveTunnelKeeps == ASSUME LifeInv, NEW p \in Proc, SaveTunnel(p) PROVE LifeInv'
<1>1. owner = p /\ Held(p) /\ ~minted[p]
  BY Holder DEF SaveTunnel, LifeInv, Shape, Phases, BeforeMint
<1>2. /\ at[p] = "saveTunnel" /\ at'[p] = "oldKey" /\ disk' = st[p]
      /\ UNCHANGED <<cloud, st, policy, key, minted, seen>>
  BY DEF SaveTunnel, Save, Go, memory, trouble, LifeInv, Shape, TypeOK
<1>3. InMind(p)'
  BY <1>1, <1>2 DEF Held, InMind, CreateSteps, DeleteSteps, Unsaved, Bound
<1>4. KeysInMind(p)' /\ PoliciesInMind(p)'
  BY <1>1, <1>2 DEF Held, KeysInMind, PoliciesInMind, Windowed, Carries, Cleaning, cloud, CreateSteps
<1>5. Phases'
  BY <1>1, <1>2 DEF SaveTunnel, Go, memory, LifeInv, Shape, TypeOK, Phases, CreateSteps, DeleteSteps,
                    BeforeMint, File
<1> QED
  BY <1>1, <1>2, <1>3, <1>4, <1>5, SavesKeep
     DEF SaveTunnel, Held, InMind, Carries, CreateSteps, Ordering, At

LEMMA SaveKeyKeeps == ASSUME LifeInv, NEW p \in Proc, SaveKey(p) PROVE LifeInv'
<1>1. owner = p /\ Held(p)
  BY Holder DEF SaveKey
<1>2. /\ at[p] = "saveKey" /\ at'[p] = "makePolicy" /\ disk' = st[p]
      /\ UNCHANGED <<cloud, st, policy, key, minted, seen>>
  BY DEF SaveKey, Save, Go, memory, trouble, LifeInv, Shape, TypeOK
<1>3. InMind(p)'
  BY <1>1, <1>2 DEF Held, InMind, CreateSteps, DeleteSteps, Unsaved, Bound
<1>4. KeysInMind(p)' /\ PoliciesInMind(p)'
  BY <1>1, <1>2 DEF Held, KeysInMind, PoliciesInMind, Windowed, Carries, Cleaning, cloud, CreateSteps
<1>5. Phases'
  BY <1>1, <1>2 DEF SaveKey, Go, memory, LifeInv, Shape, TypeOK, Phases, CreateSteps, DeleteSteps,
                    BeforeMint, File
<1> QED
  BY <1>1, <1>2, <1>3, <1>4, <1>5, SavesKeep
     DEF SaveKey, Held, InMind, Carries, CreateSteps, Ordering, At

LEMMA SaveComputeKeeps == ASSUME LifeInv, NEW p \in Proc, SaveCompute(p) PROVE LifeInv'
<1>1. owner = p /\ Held(p)
  BY Holder DEF SaveCompute
<1>2. /\ \/ at[p] = "saveServer" /\ at'[p] = "bind" /\ Go(p, "bind")
         \/ at[p] = "savePartial" /\ at'[p] = "unwind" /\ Go(p, "unwind")
      /\ disk' = st[p] /\ UNCHANGED <<cloud, st, policy, key, minted, seen>>
  BY DEF SaveCompute, Save, Go, memory, trouble, LifeInv, Shape, TypeOK
<1>3. InMind(p)'
  BY <1>1, <1>2 DEF Held, InMind, CreateSteps, DeleteSteps, Unsaved, Bound
<1>4. KeysInMind(p)' /\ PoliciesInMind(p)'
  BY <1>1, <1>2 DEF Held, KeysInMind, PoliciesInMind, Windowed, Carries, Cleaning, cloud, CreateSteps
<1>5. Phases'
  BY <1>1, <1>2 DEF SaveCompute, Go, memory, LifeInv, Shape, TypeOK, Phases, CreateSteps, DeleteSteps,
                    BeforeMint, File
<1>6. PICK a \in {"bind", "unwind"} : Go(p, a)
  BY <1>2
<1> QED
  BY <1>1, <1>2, <1>3, <1>4, <1>5, <1>6, SavesKeep
     DEF SaveCompute, Held, InMind, Carries, CreateSteps, At

LEMMA SaveDeviceKeeps == ASSUME LifeInv, NEW p \in Proc, SaveDevice(p) PROVE LifeInv'
<1>1. owner = p /\ Held(p)
  BY Holder DEF SaveDevice
<1>2. /\ at[p] = "saveDevice" /\ at'[p] = "remote" /\ disk' = st[p]
      /\ UNCHANGED <<cloud, st, policy, key, minted, seen>>
  BY DEF SaveDevice, Save, Go, memory, trouble, LifeInv, Shape, TypeOK
<1>3. InMind(p)'
  BY <1>1, <1>2 DEF Held, InMind, CreateSteps, DeleteSteps, Unsaved, Bound
<1>4. KeysInMind(p)' /\ PoliciesInMind(p)'
  BY <1>1, <1>2 DEF Held, KeysInMind, PoliciesInMind, Windowed, Carries, Cleaning, cloud, CreateSteps
<1>5. Phases'
  BY <1>1, <1>2 DEF SaveDevice, Go, memory, LifeInv, Shape, TypeOK, Phases, CreateSteps, DeleteSteps,
                    BeforeMint, File
<1> QED
  BY <1>1, <1>2, <1>3, <1>4, <1>5, SavesKeep
     DEF SaveDevice, Held, InMind, Carries, CreateSteps, Ordering, At

LEMMA CompleteKeeps == ASSUME LifeInv, NEW p \in Proc, Complete(p) PROVE LifeInv'
<1>1. owner = p /\ Held(p)
  BY Holder DEF Complete
<1>2. /\ at[p] = "complete" /\ at'[p] = "unwind" /\ disk' = st[p] /\ st[p] = disk
      /\ UNCHANGED <<cloud, st, policy, key, minted, seen>>
  BY <1>1 DEF Complete, Held, InMind, CreateSteps, Unsaved, Save, Go, memory, trouble, LifeInv, Shape,
              TypeOK
<1>3. InMind(p)'
  BY <1>1, <1>2 DEF Held, InMind, CreateSteps, DeleteSteps, Unsaved, Bound
<1>4. KeysInMind(p)' /\ PoliciesInMind(p)'
  BY <1>1, <1>2 DEF Held, KeysInMind, PoliciesInMind, Windowed, Carries, Cleaning, cloud, CreateSteps
<1>5. Phases'
  BY <1>1, <1>2 DEF Complete, Go, memory, LifeInv, Shape, TypeOK, Phases, CreateSteps, DeleteSteps,
                    BeforeMint, File
<1> QED
  BY <1>1, <1>2, <1>3, <1>4, <1>5, SavesKeep
     DEF Complete, Held, InMind, Carries, CreateSteps, Ordering, At
-----------------------------------------------------------------------------
(* Commands begin and end *)

LEMMA BlankSound == ASSUME TypeOK PROVE Blank \in State /\ Sound(Blank) /\ Refs(Blank) = {}
<1>1. Blank \in State
  BY BoundsAssumption DEF Blank, State, Id
<1>2. Sound(Blank)
  BY DEF TypeOK, Blank, Sound, Type, Id
<1>3. \A r \in Resource : r \notin Refs(Blank)
  BY <1>1, InRefs DEF Blank, Resource
<1> QED BY <1>1, <1>2, <1>3, RefsTyped

LEMMA ForgetKeeps ==
  ASSUME LifeInv, NEW p \in Proc, NEW f, Forget(p),
         UNCHANGED <<cloud, disk, files, recorded, creates>>, UNCHANGED trouble \/ Fault(f),
         owner = p /\ CallsFail' => ~Ordering(p)
  PROVE  LifeInv'
<1>1. TypeOK
  BY DEF LifeInv, Shape
<1>2. /\ InMemory(p, Blank) /\ at' = [at EXCEPT ![p] = "idle"] /\ kind' = [kind EXCEPT ![p] = "idle"]
      /\ plan' = [plan EXCEPT ![p] = Blank] /\ policy' = [policy EXCEPT ![p] = 0]
      /\ key' = [key EXCEPT ![p] = 0] /\ minted' = [minted EXCEPT ![p] = FALSE]
      /\ owner' = IF owner = p THEN NoProc ELSE owner
  BY DEF Forget, Go
<1>3. faults' \in 0 .. Budget /\ seen' \subseteq Faults /\ seen \subseteq seen'
  BY <1>1, TroubleTyped
<1>4. TypeOK'
  <2>1. /\ live' \subseteq Resource /\ recorded' \subseteq Resource
        /\ made' \in [Type -> Id] /\ foreign' \subseteq 1 .. Ids
        /\ boot' \in [1 .. Ids -> [policy : Id, key : Id]] /\ joined' \in [1 .. Ids -> Id]
        /\ disk' \in State \union {NoState} /\ files' \subseteq File /\ creates' \in 0 .. Creates
    BY <1>1 DEF TypeOK, cloud
  <2>2. st' \in [Proc -> State] /\ plan' \in [Proc -> State]
    BY <1>1, <1>2, BlankSound DEF TypeOK, InMemory
  <2>3. policy' \in [Proc -> Id] /\ key' \in [Proc -> Id] /\ minted' \in [Proc -> BOOLEAN]
    BY <1>1, <1>2, BoundsAssumption DEF TypeOK, Id
  <2>4. /\ owner' \in Proc \union {NoProc} /\ kind' \in [Proc -> {"idle", "create", "delete"}]
        /\ at' \in [Proc -> At]
        /\ \A q \in Proc : at'[q] \notin {"idle", "authorize", "await", "unwind"} => owner' = q
    BY <1>1, <1>2 DEF TypeOK, At
  <2> QED BY <1>3, <2>1, <2>2, <2>3, <2>4 DEF TypeOK
<1>5. \A q \in Proc \ {p} : UNCHANGED <<at[q], kind[q], policy[q], key[q], minted[q]>>
  BY <1>1, <1>2 DEF TypeOK
<1>6. at'[p] = "idle" /\ kind'[p] = "idle" /\ ~minted'[p] /\ policy'[p] = 0 /\ key'[p] = 0
  BY <1>1, <1>2 DEF TypeOK
<1>7. Phases'
  BY <1>1, <1>2, <1>5, <1>6, NoProcAssumption
     DEF LifeInv, Shape, TypeOK, Phases, CreateSteps, DeleteSteps, BeforeMint, File
<1>8. owner' # p
  BY <1>2, NoProcAssumption
<1>9. policy'[p] <= made["policy"] /\ key'[p] <= made["key"]
  BY <1>1, <1>6 DEF TypeOK, Type, Id
<1> QED
  BY <1>1, <1>2, <1>3, <1>4, <1>5, <1>7, <1>8, <1>9, BlankSound, MovesKeep DEF Ordering

LEMMA ReturnKeeps ==
  ASSUME LifeInv, NEW p \in Proc, Return(p) \/ RefusedReturn(p) \/ Crash(p)
  PROVE  LifeInv'
<1>1. CASE Return(p) \/ RefusedReturn(p)
  <2>1. ~Ordering(p)
    BY <1>1 DEF Return, RefusedReturn, Ordering
  <2> QED BY <1>1, <2>1, ForgetKeeps DEF Return, RefusedReturn
<1>2. CASE Crash(p)
  <2>1. Fault("crash") /\ ~CallsFail'
    BY <1>2 DEF Crash, Fault, CallsFail
  <2> QED BY <1>2, <2>1, ForgetKeeps DEF Crash
<1> QED BY <1>1, <1>2

LEMMA StartCreateKeeps == ASSUME LifeInv, NEW p \in Proc, StartCreate(p) PROVE LifeInv'
<1>1. TypeOK
  BY DEF LifeInv, Shape
<1>2. /\ at' = [at EXCEPT ![p] = "config"] /\ kind' = [kind EXCEPT ![p] = "create"]
      /\ owner = NoProc /\ owner' = p /\ creates' = creates + 1 /\ creates < Creates
      /\ kind[p] = "idle" /\ UNCHANGED <<cloud, disk, files, st, plan, policy, key, minted, recorded>>
      /\ UNCHANGED <<faults, seen>>
  BY DEF StartCreate, Go, memory, trouble
<1>3. ~minted[p] /\ at'[p] = "config" /\ kind'[p] = "create"
  BY <1>1, <1>2 DEF LifeInv, Shape, Phases, TypeOK
<1>4. TypeOK'
  <2>1. /\ owner' \in Proc \union {NoProc} /\ kind' \in [Proc -> {"idle", "create", "delete"}]
        /\ at' \in [Proc -> At] /\ creates' \in 0 .. Creates
    BY <1>1, <1>2, BoundsAssumption DEF TypeOK, At, File
  <2>2. \A q \in Proc : at'[q] \notin {"idle", "authorize", "await", "unwind"} => owner' = q
    BY <1>1, <1>2, NoProcAssumption DEF TypeOK
  <2> QED BY <1>1, <1>2, <2>1, <2>2 DEF TypeOK, cloud
<1>5. Phases'
  BY <1>1, <1>2, <1>3, NoProcAssumption
     DEF LifeInv, Shape, TypeOK, Phases, CreateSteps, DeleteSteps, BeforeMint, File
<1>6. Held(p)'
  BY <1>2, <1>3, NothingHeld DEF CreateSteps, DeleteSteps
<1>7. PICK x \in State : x = st[p]
  BY <1>1 DEF TypeOK
<1>8. InMemory(p, x) /\ Sound(x)
  BY <1>1, <1>2, <1>7 DEF LifeInv, Shape, TypeOK, States, InMemory, Sound
<1>9. /\ \A q \in Proc \ {p} : UNCHANGED <<at[q], policy[q], key[q], minted[q]>>
      /\ policy'[p] <= made["policy"] /\ key'[p] <= made["key"]
  BY <1>1, <1>2 DEF LifeInv, Shape, Numbered, TypeOK
<1> QED BY <1>2, <1>4, <1>5, <1>6, <1>8, <1>9, MovesKeep, NoProcAssumption

LEMMA ApproveKeeps == ASSUME LifeInv, NEW p \in Proc, Approve(p) PROVE LifeInv'
<1>1. TypeOK
  BY DEF LifeInv, Shape
<1>2. /\ at' = [at EXCEPT ![p] = "authorize"] /\ kind' = [kind EXCEPT ![p] = "delete"]
      /\ plan' = [plan EXCEPT ![p] = disk] /\ disk # NoState /\ kind[p] = "idle"
      /\ UNCHANGED <<cloud, disk, files, owner, st, policy, key, minted, recorded, creates>>
      /\ UNCHANGED <<faults, seen>>
  BY DEF Approve, Go, trouble
<1>3. ~minted[p] /\ at'[p] = "authorize" /\ kind'[p] = "delete"
  BY <1>1, <1>2 DEF LifeInv, Shape, Phases, TypeOK
<1>4. TypeOK'
  <2>1. /\ plan' \in [Proc -> State] /\ kind' \in [Proc -> {"idle", "create", "delete"}]
        /\ at' \in [Proc -> At]
    BY <1>1, <1>2 DEF TypeOK, At
  <2>2. \A q \in Proc : at'[q] \notin {"idle", "authorize", "await", "unwind"} => owner' = q
    BY <1>1, <1>2 DEF TypeOK
  <2> QED BY <1>1, <1>2, <2>1, <2>2 DEF TypeOK, cloud
<1>5. Phases'
  BY <1>1, <1>2, <1>3 DEF LifeInv, Shape, TypeOK, Phases, CreateSteps, DeleteSteps, BeforeMint, File
<1>6. Held(p)'
  BY <1>2, <1>3, NothingHeld DEF CreateSteps, DeleteSteps
<1>7. PICK x \in State : x = st[p]
  BY <1>1 DEF TypeOK
<1>8. InMemory(p, x) /\ Sound(x)
  BY <1>1, <1>2, <1>7 DEF LifeInv, Shape, TypeOK, States, InMemory, Sound
<1>9. /\ \A q \in Proc \ {p} : UNCHANGED <<at[q], policy[q], key[q], minted[q]>>
      /\ policy'[p] <= made["policy"] /\ key'[p] <= made["key"] /\ ~Ordering(p)
  BY <1>1, <1>2 DEF LifeInv, Shape, Numbered, Phases, TypeOK, Ordering
<1> QED BY <1>2, <1>4, <1>5, <1>6, <1>8, <1>9, MovesKeep

LEMMA RevalidateKeeps == ASSUME LifeInv, NEW p \in Proc, Revalidate(p) PROVE LifeInv'
<1>1. TypeOK /\ kind[p] = "delete" /\ ~minted[p]
  BY DEF Revalidate, LifeInv, Shape, Phases
<1>2. /\ at[p] = "await" /\ owner = NoProc /\ owner' = p
      /\ UNCHANGED <<cloud, disk, files, kind, plan, policy, key, minted, recorded, creates>>
      /\ UNCHANGED <<faults, seen>>
      /\ \/ disk # NoState /\ InMemory(p, disk) /\ Go(p, "server")
         \/ st' = st /\ Go(p, "unwind")
  BY DEF Revalidate, SameAuthority, trouble
<1>3. PICK x \in State : InMemory(p, x) /\ Sound(x) /\ \/ x = disk /\ disk # NoState /\ Go(p, "server")
                                                       \/ x = st[p] /\ Go(p, "unwind")
  <2>1. CASE disk # NoState /\ InMemory(p, disk) /\ Go(p, "server")
    BY <1>1, <2>1 DEF LifeInv, Shape, TypeOK, States
  <2>2. CASE st' = st /\ Go(p, "unwind")
    BY <1>1, <2>2 DEF LifeInv, Shape, TypeOK, States, InMemory
  <2> QED BY <1>2, <2>1, <2>2
<1>4. PICK a \in {"server", "unwind"} : Go(p, a) /\ (a = "server" => x = disk /\ disk # NoState)
  BY <1>3
<1>5. at' = [at EXCEPT ![p] = a] /\ at'[p] = a /\ st'[p] = x
  BY <1>1, <1>3, <1>4 DEF TypeOK, Go, InMemory
<1>6. TypeOK'
  <2>1. /\ owner' \in Proc \union {NoProc} /\ at' \in [Proc -> At] /\ st' \in [Proc -> State]
        /\ \A q \in Proc : at'[q] \notin {"idle", "authorize", "await", "unwind"} => owner' = q
    BY <1>1, <1>2, <1>3, <1>5, NoProcAssumption DEF TypeOK, At, InMemory
  <2> QED BY <1>1, <1>2, <2>1 DEF TypeOK, cloud
<1>7. Phases'
  BY <1>1, <1>2, <1>5, NoProcAssumption
     DEF LifeInv, Shape, TypeOK, Phases, CreateSteps, DeleteSteps, BeforeMint, File
<1>8. Held(p)'
  <2>1. CASE a = "unwind"
    BY <1>1, <1>2, <1>5, <2>1, NothingHeld DEF CreateSteps, DeleteSteps
  <2>2. CASE a = "server"
    <3>1. st'[p] = disk /\ disk # NoState /\ at'[p] = "server" /\ ~minted'[p]
      BY <1>1, <1>2, <1>4, <1>5, <2>2
    <3>2. Carried(p)' /\ KeysInMind(p)'
      BY <1>2, <3>1 DEF LifeInv, Carried, Owed, KeysInMind, KeysOnDisk, Windowed, cloud
    <3>3. InMind(p)' /\ Removing(p)' /\ PoliciesInMind(p)'
      BY <1>2, <3>1 DEF InMind, Removing, PoliciesInMind, Cleaning, CreateSteps, DeleteSteps, Unsaved,
                        Bound
    <3> QED BY <3>2, <3>3 DEF Held
  <2> QED BY <2>1, <2>2
<1>9. /\ \A q \in Proc \ {p} : UNCHANGED <<at[q], policy[q], key[q], minted[q]>>
      /\ policy'[p] <= made["policy"] /\ key'[p] <= made["key"]
  BY <1>1, <1>2, <1>5 DEF LifeInv, Shape, Numbered, TypeOK
<1> QED BY <1>2, <1>3, <1>6, <1>7, <1>8, <1>9, MovesKeep, NoProcAssumption
-----------------------------------------------------------------------------
(* What the holder learns *)

LEMMA LearnsKeep ==
  ASSUME LifeInv, Phases', NEW p \in Proc, NEW x \in State, NEW a \in At, NEW f, owner = p, Sound(x),
         InMemory(p, x), Go(p, a), Answered(f) \/ Fault(f) \/ UNCHANGED trouble,
         UNCHANGED <<cloud, disk, files, owner, kind, plan, policy, key, minted, recorded, creates>>,
         CallsFail' /\ Ordering(p) => Ordering(p)',
         Held(p)'
  PROVE  LifeInv'
<1>1. faults' \in 0 .. Budget /\ seen' \subseteq Faults /\ seen \subseteq seen'
  BY TroubleTyped DEF LifeInv, Shape
<1>2. TypeOK
  BY DEF LifeInv, Shape
<1>3. /\ live' \subseteq Resource /\ made' \in [Type -> Id] /\ UNCHANGED <<foreign, joined>>
      /\ boot' \in [1 .. Ids -> [policy : Id, key : Id]] /\ files' \subseteq File
      /\ policy' \in [Proc -> Id] /\ key' \in [Proc -> Id] /\ minted' \in [Proc -> BOOLEAN]
  BY <1>2 DEF TypeOK, cloud
<1>4. TypeOK'
  BY <1>1, <1>2, <1>3, StepTyped
<1>5. /\ \A q \in Proc \ {p} : at'[q] = at[q]
      /\ policy'[p] <= made["policy"] /\ key'[p] <= made["key"]
  BY <1>2 DEF LifeInv, Shape, Numbered, TypeOK, Go
<1> QED BY <1>1, <1>4, <1>5, MovesKeep

LEMMA AdoptTunnelKeeps == ASSUME LifeInv, NEW p \in Proc, AdoptTunnel(p) PROVE LifeInv'
<1>1. at[p] = "makeTunnel" /\ st[p].tunnel = 0
  BY DEF AdoptTunnel, LacksTunnel
<1>2. owner = p /\ Held(p) /\ ~minted[p] /\ TypeOK /\ st[p] = disk
  BY <1>1, Holder DEF LifeInv, Shape, Phases, BeforeMint, Held, InMind, CreateSteps, Unsaved
<1>3. PICK z \in State : z = st[p]
  BY <1>2 DEF TypeOK
<1>4. Sound(z)
  BY <1>3 DEF LifeInv, Shape, States, Sound
<1>5. UNCHANGED <<cloud, disk, files, owner, kind, plan, policy, key, minted, recorded, creates, trouble>>
  BY DEF AdoptTunnel
<1>6. CASE st' = st /\ Go(p, "unwind")
  <2>1. at'[p] = "unwind" /\ ~minted'[p]
    BY <1>2, <1>5, <1>6 DEF TypeOK, Go
  <2>2. InMemory(p, z)
    BY <1>2, <1>3, <1>6 DEF TypeOK, InMemory
  <2>3. Held(p)'
    BY <2>1, NothingHeld DEF CreateSteps, DeleteSteps
  <2>4. Phases'
    BY <1>1, <1>2, <1>5, <1>6 DEF LifeInv, Shape, TypeOK, Go, Phases, CreateSteps, DeleteSteps,
                                  BeforeMint, File
  <2> QED BY <1>1, <1>2, <1>4, <1>5, <1>6, <2>2, <2>3, <2>4, LearnsKeep DEF Ordering, At
<1>7. ASSUME NEW t \in AllLive("tunnel"), Go(p, "saveTunnel"),
             InMemory(p, [st[p] EXCEPT !.tunnel = t, !.origin = "adopted"])
      PROVE  LifeInv'
  <2>1. PICK x \in State : x = [z EXCEPT !.tunnel = t, !.origin = "adopted"]
    <3>1. t \in Id
      BY BoundsAssumption DEF AllLive, Id
    <3>2. [z EXCEPT !.tunnel = t, !.origin = "adopted"] \in State
      BY <3>1 DEF State
    <3> QED BY <3>2
  <2>2. /\ x.tunnel = t /\ x.origin = "adopted" /\ x.server = z.server /\ x.policy = z.policy
        /\ x.device = z.device /\ x.key = z.key /\ x.window = z.window
    BY <2>1 DEF State
  <2>3. t <= made["tunnel"]
    <3>1. <<"tunnel", t>> \in live /\ Known(<<"tunnel", t>>)
      BY DEF AllLive, Live, LifeInv, Shape, Numbered
    <3> QED BY <3>1 DEF Known
  <2>4. Sound(x)
    BY <1>4, <2>2, <2>3 DEF Sound
  <2>5. at'[p] = "saveTunnel" /\ st'[p] = x /\ InMemory(p, x)
    BY <1>2, <1>3, <1>7, <2>1 DEF TypeOK, Go, InMemory
  <2>6. Carried(p)'
    <3>1. disk # NoState /\ Owed \subseteq Refs(z)
      BY <1>1, <1>2, <1>3 DEF Held, Carried, Carries, CreateSteps
    <3>2. Owed \subseteq Refs(x)
      <4> SUFFICES ASSUME NEW r \in Owed PROVE r \in Refs(x)
        OBVIOUS
      <4>1. r \in Resource /\ r \in Refs(z)
        BY <1>2, <3>1 DEF TypeOK, Owed
      <4>2. z.tunnel = 0
        BY <1>1, <1>3
      <4> QED BY <2>2, <4>1, <4>2, InRefs DEF Resource
    <3> QED BY <1>5, <2>5, <3>1, <3>2 DEF Carried, Owed, cloud
  <2>7. InMind(p)' /\ Removing(p)' /\ PoliciesInMind(p)'
    BY <1>2, <1>3, <1>5, <2>2, <2>5 DEF InMind, Removing, PoliciesInMind, Cleaning, CreateSteps,
                                        DeleteSteps, Unsaved, Bound
  <2>8. KeysInMind(p)'
    BY <1>1, <1>2, <1>3, <1>5, <2>2, <2>5 DEF Held, KeysInMind, Carries, CreateSteps, Windowed, cloud
  <2>9. Phases'
    BY <1>1, <1>2, <1>5, <1>7 DEF LifeInv, Shape, TypeOK, Go, Phases, CreateSteps, DeleteSteps,
                                  BeforeMint, File
  <2> QED
    BY <1>1, <1>2, <1>5, <1>7, <2>4, <2>5, <2>6, <2>7, <2>8, <2>9, LearnsKeep DEF Held, Ordering, At
<1> QED BY <1>6, <1>7 DEF AdoptTunnel

LEMMA OneOf ==
  ASSUME NEW S \in SUBSET (1 .. Ids), Cardinality(S) = 1, NEW x \in S
  PROVE  S = {x}
<1>1. IsFiniteSet(1 .. Ids)
  BY BoundsAssumption, FS_Interval
<1>2. IsFiniteSet(S)
  BY <1>1, FS_Subset
<1> QED BY <1>2, FS_Singleton

(* The one server of that name is the one that was just ordered.            *)
LEMMA LookUpKeeps == ASSUME LifeInv, NEW p \in Proc, LookUp(p) PROVE LifeInv'
<1>1. at[p] = "lookUp" /\ Go(p, "savePartial")
  BY DEF LookUp
<1>2. owner = p /\ Held(p) /\ TypeOK /\ st[p] = disk
  BY <1>1, Holder DEF LifeInv, Shape, Held, InMind, CreateSteps, Unsaved
<1>3. PICK z \in State : z = st[p]
  BY <1>2 DEF TypeOK
<1>4. UNCHANGED <<cloud, disk, files, owner, kind, plan, policy, key, minted, recorded, creates>>
  BY DEF LookUp
<1>5. PICK s \in 0 .. Ids, f \in {"ok", "abort"} :
        /\ InMemory(p, WithCompute(p, s)) /\ Answered(f)
        /\ s # 0 => AllLive("server") = {s}
  <2>1. CASE \E s \in AllLive("server") : InMemory(p, WithCompute(p, s)) /\ UNCHANGED trouble
               /\ Cardinality(AllLive("server")) = 1
    BY <2>1, OneOf DEF AllLive, Answered
  <2>2. CASE InMemory(p, WithCompute(p, 0)) /\ (Fault("abort") \/ UNCHANGED trouble)
    BY <2>2, BoundsAssumption DEF Answered
  <2> QED BY <2>1, <2>2 DEF LookUp
<1>6. PICK x \in State : x = WithCompute(p, s)
  BY <1>2, <1>3 DEF WithCompute, State, TypeOK, Id
<1>7. /\ x.server = s /\ x.policy = policy[p] /\ x.tunnel = z.tunnel /\ x.origin = z.origin
      /\ x.device = z.device /\ x.key = z.key /\ x.window = z.window
  BY <1>3, <1>6 DEF WithCompute, State
<1>8. z.server = 0 /\ z.policy \in {0, policy[p]} /\ policy[p] # 0 /\ z.key = key[p] /\ z.window = key[p]
  BY <1>1, <1>2, <1>3 DEF Held, InMind
<1>9. Sound(x)
  <2>1. Sound(z)
    BY <1>3 DEF LifeInv, Shape, States, Sound
  <2>2. s # 0 => Known(<<"server", s>>)
    BY <1>5 DEF AllLive, Live, LifeInv, Shape, Numbered
  <2>3. s <= made["server"]
    BY <1>2, <2>2 DEF Known, TypeOK, Type, Id
  <2>4. policy[p] <= made["policy"]
    BY DEF LifeInv, Shape, Numbered
  <2> QED BY <1>7, <1>8, <2>1, <2>3, <2>4 DEF Sound
<1>10. at'[p] = "savePartial" /\ st'[p] = x
  BY <1>1, <1>2, <1>5, <1>6 DEF TypeOK, Go, InMemory
<1>11. Carried(p)'
  <2>1. disk # NoState /\ Owed \subseteq Refs(z)
    BY <1>1, <1>2, <1>3 DEF Held, Carried, Carries, CreateSteps
  <2>2. Owed \subseteq Refs(x)
    <3> SUFFICES ASSUME NEW r \in Owed PROVE r \in Refs(x)
      OBVIOUS
    <3>1. r \in Resource /\ r \in Refs(z)
      BY <1>2, <2>1 DEF TypeOK, Owed
    <3> QED BY <1>7, <1>8, <3>1, InRefs DEF Resource
  <2> QED BY <1>4, <1>10, <2>1, <2>2 DEF Carried, Owed, cloud
<1>12. InMind(p)' /\ Removing(p)' /\ PoliciesInMind(p)'
  BY <1>1, <1>2, <1>3, <1>4, <1>7, <1>8, <1>10
     DEF Held, InMind, Removing, PoliciesInMind, Cleaning, CreateSteps, DeleteSteps, Unsaved, Bound
<1>13. KeysInMind(p)'
  <2>1. Windowed(z) /\ \A t \in 1 .. Ids : boot[t].key = key[p] => t \in AllLive("server")
    BY <1>1, <1>2, <1>3 DEF Held, KeysInMind, Carries, CreateSteps, Windowed, AllLive
  <2>2. Windowed(x)
    BY <1>5, <1>7, <1>8, <2>1 DEF Windowed
  <2> QED BY <1>4, <1>10, <2>2 DEF KeysInMind, Windowed, cloud
<1>14. Phases'
  BY <1>1, <1>2, <1>4 DEF LifeInv, Shape, TypeOK, Go, Phases, CreateSteps, DeleteSteps, BeforeMint, File
<1> QED
  BY <1>1, <1>2, <1>4, <1>5, <1>6, <1>9, <1>10, <1>11, <1>12, <1>13, <1>14, LearnsKeep
     DEF Held, Ordering, At

(* A device is bound only while no other is recorded.                       *)
LEMMA BindDeviceKeeps == ASSUME LifeInv, NEW p \in Proc, BindDevice(p) PROVE LifeInv'
<1>1. at[p] = "bind" /\ Go(p, "saveDevice")
  BY DEF BindDevice
<1>2. owner = p /\ Held(p) /\ TypeOK /\ st[p] = disk
  BY <1>1, Holder DEF LifeInv, Shape, Held, InMind, CreateSteps, Unsaved
<1>3. PICK z \in State : z = st[p]
  BY <1>2 DEF TypeOK
<1>4. /\ UNCHANGED <<cloud, disk, files, owner, kind, plan, policy, key, minted, recorded, creates>>
      /\ UNCHANGED trouble
  BY DEF BindDevice
<1>5. PICK d \in Candidates(p) : InMemory(p, [st[p] EXCEPT !.device = d, !.window = 0])
  BY DEF BindDevice
<1>6. d \in AllLive("device") /\ (z.window = 0 /\ z.device # 0 => d = z.device)
  BY <1>3, <1>5 DEF Candidates
<1>7. PICK x \in State : x = [z EXCEPT !.device = d, !.window = 0]
  <2>1. d \in Id
    BY <1>6, BoundsAssumption DEF AllLive, Id
  <2>2. 0 \in Id
    BY BoundsAssumption DEF Id
  <2>3. [z EXCEPT !.device = d, !.window = 0] \in State
    BY <2>1, <2>2 DEF State
  <2> QED BY <2>3
<1>8. /\ x.device = d /\ x.window = 0 /\ x.server = z.server /\ x.policy = z.policy
      /\ x.tunnel = z.tunnel /\ x.origin = z.origin /\ x.key = z.key
  BY <1>7 DEF State
<1>9. Sound(z) /\ z.server # 0 /\ z.key \in {0, key[p]}
  BY <1>1, <1>2, <1>3 DEF LifeInv, Shape, States, Sound, Held, InMind, Bound
<1>10. Sound(x)
  <2>1. Known(<<"device", d>>) /\ made["key"] \in Nat
    BY <1>2, <1>6 DEF AllLive, Live, LifeInv, Shape, Numbered, TypeOK, Type, Id
  <2> QED BY <1>8, <1>9, <2>1 DEF Sound, Known
<1>11. at'[p] = "saveDevice" /\ st'[p] = x
  BY <1>1, <1>2, <1>3, <1>5, <1>7 DEF TypeOK, Go, InMemory
<1>12. Carried(p)'
  <2>1. disk # NoState /\ Owed \subseteq Refs(z)
    BY <1>1, <1>2, <1>3 DEF Held, Carried, Carries, CreateSteps
  <2>2. z.device # 0 => d = z.device
    BY <1>6, <1>9 DEF Sound
  <2>3. Owed \subseteq Refs(x)
    <3> SUFFICES ASSUME NEW r \in Owed PROVE r \in Refs(x)
      OBVIOUS
    <3>1. r \in Resource /\ r \in Refs(z)
      BY <1>2, <2>1 DEF TypeOK, Owed
    <3> QED BY <1>8, <2>2, <3>1, InRefs DEF Resource
  <2> QED BY <1>4, <1>11, <2>1, <2>3 DEF Carried, Owed, cloud
<1>13. InMind(p)' /\ Removing(p)' /\ PoliciesInMind(p)'
  BY <1>1, <1>2, <1>3, <1>4, <1>8, <1>9, <1>11
     DEF Held, InMind, Removing, PoliciesInMind, Cleaning, CreateSteps, DeleteSteps, Unsaved, Bound
<1>14. KeysInMind(p)'
  BY <1>8, <1>11 DEF KeysInMind, Windowed
<1>15. Phases'
  BY <1>1, <1>2, <1>4 DEF LifeInv, Shape, TypeOK, Go, Phases, CreateSteps, DeleteSteps, BeforeMint, File
<1>16. InMemory(p, x)
  BY <1>3, <1>5, <1>7
<1> QED
  BY <1>1, <1>2, <1>4, <1>10, <1>12, <1>13, <1>14, <1>15, <1>16, LearnsKeep DEF Held, Ordering, At

LEMMA InitializeStateKeeps == ASSUME LifeInv, NEW p \in Proc, InitializeState(p) PROVE LifeInv'
<1>1. at[p] = "init" /\ Go(p, "makeTunnel")
  BY DEF InitializeState
<1>2. owner = p /\ ~minted[p] /\ TypeOK
  BY <1>1, Holder DEF LifeInv, Shape, Phases
<1>3. UNCHANGED <<cloud, files, owner, kind, plan, policy, key, minted, creates, trouble>>
  BY DEF InitializeState
<1>4. PICK x \in State :
        /\ Sound(x) /\ InMemory(p, x) /\ disk' = x /\ recorded' = recorded
        /\ x = disk \/ (disk = NoState /\ x = Blank)
  BY <1>2, BlankSound DEF InitializeState, Save, NoSave, LifeInv, Shape, States, TypeOK
<1>5. Calm /\ Grows /\ x # NoState
  BY <1>2, <1>3, NoStateAssumption, CalmGrows DEF Calm, cloud
<1>6. TypeOK'
  <2>1. /\ live' \subseteq Resource /\ made' \in [Type -> Id] /\ UNCHANGED <<foreign, joined>>
        /\ boot' \in [1 .. Ids -> [policy : Id, key : Id]] /\ files' \subseteq File
        /\ policy' \in [Proc -> Id] /\ key' \in [Proc -> Id] /\ minted' \in [Proc -> BOOLEAN]
        /\ faults' \in 0 .. Budget /\ seen' \subseteq Faults
    BY <1>2, <1>3 DEF TypeOK, cloud, trouble
  <2> QED BY <1>1, <1>2, <1>3, <1>4, <2>1, StepTyped DEF At
<1>7. Phases'
  BY <1>1, <1>2, <1>3 DEF LifeInv, Shape, TypeOK, Go, Phases, CreateSteps, DeleteSteps, BeforeMint, File
<1>8. Shape'
  <2>1. Sound(x)'
    BY <1>2, <1>4, <1>5, <1>6, SoundStays
  <2>2. /\ \A q \in Proc : policy'[q] <= made'["policy"] /\ key'[q] <= made'["key"]
        /\ \A t \in foreign' : t <= made'["tunnel"]
        /\ \A s \in 1 .. Ids : /\ boot'[s].key <= made'["key"] /\ joined'[s] <= made'["key"]
                               /\ joined'[s] # 0 => s <= made'["server"]
    BY <1>3 DEF LifeInv, Shape, Numbered, cloud
  <2> QED BY <1>4, <1>5, <1>6, <1>7, <2>1, <2>2, ShapeStays DEF LifeInv, Calm
<1>9. Owed' \subseteq Refs(x)
  BY <1>3, <1>4, BlankSound DEF LifeInv, Owed, Refs, cloud
<1>10. KeysOnDisk' /\ Windowed(x)'
  BY <1>3, <1>4, <1>5, BoundsAssumption DEF LifeInv, KeysOnDisk, Windowed, MayEnrol, Live, Blank, cloud
<1>11. OneServer'
  <2>1. ~Ordering(p) /\ \A q \in Proc : Ordering(q) => q = p
    BY <1>1, <1>2 DEF Ordering
  <2>2. CallsFail' = CallsFail /\ AllLive("server")' = AllLive("server") /\ boot' = boot
    BY <1>3 DEF CallsFail, AllLive, Live, cloud, trouble
  <2> QED BY <1>4, <1>5, <2>1, <2>2 DEF LifeInv, OneServer
<1>12. at'[p] = "makeTunnel" /\ st'[p] = x /\ disk' = x /\ ~minted'[p]
  BY <1>1, <1>2, <1>3, <1>4 DEF TypeOK, Go, InMemory
<1>13. Held(p)'
  <2>1. Carried(p)' /\ KeysInMind(p)'
    BY <1>5, <1>9, <1>10, <1>12 DEF Carried, Owed, KeysInMind, Windowed
  <2>2. InMind(p)' /\ Removing(p)' /\ PoliciesInMind(p)'
    BY <1>12 DEF InMind, Removing, PoliciesInMind, Cleaning, CreateSteps, DeleteSteps, Unsaved, Bound
  <2> QED BY <2>1, <2>2 DEF Held
<1> QED BY <1>2, <1>3, <1>4, <1>8, <1>9, <1>10, <1>11, <1>13, HolderKeeps DEF Owed
-----------------------------------------------------------------------------
(* What a command makes *)

LEMMA MakeGrows == ASSUME TypeOK, NEW t \in Type, Make(t), UNCHANGED <<foreign, joined>> PROVE Grows
  BY MakeTyped DEF Grows

LEMMA MakeShape ==
  ASSUME LifeInv, Phases', NEW p \in Proc, NEW x \in State, NEW a \in At, NEW f,
         NEW t \in Type \ {"device"}, owner = p, Make(t), Sound(x)', InMemory(p, x), Go(p, a),
         Answered(f), UNCHANGED <<foreign, joined, disk, files, owner, kind, plan, recorded, creates>>,
         boot' \in [1 .. Ids -> [policy : Id, key : Id]],
         policy' \in [Proc -> Id], key' \in [Proc -> Id], minted' \in [Proc -> BOOLEAN],
         \A s \in 1 .. Ids : boot'[s].key <= made'["key"],
         \A q \in Proc : policy'[q] <= made'["policy"] /\ key'[q] <= made'["key"]
  PROVE  /\ Shape' /\ seen \subseteq seen' /\ Owed' = Owed
         /\ <<t, made'[t]>> \notin live /\ live' = live \union {<<t, made'[t]>>}
<1>1. TypeOK /\ t \in Type /\ faults' \in 0 .. Budget /\ seen' \subseteq Faults /\ seen \subseteq seen'
  BY TroubleTyped DEF LifeInv, Shape
<1>2. live' \subseteq Resource /\ made' \in [Type -> Id] /\ live' = live \union {<<t, made'[t]>>}
      /\ made'[t] = made[t] + 1
  BY <1>1, MakeTyped
<1>3. made[t] \in Nat
  BY <1>1 DEF TypeOK, Id
<1>4. Grows
  BY <1>1, MakeGrows
<1>5. TypeOK'
  <2>1. files' \subseteq File
    BY <1>1 DEF TypeOK
  <2> QED BY <1>1, <1>2, <2>1, StepTyped
<1>6. PICK r : r = <<t, made'[t]>>
  OBVIOUS
<1>7. ~Known(r) /\ Known(r)'
  BY <1>2, <1>6, <1>3 DEF Known, Id
<1>8. r \notin live \union recorded
  BY <1>7 DEF LifeInv, Shape, Numbered
<1>9. \A y \in live' \ live : Known(y)'
  BY <1>2, <1>6, <1>7
<1>10. /\ \A u \in foreign' : u <= made'["tunnel"]
      /\ \A s \in 1 .. Ids : joined'[s] <= made'["key"] /\ (joined'[s] # 0 => s <= made'["server"])
  <2>1. \A u \in Type : made[u] \in Nat /\ made'[u] \in Nat /\ made[u] <= made'[u]
    BY <1>1, <1>2, <1>4 DEF TypeOK, Grows, Id
  <2>2. made["tunnel"] <= made'["tunnel"] /\ made["key"] <= made'["key"]
        /\ made["server"] <= made'["server"]
    BY <2>1 DEF Type
  <2>3. foreign \subseteq Nat /\ \A s \in 1 .. Ids : s \in Nat /\ joined[s] \in Nat
    BY <1>1, BoundsAssumption DEF TypeOK, Id
  <2> QED BY <2>1, <2>2, <2>3, SMTT(60) DEF LifeInv, Shape, Numbered, Type
<1>11. Shape'
  BY <1>5, <1>9, <1>10, <1>4, ShapeStays DEF LifeInv
<1> QED BY <1>1, <1>2, <1>6, <1>8, <1>11 DEF Owed

(* No server carries a key that was not yet minted.                         *)
LEMMA MakeKeys ==
  ASSUME LifeInv, NEW t \in {"tunnel", "policy", "key"}, Make(t), UNCHANGED <<joined, boot, disk>>
  PROVE  /\ KeysOnDisk' /\ AllLive("server")' = AllLive("server")
         /\ \A s \in 1 .. Ids : Live("server", s)' <=> Live("server", s)
         /\ \A s \in 1 .. Ids : t = "key" => boot[s].key < made'["key"] /\ joined[s] < made'["key"]
<1>1. TypeOK /\ t \in Type
  BY DEF LifeInv, Shape, Type
<1>2. live' = live \union {<<t, made'[t]>>} /\ made[t] \in Nat /\ made'[t] = made[t] + 1
  BY <1>1, MakeTyped DEF TypeOK, Id
<1>3. \A s \in 1 .. Ids : boot[s].key \in Nat /\ joined[s] \in Nat
  BY <1>1, BoundsAssumption DEF TypeOK, Id
<1>4. \A s \in 1 .. Ids : t = "key" => boot[s].key < made'["key"] /\ joined[s] < made'["key"]
  BY <1>2, <1>3 DEF LifeInv, Shape, Numbered
<1>5. \A s \in 1 .. Ids : Live("server", s)' <=> Live("server", s)
  BY <1>2 DEF Live
<1>6. \A s \in 1 .. Ids : MayEnrol(s)' => MayEnrol(s)
  BY <1>2, <1>3, <1>4, <1>5 DEF MayEnrol, Live
<1>7. AllLive("server")' = AllLive("server")
  BY <1>5 DEF AllLive
<1> QED BY <1>4, <1>5, <1>6, <1>7 DEF LifeInv, KeysOnDisk, Windowed

LEMMA ServersStay ==
  ASSUME LifeInv, seen \subseteq seen', AllLive("server")' = AllLive("server"),
         UNCHANGED <<boot, disk>>, NEW p \in Proc, owner = p,
         CallsFail => ~Ordering(p)
  PROVE  OneServer'
<1>1. CallsFail' => CallsFail
  BY DEF CallsFail
<1>2. CallsFail => \A q \in Proc : ~Ordering(q)
  BY DEF Ordering
<1> QED BY <1>1, <1>2 DEF LifeInv, OneServer

LEMMA CreateTunnelKeeps == ASSUME LifeInv, NEW p \in Proc, CreateTunnel(p) PROVE LifeInv'
<1>1. at[p] = "makeTunnel" /\ st[p].tunnel = 0 /\ Make("tunnel")
  BY DEF CreateTunnel, LacksTunnel
<1>2. owner = p /\ Held(p) /\ ~minted[p] /\ TypeOK /\ st[p] = disk /\ "tunnel" \in Type
  BY <1>1, Holder DEF LifeInv, Shape, Phases, BeforeMint, Held, InMind, CreateSteps, Unsaved, Type
<1>3. PICK z \in State : z = st[p]
  BY <1>2 DEF TypeOK
<1>4. UNCHANGED <<foreign, boot, joined, disk, files, owner, kind, plan, policy, key, minted, recorded,
                  creates>>
  BY DEF CreateTunnel
<1>5. /\ made'["tunnel"] \in 1 .. Ids /\ made["tunnel"] \in Nat /\ made'["tunnel"] = made["tunnel"] + 1
      /\ \A u \in Type : made[u] \in Nat /\ made[u] <= made'[u] /\ made'[u] \in Nat
      /\ made' \in [Type -> Id] /\ live' = live \union {<<"tunnel", made'["tunnel"]>>}
  BY <1>1, <1>2, MakeTyped, SMTT(60) DEF TypeOK, Id
<1>6. PICK x \in State, a \in {"saveTunnel", "unwind"}, f \in {"ok", "lost"} :
        /\ Answered(f) /\ InMemory(p, x) /\ Go(p, a)
        /\ \/ a = "saveTunnel" /\ x = [z EXCEPT !.tunnel = made'["tunnel"], !.origin = "created"]
           \/ a = "unwind" /\ x = z
  <2>1. CASE /\ InMemory(p, [z EXCEPT !.tunnel = made'["tunnel"], !.origin = "created"])
             /\ Go(p, "saveTunnel") /\ Answered("ok")
    <3>1. made'["tunnel"] \in Id
      BY <1>2, <1>5
    <3>2. [z EXCEPT !.tunnel = made'["tunnel"], !.origin = "created"] \in State
      BY <3>1 DEF State
    <3> QED BY <2>1, <3>2
  <2>2. CASE Go(p, "unwind") /\ UNCHANGED st /\ Answered("lost")
    <3>1. InMemory(p, z)
      BY <1>2, <1>3, <2>2 DEF TypeOK, InMemory
    <3> QED BY <2>2, <3>1
  <2> QED BY <1>3, <2>1, <2>2 DEF CreateTunnel
<1>7. at'[p] = a /\ st'[p] = x /\ ~minted'[p]
  BY <1>2, <1>4, <1>6 DEF TypeOK, Go, InMemory
<1>8. /\ x.server = z.server /\ x.policy = z.policy /\ x.device = z.device /\ x.key = z.key
      /\ x.window = z.window /\ (a = "saveTunnel" => x.tunnel = made'["tunnel"])
      /\ (a = "unwind" => x.tunnel = z.tunnel)
  BY <1>6 DEF State
<1>9. Phases'
  BY <1>1, <1>2, <1>4, <1>6 DEF LifeInv, Shape, TypeOK, Go, Phases, CreateSteps, DeleteSteps, BeforeMint,
                                File
<1>10. Sound(x)'
  <2>1. Sound(z) /\ z.tunnel = 0
    BY <1>1, <1>3 DEF LifeInv, Shape, States, Sound
  <2>2. /\ x.server <= made'["server"] /\ x.policy <= made'["policy"]
        /\ x.key <= made'["key"] /\ x.window <= made'["key"]
    <3>1. /\ made["server"] <= made'["server"] /\ made["policy"] <= made'["policy"]
          /\ made["key"] <= made'["key"]
      BY <1>5 DEF Type
    <3> QED BY <1>5, <1>8, <2>1, <3>1 DEF Sound, State, Type, Id
  <2>3. x.tunnel <= made'["tunnel"] /\ (x.tunnel = 0 \/ x.tunnel \notin foreign)
    BY <1>5, <1>6, <1>8, <2>1 DEF LifeInv, Shape, Numbered
  <2> QED BY <1>4, <1>5, <1>8, <2>1, <2>2, <2>3 DEF Sound
<1>11. Shape' /\ seen \subseteq seen' /\ Owed' = Owed
  <2>1. /\ boot' \in [1 .. Ids -> [policy : Id, key : Id]]
        /\ policy' \in [Proc -> Id] /\ key' \in [Proc -> Id] /\ minted' \in [Proc -> BOOLEAN]
    BY <1>2, <1>4 DEF TypeOK
  <2>2. /\ \A s \in 1 .. Ids : boot'[s].key <= made'["key"]
        /\ \A q \in Proc : policy'[q] <= made'["policy"] /\ key'[q] <= made'["key"]
    <3>1. made["policy"] = made'["policy"] /\ made["key"] = made'["key"]
      BY <1>1, <1>2, MakeTyped DEF Type
    <3> QED BY <1>4, <3>1 DEF LifeInv, Shape, Numbered
  <2>3. a \in At /\ "tunnel" \in Type \ {"device"}
    BY <1>2 DEF At
  <2> QED BY <1>1, <1>2, <1>4, <1>6, <1>9, <1>10, <2>1, <2>2, <2>3, MakeShape
<1>12. KeysOnDisk' /\ AllLive("server")' = AllLive("server")
  BY <1>1, <1>4, MakeKeys
<1>13. OneServer'
  BY <1>1, <1>2, <1>4, <1>11, <1>12, ServersStay DEF Ordering
<1>14. Held(p)'
  <2>1. CASE a = "unwind"
    BY <1>7, <2>1, NothingHeld DEF CreateSteps, DeleteSteps
  <2>2. CASE a = "saveTunnel"
    <3>1. disk # NoState /\ Owed \subseteq Refs(z) /\ Windowed(z)
      BY <1>1, <1>2, <1>3 DEF Held, Carried, KeysInMind, Carries, CreateSteps, Windowed
    <3>2. Owed \subseteq Refs(x)
      <4> SUFFICES ASSUME NEW r \in Owed PROVE r \in Refs(x)
        OBVIOUS
      <4>1. r \in Resource /\ r \in Refs(z) /\ z.tunnel = 0
        BY <1>1, <1>2, <1>3, <3>1 DEF TypeOK, Owed
      <4> QED BY <1>8, <4>1, InRefs DEF Resource
    <3>3. Carried(p)' /\ KeysInMind(p)'
      BY <1>4, <1>7, <1>8, <1>11, <2>2, <3>1, <3>2 DEF Carried, KeysInMind, Windowed
    <3>4. InMind(p)' /\ Removing(p)' /\ PoliciesInMind(p)'
      BY <1>2, <1>3, <1>4, <1>7, <1>8, <2>2
         DEF InMind, Removing, PoliciesInMind, Cleaning, CreateSteps, DeleteSteps, Unsaved, Bound
    <3> QED BY <3>3, <3>4 DEF Held
  <2> QED BY <1>6, <2>1, <2>2
<1> QED BY <1>2, <1>4, <1>11, <1>12, <1>13, <1>14, HolderKeeps DEF LifeInv

LEMMA MintKeyKeeps == ASSUME LifeInv, NEW p \in Proc, MintKey(p) PROVE LifeInv'
<1>1. at[p] = "mint" /\ Make("key")
  BY DEF MintKey
<1>2. owner = p /\ Held(p) /\ ~minted[p] /\ TypeOK /\ st[p] = disk /\ disk # NoState /\ "key" \in Type
  BY <1>1, Holder DEF LifeInv, Shape, Phases, BeforeMint, Held, InMind, Carried, Carries, CreateSteps,
                      Unsaved, Type
<1>3. PICK z \in State : z = st[p]
  BY <1>2 DEF TypeOK
<1>4. UNCHANGED <<foreign, boot, joined, disk, files, owner, kind, plan, policy, recorded, creates>>
  BY DEF MintKey
<1>5. /\ made'["key"] \in 1 .. Ids /\ made["key"] \in Nat /\ made'["key"] = made["key"] + 1
      /\ \A u \in Type : made[u] \in Nat /\ made[u] <= made'[u] /\ made'[u] \in Nat
      /\ made' \in [Type -> Id] /\ live' = live \union {<<"key", made'["key"]>>}
      /\ \A u \in Type \ {"key"} : made'[u] = made[u]
  BY <1>1, <1>2, MakeTyped DEF TypeOK, Id
<1>6. PICK k \in Id : k = made'["key"] /\ k # 0
  BY <1>2, <1>5
<1>7. PICK x \in State, a \in {"saveKey", "unwind"}, f \in {"ok", "lost"} :
        /\ Answered(f) /\ InMemory(p, x) /\ Go(p, a)
        /\ \/ /\ a = "saveKey" /\ x = [z EXCEPT !.key = k, !.window = k]
              /\ key' = [key EXCEPT ![p] = k] /\ minted' = [minted EXCEPT ![p] = TRUE]
           \/ a = "unwind" /\ x = z /\ UNCHANGED <<key, minted>>
  <2>1. CASE /\ InMemory(p, [z EXCEPT !.key = k, !.window = k]) /\ Go(p, "saveKey") /\ Answered("ok")
             /\ key' = [key EXCEPT ![p] = k] /\ minted' = [minted EXCEPT ![p] = TRUE]
    <3>1. [z EXCEPT !.key = k, !.window = k] \in State
      BY DEF State
    <3> QED BY <2>1, <3>1
  <2>2. CASE Go(p, "unwind") /\ UNCHANGED <<st, key, minted>> /\ Answered("lost")
    <3>1. InMemory(p, z)
      BY <1>2, <1>3, <2>2 DEF TypeOK, InMemory
    <3> QED BY <2>2, <3>1
  <2> QED BY <1>3, <1>6, <2>1, <2>2 DEF MintKey
<1>8. at'[p] = a /\ st'[p] = x /\ (a = "saveKey" => key'[p] = k) /\ (a = "unwind" => ~minted'[p])
  BY <1>2, <1>7 DEF TypeOK, Go, InMemory
<1>9. /\ x.server = z.server /\ x.policy = z.policy /\ x.device = z.device /\ x.tunnel = z.tunnel
      /\ x.origin = z.origin /\ (a = "saveKey" => x.key = k /\ x.window = k)
  BY <1>7 DEF State
<1>10. z.server = 0 /\ z.key = 0 /\ Sound(z)
  BY <1>1, <1>2, <1>3 DEF Held, InMind, LifeInv, Shape, States, Sound
<1>11. Phases'
  BY <1>1, <1>2, <1>4, <1>7 DEF LifeInv, Shape, TypeOK, Go, Phases, CreateSteps, DeleteSteps,
                                BeforeMint, File
<1>12. Sound(x)'
  <2>1. /\ made["server"] = made'["server"] /\ made["policy"] = made'["policy"]
        /\ made["tunnel"] = made'["tunnel"]
    BY <1>5 DEF Type
  <2>2. x.key <= made'["key"] /\ x.window <= made'["key"]
    BY <1>5, <1>6, <1>7, <1>9, <1>10 DEF Sound, State, Id
  <2> QED BY <1>4, <1>7, <1>9, <1>10, <2>1, <2>2 DEF Sound
<1>13. Shape' /\ seen \subseteq seen' /\ Owed' = Owed
  <2>1. /\ boot' \in [1 .. Ids -> [policy : Id, key : Id]]
        /\ policy' \in [Proc -> Id] /\ key' \in [Proc -> Id]
    BY <1>2, <1>4, <1>7 DEF TypeOK
  <2>5. minted' \in [Proc -> BOOLEAN]
    BY <1>2, <1>7 DEF TypeOK
  <2>2. \A s \in 1 .. Ids : boot'[s].key <= made'["key"]
    <3>1. \A s \in 1 .. Ids : boot[s].key \in Nat
      BY <1>2, BoundsAssumption DEF TypeOK, Id
    <3> QED BY <1>4, <1>5, <3>1 DEF LifeInv, Shape, Numbered
  <2>3. \A q \in Proc : policy'[q] <= made'["policy"] /\ key'[q] <= made'["key"]
    <3>1. made["policy"] = made'["policy"]
      BY <1>5 DEF Type
    <3>2. \A q \in Proc : key'[q] = key[q] \/ key'[q] = k
      BY <1>2, <1>7 DEF TypeOK
    <3>3. \A q \in Proc : key[q] \in Nat /\ key[q] <= made["key"]
      BY <1>2 DEF LifeInv, Shape, Numbered, TypeOK, Id
    <3> QED BY <1>4, <1>5, <1>6, <3>1, <3>2, <3>3 DEF LifeInv, Shape, Numbered
  <2>4. a \in At /\ "key" \in Type \ {"device"}
    BY <1>2 DEF At
  <2> QED BY <1>1, <1>2, <1>4, <1>7, <1>11, <1>12, <2>1, <2>2, <2>3, <2>4, <2>5, MakeShape
<1>14. /\ KeysOnDisk' /\ AllLive("server")' = AllLive("server")
       /\ \A s \in 1 .. Ids : boot[s].key < k /\ joined[s] < k
  BY <1>1, <1>4, <1>6, MakeKeys
<1>15. OneServer'
  BY <1>1, <1>2, <1>4, <1>13, <1>14, ServersStay DEF Ordering
<1>16. Held(p)'
  <2>1. CASE a = "unwind"
    BY <1>8, <2>1, NothingHeld DEF CreateSteps, DeleteSteps
  <2>2. CASE a = "saveKey"
    <3>1. Owed \subseteq Refs(z)
      BY <1>1, <1>2, <1>3 DEF Held, Carried, Carries, CreateSteps
    <3>2. Owed \subseteq Refs(x)
      <4> SUFFICES ASSUME NEW r \in Owed PROVE r \in Refs(x)
        OBVIOUS
      <4>1. r \in Resource /\ r \in Refs(z)
        BY <1>2, <3>1 DEF TypeOK, Owed
      <4> QED BY <1>9, <1>10, <4>1, InRefs DEF Resource
    <3>3. Carried(p)'
      BY <1>2, <1>4, <1>8, <1>13, <3>2 DEF Carried
    <3>4. KeysInMind(p)'
      <4>1. \A s \in 1 .. Ids : boot[s].key # k /\ ~(joined[s] >= k)
        BY <1>2, <1>14, BoundsAssumption DEF TypeOK, Id
      <4> QED BY <1>4, <1>8, <1>9, <1>10, <2>2, <4>1 DEF KeysInMind, Windowed
    <3>5. InMind(p)' /\ Removing(p)' /\ PoliciesInMind(p)'
      BY <1>2, <1>3, <1>4, <1>6, <1>8, <1>9, <1>10, <2>2
         DEF InMind, Removing, PoliciesInMind, Cleaning, CreateSteps, DeleteSteps, Unsaved, Bound
    <3> QED BY <3>3, <3>4, <3>5 DEF Held
  <2> QED BY <1>7, <2>1, <2>2
<1> QED BY <1>2, <1>4, <1>13, <1>14, <1>15, <1>16, HolderKeeps DEF LifeInv

LEMMA CreatePolicyKeeps == ASSUME LifeInv, NEW p \in Proc, CreatePolicy(p) PROVE LifeInv'
<1>1. at[p] = "makePolicy" /\ st[p].policy = 0 /\ Make("policy")
  BY DEF CreatePolicy
<1>2. owner = p /\ Held(p) /\ TypeOK /\ st[p] = disk /\ disk # NoState /\ "policy" \in Type
  BY <1>1, Holder DEF LifeInv, Shape, Held, InMind, Carried, Carries, CreateSteps, Unsaved, Type
<1>3. PICK z \in State : z = st[p]
  BY <1>2 DEF TypeOK
<1>4. UNCHANGED <<foreign, boot, joined, disk, files, owner, kind, st, plan, key, minted, recorded,
                  creates>>
  BY DEF CreatePolicy
<1>5. /\ made'["policy"] \in 1 .. Ids /\ made["policy"] \in Nat
      /\ made'["policy"] = made["policy"] + 1
      /\ made' \in [Type -> Id] /\ live' = live \union {<<"policy", made'["policy"]>>}
      /\ \A u \in Type \ {"policy"} : made'[u] = made[u]
  BY <1>1, <1>2, MakeTyped DEF TypeOK, Id
<1>6. PICK n \in Id : n = made'["policy"] /\ n # 0
  BY <1>2, <1>5
<1>7. PICK a \in {"makeServer", "unwind"}, f \in {"ok", "lost"} :
        /\ Answered(f) /\ Go(p, a)
        /\ \/ a = "makeServer" /\ policy' = [policy EXCEPT ![p] = n]
           \/ a = "unwind" /\ policy' = policy
  BY <1>6 DEF CreatePolicy
<1>8. at'[p] = a /\ st'[p] = z /\ (a = "makeServer" => policy'[p] = n) /\ InMemory(p, z)
  BY <1>2, <1>3, <1>4, <1>7 DEF TypeOK, Go, InMemory
<1>9. Sound(z) /\ z.policy = 0
  BY <1>1, <1>3 DEF LifeInv, Shape, States, Sound
<1>10. Phases'
  BY <1>1, <1>2, <1>4, <1>7 DEF LifeInv, Shape, TypeOK, Go, Phases, CreateSteps, DeleteSteps,
                                BeforeMint, File
<1>11. Sound(z)'
  <2>1. /\ made["server"] = made'["server"] /\ made["key"] = made'["key"]
        /\ made["tunnel"] = made'["tunnel"]
    BY <1>5 DEF Type
  <2> QED BY <1>4, <1>5, <1>9, <2>1 DEF Sound
<1>12. Shape' /\ seen \subseteq seen' /\ Owed' = Owed
  <2>1. /\ boot' \in [1 .. Ids -> [policy : Id, key : Id]]
        /\ policy' \in [Proc -> Id] /\ key' \in [Proc -> Id] /\ minted' \in [Proc -> BOOLEAN]
    BY <1>2, <1>4, <1>7 DEF TypeOK
  <2>2. made'["key"] = made["key"]
    BY <1>5 DEF Type
  <2>3. \A s \in 1 .. Ids : boot'[s].key <= made'["key"]
    BY <1>4, <2>2 DEF LifeInv, Shape, Numbered
  <2>4. \A q \in Proc : policy'[q] <= made'["policy"] /\ key'[q] <= made'["key"]
    <3>1. \A q \in Proc : policy'[q] = policy[q] \/ policy'[q] = n
      BY <1>2, <1>7 DEF TypeOK
    <3>2. \A q \in Proc : policy[q] \in Nat /\ policy[q] <= made["policy"]
      BY <1>2 DEF LifeInv, Shape, Numbered, TypeOK, Id
    <3> QED BY <1>4, <1>5, <1>6, <2>2, <3>1, <3>2 DEF LifeInv, Shape, Numbered
  <2>5. a \in At /\ "policy" \in Type \ {"device"}
    BY <1>2 DEF At
  <2> QED BY <1>1, <1>2, <1>4, <1>7, <1>8, <1>10, <1>11, <2>1, <2>3, <2>4, <2>5, MakeShape
<1>13. KeysOnDisk' /\ AllLive("server")' = AllLive("server")
  BY <1>1, <1>4, MakeKeys
<1>14. OneServer'
  BY <1>1, <1>2, <1>4, <1>12, <1>13, ServersStay DEF Ordering
<1>15. Held(p)'
  <2>1. Carried(p)' /\ KeysInMind(p)' /\ Removing(p)'
    BY <1>1, <1>2, <1>4, <1>7, <1>8, <1>12
       DEF Held, Carried, KeysInMind, Removing, Carries, Cleaning, Windowed, CreateSteps, DeleteSteps
  <2>2. InMind(p)'
    BY <1>1, <1>2, <1>3, <1>4, <1>6, <1>7, <1>8, <1>9
       DEF Held, InMind, CreateSteps, DeleteSteps, Unsaved, Bound
  <2>3. PoliciesInMind(p)'
    <3>1. CallsFail => AllLive("server") = {}
      BY <1>1, <1>2 DEF LifeInv, OneServer, Ordering
    <3> QED BY <1>2, <1>4, <1>7, <1>8, <1>12, <1>13, <3>1 DEF PoliciesInMind, CallsFail
  <2> QED BY <2>1, <2>2, <2>3 DEF Held
<1> QED BY <1>2, <1>4, <1>12, <1>13, <1>14, <1>15, HolderKeeps DEF LifeInv

LEMMA CreateServerKeeps == ASSUME LifeInv, NEW p \in Proc, CreateServer(p) PROVE LifeInv'
<1>1. at[p] = "makeServer" /\ Make("server")
  BY DEF CreateServer
<1>2. owner = p /\ Held(p) /\ TypeOK /\ st[p] = disk /\ disk # NoState /\ "server" \in Type
  BY <1>1, Holder DEF LifeInv, Shape, Held, InMind, Carried, Carries, CreateSteps, Unsaved, Type
<1>3. PICK z \in State : z = st[p]
  BY <1>2 DEF TypeOK
<1>4. UNCHANGED <<foreign, joined, disk, files, owner, kind, plan, policy, key, minted, recorded, creates>>
  BY DEF CreateServer
<1>5. /\ made'["server"] \in 1 .. Ids /\ made["server"] \in Nat
      /\ made'["server"] = made["server"] + 1
      /\ made' \in [Type -> Id] /\ live' = live \union {<<"server", made'["server"]>>}
      /\ \A u \in Type \ {"server"} : made'[u] = made[u]
  BY <1>1, <1>2, MakeTyped DEF TypeOK, Id
<1>6. PICK n \in 1 .. Ids : n = made'["server"]
  BY <1>5
<1>7. PICK x \in State, a \in {"saveServer", "savePartial", "lookUp"}, f \in {"ok", "abort", "lost"} :
        /\ Answered(f) /\ InMemory(p, x) /\ Go(p, a)
        /\ \/ a \in {"saveServer", "savePartial"} /\ x = [z EXCEPT !.server = n, !.policy = policy[p]]
           \/ a = "lookUp" /\ x = z
  <2>1. CASE \E f \in {"ok", "abort"} :
               /\ InMemory(p, [z EXCEPT !.server = n, !.policy = policy[p]]) /\ Answered(f)
               /\ Go(p, "saveServer") \/ Go(p, "savePartial")
    <3>1. n \in Id /\ policy[p] \in Id
      BY <1>2, BoundsAssumption DEF TypeOK, Id
    <3>2. [z EXCEPT !.server = n, !.policy = policy[p]] \in State
      BY <3>1 DEF State
    <3> QED BY <2>1, <3>2
  <2>2. CASE Go(p, "lookUp") /\ UNCHANGED st /\ Answered("lost")
    <3>1. InMemory(p, z)
      BY <1>2, <1>3, <2>2 DEF TypeOK, InMemory
    <3> QED BY <2>2, <3>1
  <2> QED BY <1>3, <1>6, <2>1, <2>2 DEF CreateServer, WithCompute
<1>8. /\ at'[p] = a /\ st'[p] = x
      /\ boot' = [boot EXCEPT ![n] = [policy |-> policy[p], key |-> key[p]]]
  BY <1>2, <1>6, <1>7 DEF TypeOK, Go, InMemory, CreateServer
<1>9. /\ x.device = z.device /\ x.tunnel = z.tunnel /\ x.origin = z.origin /\ x.key = z.key
      /\ x.window = z.window
      /\ a \in {"saveServer", "savePartial"} => x.server = n /\ x.policy = policy[p]
      /\ a = "lookUp" => x.server = z.server /\ x.policy = z.policy
  BY <1>7 DEF State
<1>10. /\ Sound(z) /\ z.server = 0 /\ policy[p] # 0 /\ z.policy \in {0, policy[p]}
       /\ key[p] # 0 /\ z.key = key[p] /\ z.window = key[p]
  BY <1>1, <1>2, <1>3 DEF LifeInv, Shape, States, Sound, Held, InMind
<1>11. Phases'
  BY <1>1, <1>2, <1>4, <1>7 DEF LifeInv, Shape, TypeOK, Go, Phases, CreateSteps, DeleteSteps,
                                BeforeMint, File
<1>12. Sound(x)'
  <2>1. /\ made["policy"] = made'["policy"] /\ made["key"] = made'["key"]
        /\ made["tunnel"] = made'["tunnel"]
    BY <1>5 DEF Type
  <2>2. x.server <= made'["server"] /\ x.policy <= made'["policy"]
    BY <1>5, <1>6, <1>7, <1>9, <1>10, <2>1 DEF Sound, LifeInv, Shape, Numbered
  <2> QED BY <1>4, <1>9, <1>10, <2>1, <2>2 DEF Sound
<1>13. /\ Shape' /\ seen \subseteq seen' /\ Owed' = Owed /\ <<"server", n>> \notin live
  <2>1. /\ boot' \in [1 .. Ids -> [policy : Id, key : Id]]
        /\ policy' \in [Proc -> Id] /\ key' \in [Proc -> Id] /\ minted' \in [Proc -> BOOLEAN]
    BY <1>2, <1>4, <1>8 DEF TypeOK
  <2>2. made'["key"] = made["key"] /\ made'["policy"] = made["policy"]
    BY <1>5 DEF Type
  <2>3. \A s \in 1 .. Ids : boot'[s].key <= made'["key"]
    BY <1>2, <1>8, <2>2 DEF LifeInv, Shape, Numbered, TypeOK
  <2>4. \A q \in Proc : policy'[q] <= made'["policy"] /\ key'[q] <= made'["key"]
    BY <1>4, <2>2 DEF LifeInv, Shape, Numbered
  <2>5. a \in At /\ "server" \in Type \ {"device"}
    BY <1>2 DEF At
  <2> QED BY <1>1, <1>2, <1>4, <1>6, <1>7, <1>11, <1>12, <2>1, <2>3, <2>4, <2>5, MakeShape
<1>14. /\ \A s \in 1 .. Ids \ {n} : boot'[s] = boot[s]
       /\ boot'[n].key = key[p] /\ boot'[n].policy = policy[p] /\ joined[n] = 0
       /\ \A s \in 1 .. Ids \ {n} : Live("server", s)' = Live("server", s)
       /\ Live("server", n)' /\ \A k : Live("key", k)' = Live("key", k)
       /\ \A s \in 1 .. Ids : boot[s].key # key[p]
  <2>1. joined[n] = 0
    BY <1>2, <1>5, <1>6 DEF LifeInv, Shape, Numbered, TypeOK, Id
  <2>2. \A s \in 1 .. Ids : boot[s].key # key[p]
    BY <1>1, <1>2 DEF Held, KeysInMind
  <2>3. boot'[n].key = key[p] /\ boot'[n].policy = policy[p]
        /\ \A s \in 1 .. Ids \ {n} : boot'[s] = boot[s]
    BY <1>2, <1>8 DEF TypeOK
  <2> QED BY <1>5, <1>6, <2>1, <2>2, <2>3 DEF Live
<1>15. KeysOnDisk'
  <2>1. \A s \in 1 .. Ids : MayEnrol(s)' => boot'[s].key = disk.key
    BY <1>2, <1>3, <1>4, <1>10, <1>14 DEF LifeInv, KeysOnDisk, MayEnrol
  <2>2. Windowed(z)'
    <3>1. Windowed(z) /\ key[p] \in Nat
      BY <1>2, <1>3 DEF LifeInv, KeysOnDisk, Windowed, TypeOK, Id
    <3> QED BY <1>4, <1>10, <1>14, <3>1 DEF Windowed
  <2> QED BY <1>2, <1>3, <1>4, <2>1, <2>2 DEF KeysOnDisk, Windowed
<1>16. OneServer'
  <2>1. CallsFail' => AllLive("server") = {}
    BY <1>1, <1>2, <1>13 DEF Held, PoliciesInMind, CallsFail
  <2>2. CallsFail' => AllLive("server")' = {n}
    BY <1>14, <2>1 DEF AllLive
  <2>3. Ordering(p)' /\ boot'[n].policy = policy'[p]
    BY <1>2, <1>4, <1>7, <1>8, <1>14 DEF Ordering
  <2> QED BY <2>2, <2>3 DEF OneServer
<1>17. Held(p)'
  <2>1. Carried(p)'
    <3>1. Owed \subseteq Refs(z)
      BY <1>1, <1>2, <1>3 DEF Held, Carried, Carries, CreateSteps
    <3>2. Owed \subseteq Refs(x)
      <4> SUFFICES ASSUME NEW r \in Owed PROVE r \in Refs(x)
        OBVIOUS
      <4>1. r \in Resource /\ r \in Refs(z)
        BY <1>2, <3>1 DEF TypeOK, Owed
      <4> QED BY <1>7, <1>9, <1>10, <4>1, InRefs DEF Resource
    <3> QED BY <1>2, <1>4, <1>8, <1>13, <3>2 DEF Carried
  <2>2. KeysInMind(p)'
    <3>1. Windowed(z) /\ key[p] \in Nat
      BY <1>2, <1>3 DEF LifeInv, KeysOnDisk, Windowed, TypeOK, Id
    <3>2. Windowed(x)'
      BY <1>4, <1>7, <1>9, <1>10, <1>14, <3>1 DEF Windowed
    <3> QED BY <1>4, <1>7, <1>8, <1>14, <3>2 DEF KeysInMind, Windowed
  <2>3. InMind(p)'
    BY <1>1, <1>2, <1>3, <1>4, <1>7, <1>8, <1>9, <1>10
       DEF Held, InMind, CreateSteps, DeleteSteps, Unsaved, Bound
  <2>4. Removing(p)' /\ PoliciesInMind(p)'
    BY <1>7, <1>8 DEF Removing, PoliciesInMind, Cleaning
  <2> QED BY <2>1, <2>2, <2>3, <2>4 DEF Held
<1> QED BY <1>2, <1>4, <1>13, <1>15, <1>16, <1>17, HolderKeeps DEF LifeInv
-----------------------------------------------------------------------------
(* The world outside *)

LEMMA ForeignTunnelKeeps == ASSUME LifeInv, ForeignTunnel PROVE LifeInv'
<1>1. TypeOK /\ Make("tunnel") /\ "tunnel" \in Type
  BY DEF ForeignTunnel, LifeInv, Shape, Type
<1>2. /\ UNCHANGED <<boot, joined, disk, files, owner, kind, at, st, plan, policy, key, minted>>
      /\ UNCHANGED <<recorded, creates, faults, seen>>
      /\ foreign' = foreign \union {made'["tunnel"]}
  BY DEF ForeignTunnel, memory, trouble
<1>3. /\ live' \subseteq Resource /\ made' \in [Type -> Id]
      /\ made'["tunnel"] = made["tunnel"] + 1 /\ made'["tunnel"] \in 1 .. Ids
      /\ live' = live \union {<<"tunnel", made'["tunnel"]>>}
      /\ \A u \in Type \ {"tunnel"} : made'[u] = made[u]
      /\ \A u \in Type : made[u] <= made'[u]
  BY <1>1, MakeTyped
<1>4. TypeOK'
  BY <1>1, <1>2, <1>3 DEF TypeOK
<1>5. Phases'
  BY <1>2 DEF LifeInv, Shape, Phases
<1>6. made["tunnel"] \in Nat
  BY <1>1 DEF TypeOK, Id
<1>7. Grows
  BY <1>2, <1>3, <1>6 DEF Grows
<1>8. PICK r : r = <<"tunnel", made'["tunnel"]>>
  OBVIOUS
<1>9. ~Known(r) /\ Known(r)'
  BY <1>3, <1>6, <1>8 DEF Known
<1>10. r \notin live \union recorded /\ live' = live \union {r} /\ recorded' = recorded
  BY <1>2, <1>3, <1>8, <1>9 DEF LifeInv, Shape, Numbered
<1>11. Sound(Blank)'
  BY <1>1, <1>4, <1>7, BlankSound, SoundStays
<1>12. Shape'
  <2>1. made'["policy"] = made["policy"] /\ made'["key"] = made["key"] /\ made'["server"] = made["server"]
    BY <1>3 DEF Type
  <2>2. \A t \in foreign' : t <= made'["tunnel"]
    <3>1. \A t \in foreign : t \in Nat /\ t <= made["tunnel"]
      BY <1>1, BoundsAssumption DEF LifeInv, Shape, Numbered, TypeOK
    <3> QED BY <1>2, <1>3, <1>6, <3>1
  <2>3. /\ \A q \in Proc : policy'[q] <= made'["policy"] /\ key'[q] <= made'["key"]
        /\ \A s \in 1 .. Ids : /\ boot'[s].key <= made'["key"] /\ joined'[s] <= made'["key"]
                               /\ joined'[s] # 0 => s <= made'["server"]
    BY <1>2, <2>1 DEF LifeInv, Shape, Numbered
  <2>4. \A y \in live' \ live : Known(y)'
    BY <1>9, <1>10
  <2>5. Blank \in State /\ \A q \in Proc : st'[q] \in {st[q], Blank}
    BY <1>1, <1>2, BlankSound
  <2> QED BY <1>2, <1>4, <1>5, <1>7, <1>11, <2>2, <2>3, <2>4, <2>5, ShapeKept DEF LifeInv
<1>13. Owed' = Owed
  BY <1>10 DEF Owed
<1>14. KeysOnDisk' /\ AllLive("server")' = AllLive("server")
  BY <1>1, <1>2, MakeKeys
<1>15. OneServer'
  BY <1>2, <1>14 DEF LifeInv, OneServer, CallsFail, Ordering
<1>16. ASSUME NEW q \in Proc, owner' = q PROVE Held(q)'
  <2>1. /\ \A i : Live("server", i)' = Live("server", i)
        /\ \A i : Live("policy", i)' = Live("policy", i)
    BY <1>3 DEF Live
  <2>2. Windowed(st[q])' <=> Windowed(st[q])
    BY <1>2 DEF Windowed
  <2> QED BY <1>2, <1>13, <1>16, <2>1, <2>2, HeldWhile DEF LifeInv
<1> QED BY <1>2, <1>12, <1>13, <1>14, <1>15, <1>16 DEF LifeInv

(* A server joins with the key on disk, and in a window only the server     *)
(* that was made with the key of the window.                                *)
LEMMA EnrolKeeps == ASSUME LifeInv, NEW s \in 1 .. Ids, Enrol(s) PROVE LifeInv'
<1>1. TypeOK /\ MayEnrol(s)
  BY DEF Enrol, MayEnrol, LifeInv, Shape
<1>2. /\ UNCHANGED <<made, foreign, boot, disk, files, owner, kind, at, st, plan, policy, key, minted>>
      /\ UNCHANGED <<recorded, creates, faults, seen>>
      /\ live' = (live \ {<<"key", boot[s].key>>}) \union {<<"device", s>>}
      /\ joined' = [joined EXCEPT ![s] = made["key"]]
  BY DEF Enrol, memory, trouble
<1>3. /\ disk # NoState /\ boot[s].key = disk.key /\ boot[s].key \in 1 .. Ids
      /\ <<"key", boot[s].key>> \in live /\ <<"server", s>> \in live /\ joined[s] = 0
  BY <1>1 DEF LifeInv, KeysOnDisk, MayEnrol, Live, TypeOK, Resource
<1>4. made["key"] \in Id /\ made["key"] # 0 /\ s <= made["server"]
  <2>1. Known(<<"key", boot[s].key>>) /\ Known(<<"server", s>>)
    BY <1>3 DEF LifeInv, Shape, Numbered
  <2>2. made["key"] \in Id
    BY <1>1 DEF TypeOK, Type
  <2> QED BY <1>3, <2>1, <2>2, BoundsAssumption DEF Known, Id
<1>5. /\ joined'[s] = made["key"] /\ \A t \in 1 .. Ids \ {s} : joined'[t] = joined[t]
      /\ joined' \in [1 .. Ids -> Id]
  BY <1>1, <1>2, <1>4 DEF TypeOK
<1>6. TypeOK'
  <2>1. live' \subseteq Resource
    BY <1>1, <1>2 DEF TypeOK, Resource, Type
  <2> QED BY <1>1, <1>2, <1>5, <2>1 DEF TypeOK
<1>7. Phases'
  BY <1>2 DEF LifeInv, Shape, Phases
<1>8. Grows
  BY <1>1, <1>2, <1>4, <1>5 DEF TypeOK, Grows, Id
<1>9. Shape'
  <2>1. Sound(Blank)'
    BY <1>1, <1>6, <1>8, BlankSound, SoundStays
  <2>2. \A y \in live' \ live : Known(y)'
    BY <1>2, <1>4, <1>5 DEF Known
  <2>3. /\ \A t \in foreign' : t <= made'["tunnel"]
        /\ \A q \in Proc : policy'[q] <= made'["policy"] /\ key'[q] <= made'["key"]
    BY <1>2 DEF LifeInv, Shape, Numbered
  <2>4. \A t \in 1 .. Ids : /\ boot'[t].key <= made'["key"] /\ joined'[t] <= made'["key"]
                            /\ joined'[t] # 0 => t <= made'["server"]
    BY <1>2, <1>4, <1>5, BoundsAssumption DEF LifeInv, Shape, Numbered, Id
  <2>5. Blank \in State /\ \A q \in Proc : st'[q] \in {st[q], Blank}
    BY <1>1, <1>2, BlankSound
  <2> QED BY <1>2, <1>6, <1>7, <1>8, <2>1, <2>2, <2>3, <2>4, <2>5, ShapeKept DEF LifeInv
<1>10. Owed' \subseteq Owed
  <2>1. ~Known(<<"device", s>>)
    BY <1>3 DEF Known
  <2> QED BY <1>2, <2>1 DEF LifeInv, Shape, Numbered, Owed
<1>11. \A x \in State : Windowed(x) /\ x.window \in {0, boot[s].key} => Windowed(x)'
  BY <1>2, <1>5 DEF Windowed
<1>12. KeysOnDisk'
  <2>1. \A t \in 1 .. Ids : MayEnrol(t)' => MayEnrol(t)
    BY <1>2, <1>4, <1>5 DEF MayEnrol, Live
  <2>2. PICK x \in State : x = disk
    BY <1>1, <1>3 DEF TypeOK
  <2>3. Windowed(x) /\ x.window \in {0, boot[s].key}
    BY <1>3, <2>2, BoundsAssumption DEF LifeInv, Shape, States, Sound, KeysOnDisk, Windowed
  <2>4. Windowed(x)'
    BY <1>11, <2>3
  <2> QED BY <1>2, <1>3, <2>1, <2>2, <2>4 DEF LifeInv, KeysOnDisk, Windowed
<1>13. OneServer'
  BY <1>2 DEF LifeInv, OneServer, CallsFail, Ordering, AllLive, Live
<1>14. ASSUME NEW q \in Proc, owner' = q PROVE Held(q)'
  <2>1. /\ \A i : Live("server", i)' = Live("server", i)
        /\ \A i : Live("policy", i)' = Live("policy", i)
    BY <1>2 DEF Live
  <2>2. Held(q) /\ boot[s].key # 0
    BY <1>2, <1>3, <1>14 DEF LifeInv
  <2>3. PICK x \in State : x = st[q]
    BY <1>1 DEF TypeOK
  <2>4. Carries(q) => x.window \in {0, boot[s].key}
    <3>1. CASE at[q] \in (CreateSteps \ Unsaved) \union DeleteSteps
      <4>1. x = disk
        BY <2>2, <2>3, <3>1 DEF Held, InMind
      <4> QED BY <1>3, <2>2, <4>1 DEF LifeInv, Shape, States, Sound
    <3>2. CASE at[q] \in Unsaved
      <4>1. CASE at[q] = "saveDevice"
        BY <1>3, <2>2, <2>3, <4>1 DEF Held, InMind, Bound, LifeInv, Shape, States, Sound
      <4>2. CASE at[q] = "saveTunnel"
        BY <1>3, <2>2, <2>3, <4>2 DEF Held, InMind, LifeInv, Shape, States, Sound
      <4>3. CASE at[q] \in {"saveKey", "saveServer", "savePartial"}
        BY <1>3, <2>2, <2>3, <4>3 DEF Held, InMind
      <4> QED BY <3>2, <4>1, <4>2, <4>3 DEF Unsaved
    <3>3. CASE Cleaning(q)
      BY <1>3, <2>2, <2>3, <3>3 DEF Held, InMind, Cleaning
    <3> QED BY <3>1, <3>2, <3>3 DEF Carries
  <2>5. Carries(q) /\ Windowed(x) => Windowed(x)'
    BY <1>11, <2>4
  <2>6. Carries(q) /\ Windowed(st[q]) => Windowed(st[q])'
    BY <1>2, <2>3, <2>5 DEF Windowed
  <2> QED BY <1>2, <1>10, <2>1, <2>2, <2>6, HeldWhile
<1> QED BY <1>2, <1>9, <1>10, <1>12, <1>13, <1>14 DEF LifeInv
-----------------------------------------------------------------------------
(* What a command destroys *)

LEMMA CalmShape ==
  ASSUME LifeInv, Phases', NEW p \in Proc, NEW x \in State, NEW a \in At, NEW f, owner = p, Calm,
         Sound(x), InMemory(p, x), Go(p, a), Answered(f) \/ Fault(f) \/ UNCHANGED trouble,
         files' \subseteq File, disk' \in {disk, x, NoState}, recorded' \subseteq recorded \union Refs(x),
         UNCHANGED <<owner, kind, plan, creates, policy>>,
         key' \in [Proc -> Id], minted' \in [Proc -> BOOLEAN], \A q \in Proc : key'[q] <= made["key"]
  PROVE  Shape' /\ seen \subseteq seen' /\ at'[p] = a /\ st'[p] = x
<1>1. TypeOK /\ faults' \in 0 .. Budget /\ seen' \subseteq Faults /\ seen \subseteq seen'
  BY TroubleTyped DEF LifeInv, Shape
<1>2. UNCHANGED <<made, foreign, boot, joined>> /\ live' \subseteq live /\ Grows
  BY <1>1, CalmGrows DEF Calm
<1>3. /\ live' \subseteq Resource /\ made' \in [Type -> Id] /\ policy' \in [Proc -> Id]
      /\ boot' \in [1 .. Ids -> [policy : Id, key : Id]]
  BY <1>1, <1>2 DEF TypeOK
<1>4. TypeOK'
  BY <1>1, <1>2, <1>3, StepTyped
<1>5. Sound(x)'
  BY <1>1, <1>2, <1>4, SoundStays
<1>6. /\ \A q \in Proc : policy'[q] <= made'["policy"] /\ key'[q] <= made'["key"]
      /\ \A t \in foreign' : t <= made'["tunnel"]
      /\ \A s \in 1 .. Ids : /\ boot'[s].key <= made'["key"] /\ joined'[s] <= made'["key"]
                             /\ joined'[s] # 0 => s <= made'["server"]
  BY <1>2 DEF LifeInv, Shape, Numbered
<1>7. Shape'
  BY <1>2, <1>4, <1>5, <1>6, ShapeStays DEF LifeInv
<1> QED BY <1>1, <1>7 DEF TypeOK, Go, InMemory

(* When nothing but resources changes, or disk keeps its policy.            *)
LEMMA CalmServers ==
  ASSUME LifeInv, Calm, seen \subseteq seen', NEW p \in Proc, owner = p, CallsFail => ~Ordering(p),
         CallsFail => \/ disk # NoState => disk' # NoState /\ disk'.policy = disk.policy
                      \/ AllLive("server")' = {}
  PROVE  OneServer'
<1>1. (CallsFail' => CallsFail) /\ AllLive("server")' \subseteq AllLive("server") /\ boot' = boot
  BY DEF CallsFail, AllLive, Live, Calm
<1>2. CallsFail => \A q \in Proc : ~Ordering(q)
  BY DEF Ordering
<1> QED BY <1>1, <1>2 DEF LifeInv, OneServer

LEMMA CalmKeys ==
  ASSUME LifeInv, Calm, disk' = disk
  PROVE  KeysOnDisk'
<1>1. \A s \in 1 .. Ids : MayEnrol(s)' => MayEnrol(s)
  BY DEF MayEnrol, Live, Calm
<1> QED BY <1>1 DEF LifeInv, KeysOnDisk, Windowed, Calm

(* The holder destroys something that it does not record, or that is on     *)
(* disk until a later step forgets it.                                      *)
LEMMA Destroys ==
  ASSUME LifeInv, Phases', NEW p \in Proc, NEW a \in At, NEW f, owner = p, Calm, Go(p, a),
         Answered(f) \/ Fault(f),
         UNCHANGED <<disk, files, owner, kind, st, plan, policy, key, recorded, creates>>,
         minted' \in [Proc -> BOOLEAN], CallsFail => ~Ordering(p)
  PROVE  /\ Shape' /\ (Owed \subseteq Refs(disk))' /\ KeysOnDisk' /\ OneServer'
         /\ Owed' \subseteq Owed /\ UNCHANGED <<boot, joined>> /\ at'[p] = a /\ st'[p] = st[p]
         /\ seen \subseteq seen'
<1>1. TypeOK
  BY DEF LifeInv, Shape
<1>2. PICK x \in State : x = st[p]
  BY <1>1 DEF TypeOK
<1>3. InMemory(p, x) /\ Sound(x)
  BY <1>1, <1>2 DEF LifeInv, Shape, TypeOK, States, InMemory, Sound
<1>4. /\ key' \in [Proc -> Id] /\ files' \subseteq File
      /\ \A q \in Proc : key'[q] <= made["key"]
  BY <1>1, <1>3 DEF LifeInv, Shape, TypeOK, Numbered
<1>5. Shape' /\ seen \subseteq seen' /\ at'[p] = a /\ st'[p] = x
  BY <1>3, <1>4, CalmShape
<1>6. Owed' \subseteq Owed /\ UNCHANGED <<boot, joined>>
  BY DEF Owed, Calm
<1>7. KeysOnDisk' /\ OneServer'
  BY <1>5, CalmKeys, CalmServers
<1>8. (Owed \subseteq Refs(disk))'
  BY <1>6 DEF LifeInv
<1> QED BY <1>2, <1>5, <1>6, <1>7, <1>8

LEMMA RollBackTunnelKeeps == ASSUME LifeInv, NEW p \in Proc, RollBackTunnel(p) PROVE LifeInv'
<1>1. at[p] = "saveTunnel" /\ Go(p, "unwind") /\ Fault("disk") /\ Calm
      /\ UNCHANGED <<disk, files, owner, kind, memory, recorded, creates>>
  BY DEF RollBackTunnel, Calm
<1>2. owner = p
  BY <1>1, Holder
<1>3. Phases'
  BY <1>1 DEF memory, LifeInv, Shape, TypeOK, Go, Phases, CreateSteps, DeleteSteps, BeforeMint, File
<1>4. ~minted'[p] /\ at'[p] = "unwind"
  BY <1>1 DEF memory, LifeInv, Shape, Phases, BeforeMint, TypeOK, Go
<1>5. Held(p)'
  BY <1>4, NothingHeld DEF CreateSteps, DeleteSteps
<1>6. PICK a \in At : a = "unwind"
  BY DEF At
<1>7. ~Ordering(p) /\ Go(p, a) /\ minted' \in [Proc -> BOOLEAN]
      /\ UNCHANGED <<st, plan, policy, key>>
  BY <1>1, <1>6 DEF Ordering, memory, LifeInv, Shape, TypeOK
<1>8. (Shape /\ Owed \subseteq Refs(disk) /\ KeysOnDisk /\ OneServer)'
  BY <1>1, <1>2, <1>3, <1>7, Destroys
<1> QED BY <1>1, <1>2, <1>5, <1>8, HolderKeeps

LEMMA DeleteServerKeeps == ASSUME LifeInv, NEW p \in Proc, DeleteServer(p) PROVE LifeInv'
<1>1. at[p] = "server" /\ Calm /\ UNCHANGED <<disk, files, owner, kind, memory, recorded, creates>>
      /\ live' = live \ {<<"server", st[p].server>>}
  BY DEF DeleteServer, Calm
<1>2. PICK a \in {"policy", "unwind"}, f \in {"ok", "lost"} : Go(p, a) /\ Answered(f)
  BY DEF DeleteServer
<1>3. owner = p /\ Held(p) /\ ~minted[p]
  BY <1>1, Holder DEF LifeInv, Shape, Phases, DeleteSteps
<1>4. Phases'
  BY <1>1, <1>2 DEF memory, LifeInv, Shape, TypeOK, Go, Phases, CreateSteps, DeleteSteps, BeforeMint, File
<1>5. /\ (Shape /\ Owed \subseteq Refs(disk) /\ KeysOnDisk /\ OneServer)'
      /\ Owed' \subseteq Owed /\ UNCHANGED <<boot, joined>> /\ at'[p] = a /\ st'[p] = st[p]
      /\ seen \subseteq seen'
  <2>1. a \in At /\ ~Ordering(p) /\ minted' \in [Proc -> BOOLEAN] /\ UNCHANGED <<st, plan, policy, key>>
    BY <1>1 DEF At, Ordering, memory, LifeInv, Shape, TypeOK
  <2> QED BY <1>1, <1>2, <1>3, <1>4, <2>1, Destroys
<1>6. Held(p)'
  <2>1. Carried(p)' /\ KeysInMind(p)' /\ PoliciesInMind(p)'
    BY <1>1, <1>2, <1>3, <1>5
       DEF Held, Carried, KeysInMind, PoliciesInMind, Carries, Cleaning, Windowed, memory, CreateSteps,
           DeleteSteps
  <2>2. InMind(p)'
    BY <1>1, <1>2, <1>3, <1>5 DEF Held, InMind, memory, CreateSteps, DeleteSteps, Unsaved, Bound
  <2>3. Removing(p)'
    BY <1>1, <1>2, <1>5 DEF Removing, Live
  <2> QED BY <2>1, <2>2, <2>3 DEF Held
<1> QED BY <1>1, <1>3, <1>5, <1>6, HolderKeeps

(* The provider keeps a policy with a server attached, and as long as only  *)
(* calls fail every server is attached to this one.                         *)
LEMMA DeletePolicyKeeps == ASSUME LifeInv, NEW p \in Proc, DeletePolicy(p) PROVE LifeInv'
<1>1. at[p] = "policy" /\ Calm /\ UNCHANGED <<disk, files, owner, kind, memory, recorded, creates>>
      /\ live' = live \ {<<"policy", st[p].policy>>} /\ (~Attached(st[p].policy) \/ st[p].policy = 0)
  BY DEF DeletePolicy, Calm
<1>2. PICK a \in {"device", "unwind"}, f \in {"ok", "lost"} : Go(p, a) /\ Answered(f)
  BY DEF DeletePolicy
<1>3. owner = p /\ Held(p) /\ ~minted[p] /\ st[p] = disk
  BY <1>1, Holder DEF LifeInv, Shape, Phases, DeleteSteps, Held, InMind
<1>4. Phases'
  BY <1>1, <1>2 DEF memory, LifeInv, Shape, TypeOK, Go, Phases, CreateSteps, DeleteSteps, BeforeMint, File
<1>5. CallsFail => AllLive("server") = {}
  BY <1>1, <1>3 DEF LifeInv, OneServer, Ordering, Attached
<1>6. /\ (Shape /\ Owed \subseteq Refs(disk) /\ KeysOnDisk /\ OneServer)'
      /\ Owed' \subseteq Owed /\ UNCHANGED <<boot, joined>> /\ at'[p] = a /\ st'[p] = st[p]
      /\ seen \subseteq seen'
  <2>1. a \in At /\ ~Ordering(p) /\ minted' \in [Proc -> BOOLEAN] /\ UNCHANGED <<st, plan, policy, key>>
    BY <1>1 DEF At, After, Ordering, memory, LifeInv, Shape, TypeOK
  <2> QED BY <1>1, <1>2, <1>3, <1>4, <2>1, Destroys
<1>7. Held(p)'
  <2>1. Carried(p)' /\ KeysInMind(p)'
    BY <1>1, <1>2, <1>3, <1>6
       DEF Held, Carried, KeysInMind, Carries, Cleaning, Windowed, memory, CreateSteps, DeleteSteps
  <2>2. InMind(p)'
    BY <1>1, <1>2, <1>3, <1>6 DEF Held, InMind, memory, CreateSteps, DeleteSteps, Unsaved, Bound
  <2>3. Removing(p)'
    BY <1>1, <1>2, <1>3, <1>6 DEF Held, Removing, Live
  <2>4. PoliciesInMind(p)'
    <3>1. ~Cleaning(p)'
      BY <1>1, <1>3, <1>6 DEF Cleaning, memory
    <3>2. CallsFail' => AllLive("server")' = {}
      BY <1>1, <1>5, <1>6 DEF CallsFail, AllLive, Live
    <3> QED BY <3>1, <3>2 DEF PoliciesInMind
  <2> QED BY <2>1, <2>2, <2>3, <2>4 DEF Held
<1> QED BY <1>1, <1>3, <1>6, <1>7, HolderKeeps

(* Before the state file goes, everything that it names is gone.            *)
LEMMA RemoveLocalKeeps == ASSUME LifeInv, NEW p \in Proc, RemoveLocal(p) PROVE LifeInv'
<1>1. /\ UNCHANGED <<cloud, owner, kind, st, plan, policy, key, minted, recorded, creates, trouble>>
      /\ disk' = IF at[p] = "rmState" THEN NoState ELSE disk
      /\ at[p] \in {"rmConfig", "rmState", "rmCredentials", "rmRegistry"}
  BY DEF RemoveLocal, Removal, memory
<1>2. \/ at[p] = "rmConfig" /\ Go(p, "rmState")
      \/ at[p] = "rmState" /\ Go(p, "rmCredentials")
      \/ at[p] = "rmCredentials" /\ Go(p, "rmRegistry")
      \/ at[p] = "rmRegistry" /\ Go(p, "unwind")
  <2>1. /\ Removal["rmConfig"] = "rmState" /\ Removal["rmState"] = "rmCredentials"
        /\ Removal["rmCredentials"] = "rmRegistry" /\ Removal["rmRegistry"] = "unwind"
    BY DEF Removal
  <2> QED BY <1>1, <2>1 DEF RemoveLocal
<1>3. owner = p /\ Held(p) /\ ~minted[p] /\ TypeOK
  BY <1>1, Holder DEF LifeInv, Shape, Phases, DeleteSteps
<1>4. Phases'
  BY <1>1, <1>2 DEF LifeInv, Shape, TypeOK, Go, Phases, CreateSteps, DeleteSteps, BeforeMint, File
<1>5. PICK x \in State : x = st[p]
  BY <1>3 DEF TypeOK
<1>6. Calm /\ InMemory(p, x) /\ Sound(x)
  BY <1>1, <1>3, <1>5 DEF Calm, cloud, LifeInv, Shape, States, Sound, TypeOK, InMemory
<1>7. PICK a \in {"rmState", "rmCredentials", "rmRegistry", "unwind"} : Go(p, a)
  BY <1>2
<1>8. files' \subseteq File /\ key' \in [Proc -> Id] /\ minted' \in [Proc -> BOOLEAN]
      /\ \A q \in Proc : key'[q] <= made["key"]
  BY <1>1, <1>3 DEF RemoveLocal, LifeInv, Shape, TypeOK, Numbered
<1>9. Shape' /\ seen \subseteq seen' /\ at'[p] = a /\ st'[p] = x
  <2>1. a \in At
    BY DEF At, Removal
  <2> QED BY <1>1, <1>3, <1>4, <1>6, <1>7, <1>8, <2>1, CalmShape
<1>10. ASSUME at[p] = "rmState" PROVE Owed = {} /\ x.key = 0 /\ x = disk /\ (CallsFail => AllLive("server") = {})
  <2>1. /\ <<"server", x.server>> \notin live /\ <<"policy", x.policy>> \notin live
        /\ x.device = 0 /\ ~OwnsTunnel(x) /\ x.key = 0 /\ x = disk /\ (CallsFail => AllLive("server") = {})
    BY <1>3, <1>5, <1>10 DEF Held, InMind, Removing, PoliciesInMind, Live, DeleteSteps
  <2>2. Owed \subseteq Refs(x)
    BY <1>3, <1>5, <1>10 DEF Held, Carried, Carries, DeleteSteps
  <2>3. ASSUME NEW r \in Owed PROVE FALSE
    <3>1. r \in Resource /\ r \in Refs(x) /\ r \in live
      BY <1>3, <2>2 DEF TypeOK, Owed
    <3> QED BY <2>1, <3>1, InRefs DEF Resource, OwnsTunnel
  <2> QED BY <2>1, <2>3
<1>11. Owed' = Owed /\ (Owed \subseteq Refs(disk))'
  BY <1>1, <1>10 DEF LifeInv, Owed, cloud
<1>12. KeysOnDisk'
  <2>1. CASE at[p] = "rmState"
    <3>1. \A s \in 1 .. Ids : ~MayEnrol(s)
      <4>1. <<"key", 0>> \notin live
        BY <1>3 DEF TypeOK, Resource
      <4> QED BY <1>10, <2>1, <4>1 DEF LifeInv, KeysOnDisk, MayEnrol, Live
    <3> QED BY <1>1, <2>1, <3>1 DEF KeysOnDisk, MayEnrol, Live, cloud
  <2> QED BY <1>1, <1>6, <2>1, CalmKeys
<1>13. OneServer'
  <2>1. CallsFail => \/ disk # NoState => disk' # NoState /\ disk'.policy = disk.policy
                     \/ AllLive("server")' = {}
    BY <1>1, <1>10 DEF AllLive, Live, cloud
  <2> QED BY <1>1, <1>3, <1>6, <1>9, <2>1, CalmServers DEF Ordering
<1>14. Held(p)'
  <2>1. CASE at[p] = "rmConfig"
    <3>1. at'[p] = "rmState" /\ disk' = disk /\ UNCHANGED <<cloud, recorded, policy, key, minted, seen>>
      BY <1>1, <1>2, <1>3, <2>1 DEF TypeOK, Go, trouble
    <3>2. Carried(p)' /\ KeysInMind(p)' /\ PoliciesInMind(p)'
      BY <1>3, <1>5, <1>9, <1>11, <2>1, <3>1
         DEF Held, Carried, KeysInMind, PoliciesInMind, CallsFail, Carries, Cleaning, Windowed, AllLive,
             Live, cloud, CreateSteps, DeleteSteps
    <3>3. InMind(p)' /\ Removing(p)'
      BY <1>3, <1>5, <1>9, <2>1, <3>1
         DEF Held, InMind, Removing, Live, cloud, CreateSteps, DeleteSteps, Unsaved, Bound
    <3> QED BY <3>2, <3>3 DEF Held
  <2>2. CASE at[p] # "rmConfig"
    <3>1. at'[p] \in {"rmCredentials", "rmRegistry", "unwind"} /\ ~minted'[p]
      BY <1>1, <1>2, <1>3, <2>2 DEF TypeOK, Go
    <3> QED BY <3>1, NothingHeld DEF CreateSteps, DeleteSteps
  <2> QED BY <2>1, <2>2
<1> QED BY <1>1, <1>3, <1>9, <1>11, <1>12, <1>13, <1>14, HolderKeeps
-----------------------------------------------------------------------------
(* What a command destroys and then forgets *)

LEMMA Forgets ==
  ASSUME LifeInv, Phases', NEW p \in Proc, NEW x \in State, NEW a \in At, NEW f, owner = p,
         Carries(p), disk # NoState, Calm, Refs(st[p]) \intersect live' \subseteq Refs(x), Sound(x), Windowed(x), InMemory(p, x), Save(x), Go(p, a),
         Answered(f), UNCHANGED <<files, owner, kind, plan, policy, creates>>,
         key' \in [Proc -> Id], minted' \in [Proc -> BOOLEAN], \A q \in Proc : key'[q] <= made["key"],
         disk.key # x.key => <<"key", disk.key>> \notin live',
         CallsFail => ~Ordering(p) /\ (disk.policy = x.policy \/ AllLive("server") = {})
  PROVE  /\ (Shape /\ Owed \subseteq Refs(disk) /\ KeysOnDisk /\ OneServer)'
         /\ at'[p] = a /\ st'[p] = x /\ disk' = x /\ disk' # NoState /\ Owed' \subseteq Refs(x)
         /\ Windowed(x)' /\ seen \subseteq seen'
<1>1. Owed \subseteq Refs(st[p]) /\ disk' = x /\ recorded' = recorded \union Refs(x)
      /\ files' \subseteq File /\ x # NoState
  BY NoStateAssumption DEF Save, LifeInv, Held, Carried, Shape, TypeOK
<1>2. Shape' /\ seen \subseteq seen' /\ at'[p] = a /\ st'[p] = x
  BY <1>1, CalmShape
<1>3. Owed' \subseteq Refs(x)
  BY <1>1 DEF Owed, Calm
<1>4. Windowed(x)'
  BY DEF Windowed, Calm
<1>5. KeysOnDisk'
  <2>1. \A s \in 1 .. Ids : MayEnrol(s)' => MayEnrol(s) /\ <<"key", boot[s].key>> \in live'
    BY DEF MayEnrol, Live, Calm
  <2>2. \A s \in 1 .. Ids : MayEnrol(s)' => boot'[s].key = x.key
    BY <2>1 DEF LifeInv, KeysOnDisk, Calm
  <2>3. Windowed(disk)'
    BY <1>1, <1>4 DEF Windowed
  <2> QED BY <1>1, <2>2, <2>3 DEF KeysOnDisk
<1>6. OneServer'
  <2>1. CallsFail => \/ disk # NoState => disk' # NoState /\ disk'.policy = disk.policy
                     \/ AllLive("server")' = {}
    BY <1>1 DEF AllLive, Live, Calm
  <2>2. CallsFail => ~Ordering(p)
    OBVIOUS
  <2> QED BY <1>1, <1>2, <2>1, <2>2, CalmServers
<1> QED BY <1>1, <1>2, <1>3, <1>4, <1>5, <1>6

(* A delete forgets a resource when it is gone.                             *)
LEMMA ClearedState ==
  ASSUME TypeOK, NEW z \in State, NEW t \in {"device", "tunnel", "key"}, NEW x, x = Cleared(z, t),
         Sound(z), Windowed(z)
  PROVE  /\ x \in State /\ Sound(x) /\ Windowed(x) /\ Refs(z) \ {<<t, z[t]>>} \subseteq Refs(x)
         /\ x.server = z.server /\ x.policy = z.policy
         /\ x.device = IF t = "device" THEN 0 ELSE z.device
         /\ x.tunnel = IF t = "tunnel" THEN 0 ELSE z.tunnel
         /\ x.origin = IF t = "tunnel" THEN "none" ELSE z.origin
         /\ x.key = IF t = "key" THEN 0 ELSE z.key
<1>1. \/ t = "device" /\ x = [z EXCEPT !.device = 0]
      \/ t = "tunnel" /\ x = [z EXCEPT !.tunnel = 0, !.origin = "none"]
      \/ t = "key" /\ x = [z EXCEPT !.key = 0, !.window = 0]
  BY DEF Cleared
<1>2. 0 \in Id
  BY BoundsAssumption DEF Id
<1>3. x \in State
  BY <1>1, <1>2 DEF State
<1>4. /\ x.server = z.server /\ x.policy = z.policy
      /\ x.device = IF t = "device" THEN 0 ELSE z.device
      /\ x.tunnel = IF t = "tunnel" THEN 0 ELSE z.tunnel
      /\ x.origin = IF t = "tunnel" THEN "none" ELSE z.origin
      /\ x.key = IF t = "key" THEN 0 ELSE z.key
      /\ x.window = IF t = "key" THEN 0 ELSE z.window
  BY <1>1 DEF State
<1>5. Sound(x) /\ Windowed(x)
  <2>1. made["tunnel"] \in Nat /\ made["key"] \in Nat
    BY DEF TypeOK, Type, Id
  <2> QED BY <1>4, <2>1 DEF Sound, Windowed
<1>6. ASSUME NEW r \in Refs(z), r # <<t, z[t]>> PROVE r \in Refs(x)
  <2>1. r \in Resource
    BY RefsTyped
  <2> QED BY <1>3, <1>4, <1>6, <2>1, InRefs
<1> QED BY <1>3, <1>4, <1>5, <1>6

LEMMA DeleteExternalKeeps == ASSUME LifeInv, NEW p \in Proc, DeleteExternal(p) PROVE LifeInv'
<1>1. /\ at[p] \in {"device", "tunnel", "key"} /\ live' = live \ {<<at[p], st[p][at[p]]>>}
      /\ UNCHANGED <<made, foreign, boot, joined, files, owner, kind, plan, policy, key, minted, creates>>
  BY DEF DeleteExternal, After
<1>2. owner = p /\ Held(p) /\ ~minted[p] /\ st[p] = disk /\ disk # NoState /\ TypeOK /\ Windowed(st[p])
      /\ (CallsFail => AllLive("server") = {})
  BY <1>1, Holder DEF LifeInv, Shape, Phases, DeleteSteps, Held, InMind, Carried, Carries, KeysInMind,
                      PoliciesInMind
<1>3. PICK z \in State : z = st[p]
  BY <1>2 DEF TypeOK
<1>4. Sound(z) /\ Windowed(z)
  BY <1>2, <1>3 DEF LifeInv, Shape, States, Sound, Windowed
<1>5. ~Ordering(p) /\ key' \in [Proc -> Id] /\ minted' \in [Proc -> BOOLEAN] /\ ~minted'[p]
      /\ \A q \in Proc : key'[q] <= made["key"]
  BY <1>1, <1>2 DEF Ordering, LifeInv, Shape, TypeOK, Numbered
<1>6. CASE Go(p, "unwind") /\ UNCHANGED <<st, disk, recorded>> /\ Answered("lost")
  <2>1. PICK a \in At, f \in {"ok", "lost"} : a = "unwind" /\ Answered(f)
    BY <1>6 DEF At
  <2>2. Phases' /\ Go(p, a) /\ Calm
    BY <1>1, <1>2, <1>6, <2>1
       DEF LifeInv, Shape, TypeOK, Go, Phases, CreateSteps, DeleteSteps, BeforeMint, File, Calm
  <2>3. (Shape /\ Owed \subseteq Refs(disk) /\ KeysOnDisk /\ OneServer)' /\ at'[p] = a
    BY <1>1, <1>2, <1>5, <1>6, <2>1, <2>2, Destroys
  <2>4. Held(p)'
    BY <1>5, <2>1, <2>3, NothingHeld DEF CreateSteps, DeleteSteps
  <2> QED BY <1>1, <1>2, <2>3, <2>4, HolderKeeps
<1>7. ASSUME Save(Cleared(st[p], at[p])), InMemory(p, Cleared(st[p], at[p])), Go(p, After[at[p]]),
             Answered("ok")
      PROVE  LifeInv'
  <2>1. PICK t \in {"device", "tunnel", "key"} : t = at[p]
    BY <1>1
  <2>2. PICK x : x = Cleared(z, t)
    OBVIOUS
  <2>3. /\ x \in State /\ Sound(x) /\ Windowed(x) /\ Refs(z) \ {<<t, z[t]>>} \subseteq Refs(x)
        /\ x.server = z.server /\ x.policy = z.policy
        /\ x.device = IF t = "device" THEN 0 ELSE z.device
        /\ x.tunnel = IF t = "tunnel" THEN 0 ELSE z.tunnel
        /\ x.origin = IF t = "tunnel" THEN "none" ELSE z.origin
        /\ x.key = IF t = "key" THEN 0 ELSE z.key
    BY <1>2, <1>4, <2>2, ClearedState
  <2>4. PICK a \in At, f \in {"ok", "lost"} : /\ Go(p, a) /\ Answered(f)
                           /\ \/ t = "device" /\ a = "tunnel"
                              \/ t = "tunnel" /\ a = "key"
                              \/ t = "key" /\ a = "rmConfig"
    <3>1. /\ After["device"] = "tunnel" /\ After["tunnel"] = "key" /\ After["key"] = "rmConfig"
          /\ {"tunnel", "key", "rmConfig"} \subseteq At
      BY DEF After, At, Removal
    <3> QED BY <1>7, <2>1, <3>1
  <2>5. Phases'
    BY <1>1, <1>2, <2>1, <2>4
       DEF LifeInv, Shape, TypeOK, Go, Phases, CreateSteps, DeleteSteps, BeforeMint, File
  <2>6. disk.key # x.key => <<"key", disk.key>> \notin live'
    BY <1>1, <1>2, <1>3, <2>1, <2>3
  <2>7. Calm /\ Refs(st[p]) \intersect live' \subseteq Refs(x)
    BY <1>1, <1>3, <2>1, <2>3 DEF Calm
  <2>8. Carries(p) /\ InMemory(p, x) /\ Save(x)
    BY <1>1, <1>3, <1>7, <2>1, <2>2 DEF Carries, DeleteSteps
  <2>9. /\ (Shape /\ Owed \subseteq Refs(disk) /\ KeysOnDisk /\ OneServer)'
        /\ at'[p] = a /\ st'[p] = x /\ disk' = x /\ disk' # NoState /\ Owed' \subseteq Refs(x)
        /\ Windowed(x)' /\ seen \subseteq seen'
    BY <1>1, <1>2, <1>5, <2>3, <2>4, <2>5, <2>6, <2>7, <2>8, Forgets
  <2>10. Carried(p)' /\ InMind(p)'
    BY <1>5, <2>4, <2>9 DEF Carried, InMind, CreateSteps, Unsaved, Bound
  <2>11. Removing(p)'
    BY <1>1, <1>2, <1>3, <2>1, <2>3, <2>4, <2>9 DEF Held, Removing, Live, OwnsTunnel
  <2>12. KeysInMind(p)'
    BY <2>4, <2>9 DEF KeysInMind, Windowed
  <2>13. PoliciesInMind(p)'
    <3>1. CallsFail' => AllLive("server")' = {}
      BY <1>1, <1>2, <2>9 DEF CallsFail, AllLive, Live
    <3> QED BY <1>5, <3>1 DEF PoliciesInMind, Cleaning
  <2> QED BY <1>1, <1>2, <2>9, <2>10, <2>11, <2>12, <2>13, HolderKeeps DEF Held
<1> QED BY <1>1, <1>6, <1>7 DEF DeleteExternal, NoSave

(* cleanupProvisionAuthKey went through: the key is revoked and forgotten.  *)
LEMMA KeyForgotten ==
  ASSUME LifeInv, Phases', NEW p \in Proc, NEW a \in At, NEW f, NEW id \in Id, owner = p, Carries(p),
         id # 0, st[p].key \in {0, id}, disk.key \in {0, id}, disk # NoState,
         CallsFail => disk.policy = st[p].policy,
         ~Ordering(p), CleanUpKey(p, id, "ok"), Go(p, a), Answered(f),
         UNCHANGED <<files, owner, kind, plan, policy, creates>>,
         key' \in [Proc -> Id], minted' \in [Proc -> BOOLEAN], \A q \in Proc : key'[q] <= made["key"],
         NEW x, x = [st[p] EXCEPT !.key = 0]
  PROVE  /\ (Shape /\ Owed \subseteq Refs(disk) /\ KeysOnDisk /\ OneServer)'
         /\ at'[p] = a /\ st'[p] = x /\ disk' = x /\ disk' # NoState /\ Owed' \subseteq Refs(x)
         /\ Windowed(x)' /\ seen \subseteq seen'
         /\ x.server = st[p].server /\ x.policy = st[p].policy /\ x.device = st[p].device
         /\ x.key = 0 /\ x.window = st[p].window
<1>1. TypeOK /\ Windowed(st[p])
  BY DEF LifeInv, Shape, Held, KeysInMind
<1>2. PICK z \in State : z = st[p]
  BY <1>1 DEF TypeOK
<1>3. Sound(z) /\ Windowed(z)
  BY <1>1, <1>2 DEF LifeInv, Shape, States, Sound, Windowed
<1>4. x \in State
  <2>1. 0 \in Id
    BY BoundsAssumption DEF Id
  <2> QED BY <1>2, <2>1 DEF State
<1>5. /\ x.server = z.server /\ x.policy = z.policy /\ x.device = z.device /\ x.tunnel = z.tunnel
      /\ x.key = 0 /\ x.window = z.window /\ x.origin = z.origin
  BY <1>2 DEF State
<1>6. Sound(x) /\ Windowed(x)
  <2>1. made["key"] \in Nat
    BY <1>1 DEF TypeOK, Type, Id
  <2> QED BY <1>3, <1>5, <2>1 DEF Sound, Windowed
<1>7. Calm /\ live' = live \ {<<"key", id>>} /\ InMemory(p, x) /\ Save(x)
  BY <1>2 DEF CleanUpKey, Calm
<1>8. Refs(st[p]) \intersect live' \subseteq Refs(x)
  <2>1. ASSUME NEW y \in Refs(z), y # <<"key", id>> PROVE y \in Refs(x)
    <3>1. y \in Resource
      BY RefsTyped
    <3>2. y # <<"key", z.key>>
      BY <1>2, <2>1, <3>1 DEF Resource
    <3> QED BY <1>4, <1>5, <2>1, <3>1, <3>2, InRefs, ZenonT(60)
  <2> QED BY <1>2, <1>7, <2>1
<1>9. disk.key # x.key => <<"key", disk.key>> \notin live'
  BY <1>5, <1>7
<1>10. CallsFail => ~Ordering(p) /\ (disk.policy = x.policy \/ AllLive("server") = {})
  BY <1>2, <1>5
<1>11. /\ (Shape /\ Owed \subseteq Refs(disk) /\ KeysOnDisk /\ OneServer)'
       /\ at'[p] = a /\ st'[p] = x /\ disk' = x /\ disk' # NoState /\ Owed' \subseteq Refs(x)
       /\ Windowed(x)' /\ seen \subseteq seen'
  BY <1>4, <1>6, <1>7, <1>8, <1>9, <1>10, Forgets, ZenonT(60)
<1> QED BY <1>2, <1>5, <1>11

(* It did not: the key may be revoked, the states still name it.            *)
LEMMA KeyDestroyed ==
  ASSUME LifeInv, Phases', NEW p \in Proc, NEW a \in At, NEW f, NEW id, owner = p, ~Ordering(p),
         CleanUpKey(p, id, "lost"), Go(p, a), Answered(f),
         UNCHANGED <<files, owner, kind, plan, policy, key, creates>>, minted' \in [Proc -> BOOLEAN]
  PROVE  /\ (Shape /\ Owed \subseteq Refs(disk) /\ KeysOnDisk /\ OneServer)'
         /\ Owed' \subseteq Owed /\ UNCHANGED <<boot, joined, disk>> /\ at'[p] = a /\ st'[p] = st[p]
         /\ seen \subseteq seen'
<1>1. Calm /\ UNCHANGED <<disk, recorded, st>>
  BY DEF CleanUpKey, Calm, NoSave
<1> QED BY <1>1, Destroys

LEMMA RetireOldKeyKeeps == ASSUME LifeInv, NEW p \in Proc, RetireOldKey(p) PROVE LifeInv'
<1>1. /\ at[p] = "oldKey" /\ st[p].server = 0 /\ st[p].key # 0
      /\ UNCHANGED <<files, owner, kind, plan, policy, key, minted, creates>>
  BY DEF RetireOldKey
<1>2. owner = p /\ Held(p) /\ ~minted[p] /\ st[p] = disk /\ disk # NoState /\ TypeOK /\ Carries(p)
      /\ ~Ordering(p)
  BY <1>1, Holder DEF LifeInv, Shape, Phases, BeforeMint, Held, InMind, Carried, Carries, CreateSteps,
                      Unsaved, Ordering
<1>3. key' \in [Proc -> Id] /\ minted' \in [Proc -> BOOLEAN] /\ ~minted'[p]
      /\ \A q \in Proc : key'[q] <= made["key"]
  BY <1>1, <1>2 DEF LifeInv, Shape, TypeOK, Numbered
<1>4. PICK id \in Id : id = st[p].key
  BY <1>2 DEF TypeOK, State
<1>5. PICK a \in {"mint", "unwind"}, f \in {"ok", "lost"} : /\ Answered(f) /\ Go(p, a)
                                         /\ \/ a = "mint" /\ CleanUpKey(p, id, "ok")
                                            \/ a = "unwind" /\ CleanUpKey(p, id, "lost")
  BY <1>4 DEF RetireOldKey
<1>6. a \in At /\ Phases'
  BY <1>1, <1>2, <1>5
     DEF At, LifeInv, Shape, TypeOK, Go, Phases, CreateSteps, DeleteSteps, BeforeMint, File
<1>7. CASE a = "mint"
  <2>1. PICK x : x = [st[p] EXCEPT !.key = 0]
    OBVIOUS
  <2>2. /\ (Shape /\ Owed \subseteq Refs(disk) /\ KeysOnDisk /\ OneServer)'
        /\ at'[p] = a /\ st'[p] = x /\ disk' = x /\ disk' # NoState /\ Owed' \subseteq Refs(x)
        /\ Windowed(x)' /\ x.server = 0 /\ x.key = 0
    BY <1>1, <1>2, <1>3, <1>4, <1>5, <1>6, <1>7, <2>1, KeyForgotten
  <2>3. Carried(p)' /\ InMind(p)' /\ Removing(p)' /\ KeysInMind(p)' /\ PoliciesInMind(p)'
    BY <1>3, <1>7, <2>2
       DEF Carried, InMind, Removing, KeysInMind, Windowed, PoliciesInMind, Cleaning, Unsaved, Bound
  <2> QED BY <1>1, <1>2, <2>2, <2>3, HolderKeeps DEF Held
<1>8. CASE a = "unwind"
  <2>1. (Shape /\ Owed \subseteq Refs(disk) /\ KeysOnDisk /\ OneServer)' /\ at'[p] = a
    BY <1>1, <1>2, <1>3, <1>5, <1>6, <1>8, KeyDestroyed
  <2>2. Held(p)'
    BY <1>3, <1>8, <2>1, NothingHeld DEF CreateSteps, DeleteSteps
  <2> QED BY <1>1, <1>2, <2>1, <2>2, HolderKeeps
<1> QED BY <1>5, <1>7, <1>8

LEMMA FinishKeyKeeps == ASSUME LifeInv, NEW p \in Proc, FinishKey(p) PROVE LifeInv'
<1>1. at[p] = "finish" /\ Go(p, "complete") /\ UNCHANGED <<files, owner, kind, plan, policy, minted, creates>>
  BY DEF FinishKey
<1>2. owner = p /\ Held(p) /\ st[p] = disk /\ disk # NoState /\ TypeOK /\ Carries(p) /\ ~Ordering(p)
      /\ st[p].server # 0 /\ st[p].key \in {0, key[p]}
  BY <1>1, Holder DEF LifeInv, Shape, Held, InMind, Carried, Carries, CreateSteps, Unsaved, Ordering, Bound
<1>3. Phases'
  BY <1>1, <1>2 DEF LifeInv, Shape, TypeOK, Go, Phases, CreateSteps, DeleteSteps, BeforeMint, File
<1>4. PICK a \in At : a = "complete"
  BY DEF At
<1>5. minted' \in [Proc -> BOOLEAN]
  BY <1>1, <1>2 DEF TypeOK
<1>6. ASSUME /\ (Shape /\ Owed \subseteq Refs(disk) /\ KeysOnDisk /\ OneServer)'
             /\ Owed' \subseteq Owed /\ UNCHANGED <<boot, joined, disk>> /\ at'[p] = a /\ st'[p] = st[p]
             /\ key' = key
      PROVE  LifeInv'
  <2>1. Carried(p)' /\ KeysInMind(p)'
    BY <1>2, <1>4, <1>6
       DEF Held, Carried, KeysInMind, Windowed, Carries, CreateSteps
  <2>2. InMind(p)'
    BY <1>1, <1>2, <1>4, <1>6 DEF Held, InMind, Unsaved, Bound
  <2>3. Removing(p)' /\ PoliciesInMind(p)'
    BY <1>4, <1>6 DEF Removing, PoliciesInMind, Cleaning
  <2> QED BY <1>1, <1>2, <1>6, <2>1, <2>2, <2>3, HolderKeeps DEF Held
<1>7. CASE key[p] = 0
  <2>1. UNCHANGED <<cloud, disk, recorded, st, key, trouble>>
    BY <1>7 DEF FinishKey, cloud
  <2>2. at'[p] = a
    BY <1>1, <1>2, <1>4 DEF TypeOK, Go
  <2>3. Carried(p)' /\ KeysInMind(p)' /\ Removing(p)' /\ PoliciesInMind(p)'
    BY <1>2, <1>4, <2>1, <2>2
       DEF Held, Carried, Owed, KeysInMind, Windowed, Carries, CreateSteps, Removing, PoliciesInMind,
           Cleaning, cloud
  <2>4. InMind(p)'
    BY <1>1, <1>2, <1>4, <2>1, <2>2 DEF Held, InMind, Unsaved, Bound
  <2>5. files' \subseteq File /\ UNCHANGED memory
    BY <1>1, <1>2, <2>1 DEF TypeOK, memory
  <2> QED BY <1>1, <1>2, <1>3, <1>4, <2>1, <2>3, <2>4, <2>5, OnlyGoesOn DEF Held
<1>8. ASSUME key[p] # 0, Answered("lost"), CleanUpKey(p, key[p], "lost"), key' = [key EXCEPT ![p] = @]
      PROVE  LifeInv'
  <2>1. key' = key
    BY <1>2, <1>8 DEF TypeOK
  <2>2. PICK id, f : id = key[p] /\ f = "lost"
    OBVIOUS
  <2>3. CleanUpKey(p, id, "lost") /\ Answered(f) /\ Go(p, a)
    BY <1>1, <1>4, <1>8, <2>2
  <2>4. /\ (Shape /\ Owed \subseteq Refs(disk) /\ KeysOnDisk /\ OneServer)'
        /\ Owed' \subseteq Owed /\ UNCHANGED <<boot, joined, disk>> /\ at'[p] = a /\ st'[p] = st[p]
    BY <1>1, <1>2, <1>3, <1>5, <2>1, <2>3, KeyDestroyed
  <2> QED BY <1>6, <2>1, <2>4
<1>9. ASSUME key[p] # 0, Answered("ok"), CleanUpKey(p, key[p], "ok"), key' = [key EXCEPT ![p] = 0]
      PROVE  LifeInv'
  <2>1. PICK id, f, x : id \in Id /\ id = key[p] /\ f = "ok" /\ x = [st[p] EXCEPT !.key = 0]
    BY <1>2 DEF TypeOK
  <2>2. CleanUpKey(p, id, "ok") /\ Answered(f) /\ Go(p, a)
    BY <1>1, <1>4, <1>9, <2>1
  <2>3. key' \in [Proc -> Id] /\ key'[p] = 0 /\ \A q \in Proc : key'[q] <= made["key"]
    <3>1. 0 \in Id /\ made["key"] \in Nat
      BY <1>2, BoundsAssumption DEF TypeOK, Id, Type
    <3> QED BY <1>2, <1>9, <3>1 DEF LifeInv, Shape, Numbered, TypeOK
  <2>4. /\ (Shape /\ Owed \subseteq Refs(disk) /\ KeysOnDisk /\ OneServer)'
        /\ at'[p] = a /\ st'[p] = x /\ disk' = x /\ disk' # NoState /\ Owed' \subseteq Refs(x)
        /\ Windowed(x)' /\ x.server = st[p].server /\ x.key = 0
    BY <1>1, <1>2, <1>3, <1>5, <1>9, <2>1, <2>2, <2>3, KeyForgotten
  <2>5. Carried(p)' /\ InMind(p)' /\ Removing(p)' /\ KeysInMind(p)' /\ PoliciesInMind(p)'
    BY <1>2, <1>4, <2>3, <2>4
       DEF Carried, InMind, Removing, KeysInMind, Windowed, PoliciesInMind, Cleaning, Unsaved, Bound
  <2> QED BY <1>1, <1>2, <2>4, <2>5, HolderKeeps DEF Held
<1> QED BY <1>7, <1>8, <1>9 DEF FinishKey

(* The state of a failed create is saved once more when its key is revoked. *)
LEMMA DeferredCleanUpKeeps == ASSUME LifeInv, NEW p \in Proc, DeferredCleanUp(p) PROVE LifeInv'
<1>1. /\ at[p] = "unwind" /\ minted[p] /\ key[p] # 0 /\ minted' = [minted EXCEPT ![p] = FALSE]
      /\ UNCHANGED <<files, owner, kind, at, plan, policy, key, creates>>
  BY DEF DeferredCleanUp
<1>2. owner = p /\ Held(p) /\ TypeOK /\ Carries(p) /\ disk # NoState /\ ~Ordering(p)
  BY <1>1, Holder DEF LifeInv, Shape, Held, Carried, Carries, Cleaning, Ordering
<1>3. st[p].key \in {0, key[p]} /\ disk.key \in {0, key[p]} /\ (CallsFail => disk.policy = st[p].policy)
  BY <1>1, <1>2 DEF Held, InMind, PoliciesInMind, Cleaning
<1>4. PICK a \in At, id \in Id : a = "unwind" /\ id = key[p]
  BY <1>2 DEF At, TypeOK
<1>5. PICK f : /\ Answered(f)
               /\ \/ CleanUpKey(p, id, "ok")
                  \/ CleanUpKey(p, id, "lost")
  BY <1>4 DEF DeferredCleanUp
<1>6. Go(p, a) /\ Phases' /\ minted' \in [Proc -> BOOLEAN] /\ ~minted'[p]
      /\ key' \in [Proc -> Id] /\ \A q \in Proc : key'[q] <= made["key"]
  BY <1>1, <1>2, <1>4 DEF Go, LifeInv, Shape, Phases, Numbered, TypeOK, BeforeMint, File
<1>7. (Shape /\ Owed \subseteq Refs(disk) /\ KeysOnDisk /\ OneServer)'
  <2>1. CASE CleanUpKey(p, id, "ok")
    <3>1. PICK x : x = [st[p] EXCEPT !.key = 0]
      OBVIOUS
    <3> QED BY <1>1, <1>2, <1>3, <1>4, <1>5, <1>6, <2>1, <3>1, KeyForgotten
  <2>2. CASE CleanUpKey(p, id, "lost")
    BY <1>1, <1>2, <1>5, <1>6, <2>2, KeyDestroyed
  <2> QED BY <1>5, <2>1, <2>2
<1>8. Held(p)'
  BY <1>1, <1>6, NothingHeld DEF CreateSteps, DeleteSteps
<1> QED BY <1>1, <1>2, <1>7, <1>8, HolderKeeps
-----------------------------------------------------------------------------
(* The invariant holds *)

LEMMA LifeInit == Init => LifeInv
<1> SUFFICES ASSUME Init PROVE LifeInv
  OBVIOUS
<1>1. TypeOK
  <2>1. Blank \in State /\ 0 \in Id
    BY BoundsAssumption DEF Blank, State, Id
  <2>2. NoProc \notin Proc /\ 0 \in 0 .. Creates /\ 0 \in 0 .. Budget
    BY NoProcAssumption, BoundsAssumption
  <2> QED BY <2>1, <2>2 DEF Init, TypeOK, At
<1>2. Phases
  BY DEF Init, Phases, CreateSteps, DeleteSteps, BeforeMint, File
<1>3. Numbered /\ States
  <2>1. Sound(Blank)
    BY <1>1, BlankSound
  <2>2. \A t \in Type : made[t] = 0
    BY DEF Init
  <2> QED BY <2>1, <2>2 DEF Init, Numbered, States, Sound, Type
<1>4. Owed = {} /\ KeysOnDisk /\ OneServer
  BY DEF Init, Owed, KeysOnDisk, MayEnrol, OneServer, AllLive, Live
<1>5. \A p \in Proc : owner # p
  BY NoProcAssumption DEF Init
<1> QED BY <1>1, <1>2, <1>3, <1>4, <1>5 DEF LifeInv, Shape

LEMMA LifeNext == LifeInv /\ [Next]_vars => LifeInv'
<1> SUFFICES ASSUME LifeInv, [Next]_vars PROVE LifeInv'
  OBVIOUS
<1>1. ASSUME NEW p \in Proc, CreateStep(p) PROVE LifeInv'
  <2>1. CASE Publish(p) \/ InitializeState(p)
    BY <2>1, PublishKeeps, InitializeStateKeeps
  <2>2. CASE TunnelKnown(p) \/ BindFails(p) \/ Remote(p)
    BY <2>2, OnwardKeeps
  <2>3. CASE AdoptTunnel(p) \/ CreateTunnel(p) \/ SaveTunnel(p) \/ RollBackTunnel(p)
    BY <2>3, AdoptTunnelKeeps, CreateTunnelKeeps, SaveTunnelKeeps, RollBackTunnelKeeps
  <2>4. CASE ResumeCompute(p) \/ RetireOldKey(p) \/ NoOldKey(p) \/ MintKey(p) \/ SaveKey(p)
    BY <2>4, ResumeComputeKeeps, RetireOldKeyKeeps, NoOldKeyKeeps, MintKeyKeeps, SaveKeyKeeps
  <2>5. CASE ReusePolicy(p) \/ CreatePolicy(p) \/ CreateServer(p) \/ RefuseServer(p) \/ LookUp(p)
             \/ SaveCompute(p)
    BY <2>5, ReusePolicyKeeps, CreatePolicyKeeps, CreateServerKeeps, RefuseServerKeeps, LookUpKeeps,
       SaveComputeKeeps
  <2>6. CASE BindDevice(p) \/ SaveDevice(p) \/ FinishKey(p) \/ Complete(p)
    BY <2>6, BindDeviceKeeps, SaveDeviceKeeps, FinishKeyKeeps, CompleteKeeps
  <2>7. CASE DeferredCleanUp(p) \/ DeferredCleanUpFails(p) \/ Return(p)
    BY <2>7, DeferredCleanUpKeeps, DeferredCleanUpFailsKeeps, ReturnKeeps
  <2> QED BY <1>1, <2>1, <2>2, <2>3, <2>4, <2>5, <2>6, <2>7 DEF CreateStep
<1>2. ASSUME NEW p \in Proc, DeleteStep(p) PROVE LifeInv'
  <2>1. CASE Authorize(p) \/ Revalidate(p)
    BY <2>1, AuthorizeKeeps, RevalidateKeeps
  <2>2. CASE RefuseDelete(p) \/ PolicyInUse(p)
    BY <2>2, OnwardKeeps
  <2>3. CASE RefusedReturn(p)
    BY <2>3, ReturnKeeps
  <2>4. CASE DeleteServer(p) \/ DeletePolicy(p) \/ SkipExternal(p) \/ DeleteExternal(p) \/ RemoveLocal(p)
    BY <2>4, DeleteServerKeeps, DeletePolicyKeeps, SkipExternalKeeps, DeleteExternalKeeps, RemoveLocalKeeps
  <2> QED BY <1>2, <2>1, <2>2, <2>3, <2>4 DEF DeleteStep
<1>3. ASSUME NEW p \in Proc, StartCreate(p) \/ Approve(p) \/ Abort(p) \/ Crash(p) PROVE LifeInv'
  BY <1>3, StartCreateKeeps, ApproveKeeps, AbortKeeps, ReturnKeeps
<1>4. ASSUME NEW s \in 1 .. Ids, Enrol(s) PROVE LifeInv'
  BY <1>4, EnrolKeeps
<1>5. CASE ForeignTunnel
  BY <1>5, ForeignTunnelKeeps
<1>6. CASE UNCHANGED vars
  <2>1. TypeOK'
    BY <1>6 DEF LifeInv, Shape, TypeOK, vars, cloud, memory, trouble
  <2>2. Phases' /\ Numbered' /\ States'
    BY <1>6 DEF LifeInv, Shape, Phases, Numbered, Known, States, Sound, vars, cloud, memory
  <2>3. (Owed \subseteq Refs(disk))' /\ KeysOnDisk'
    BY <1>6 DEF LifeInv, Owed, KeysOnDisk, MayEnrol, Live, Windowed, vars, cloud
  <2>4. OneServer'
    BY <1>6 DEF LifeInv, OneServer, CallsFail, Ordering, AllLive, Live, vars, cloud, memory, trouble
  <2>5. \A p \in Proc : owner' = p => Held(p)'
    BY <1>6, HeldStays DEF LifeInv, vars, memory, trouble
  <2> QED BY <2>1, <2>2, <2>3, <2>4, <2>5 DEF LifeInv, Shape
<1> QED BY <1>1, <1>2, <1>3, <1>4, <1>5, <1>6 DEF Next
-----------------------------------------------------------------------------
(* Theorems *)

(* The state in memory of the command that holds the locks and the state    *)
(* file stay true of what exists (runner.run, the delete commands).         *)
THEOREM LifeInvariant == Spec => []LifeInv
  BY LifeInit, LifeNext, PTL DEF Spec

(* Well-formed state; only the holder of the locks is past the approval.    *)
THEOREM TypeCorrect == Spec => []TypeOK
<1>1. LifeInv => TypeOK
  BY DEF LifeInv, Shape
<1> QED BY <1>1, LifeInvariant, PTL

(* No checkpoint, roll-back, retry or delete forgets a live resource that   *)
(* was ever recorded as serverpro's (saveProvisionState,                    *)
(* checkpointCleanupState).                                                 *)
THEOREM NothingIsForgotten == Spec => []NothingForgotten
<1>1. LifeInv => NothingForgotten
  BY DEF LifeInv, Owed, NothingForgotten
<1> QED BY <1>1, LifeInvariant, PTL

(* Refused calls and lost answers never make a retried create order a       *)
(* second server, at a provider that reports what a policy is attached to   *)
(* (validateCheckpointAccessPolicy).                                        *)
THEOREM NoSecondServer == AttachmentVisible => (Spec => []AtMostOneServer)
<1> SUFFICES ASSUME AttachmentVisible PROVE Spec => []AtMostOneServer
  OBVIOUS
<1>1. LifeInv => AtMostOneServer
  <2> SUFFICES ASSUME LifeInv, seen \subseteq {"abort", "lost"}
               PROVE  Cardinality(AllLive("server")) <= 1
    BY DEF AtMostOneServer
  <2>1. \A s, t \in AllLive("server") : s = t
    BY DEF LifeInv, OneServer, CallsFail
  <2>2. CASE AllLive("server") = {}
    BY <2>2, FS_EmptySet
  <2>3. CASE AllLive("server") # {}
    <3>1. PICK s : AllLive("server") = {s}
      BY <2>1, <2>3
    <3> QED BY <3>1, FS_Singleton, SMTT(60)
  <2> QED BY <2>2, <2>3
<1> QED BY <1>1, LifeInvariant, PTL

(* What leaves is not a tunnel, or one that the state proves created.       *)
LEMMA TunnelsLeave ==
  ASSUME LifeInv, [Next]_vars
  PROVE  /\ \A t : Live("tunnel", t) /\ ~Live("tunnel", t)' => t \notin foreign
         /\ \A t \in foreign' : t \in foreign \/ Live("tunnel", t)'
<1> DEFINE Calls == /\ foreign' = foreign
                    /\ \A t : Live("tunnel", t) => Live("tunnel", t)'
           Spared == /\ foreign' = foreign
                     /\ \A t \in foreign : Live("tunnel", t) => Live("tunnel", t)'
<1>1. ASSUME NEW p \in Proc, RollBackTunnel(p) PROVE Spared
  BY <1>1 DEF RollBackTunnel, OwnsTunnel, Live, LifeInv, Shape, States, Sound
<1>2. ASSUME NEW p \in Proc, DeleteExternal(p) PROVE Spared
  <2>1. at[p] = "tunnel" => OwnsTunnel(st[p])
    <3>1. PICK z \in State : z = st[p]
      BY DEF LifeInv, Shape, TypeOK
    <3>2. ASSUME at[p] = "tunnel" PROVE <<"tunnel", z.tunnel>> \in Refs(z)
      BY <1>2, <3>1, <3>2 DEF DeleteExternal, Tracked
    <3>3. <<"tunnel", z.tunnel>> \in Refs(z) => <<"tunnel", z.tunnel>> \in Resource
      BY RefsTyped
    <3>4. <<"tunnel", z.tunnel>> \in Resource => z.tunnel # 0
      BY DEF Resource
    <3>5. <<"tunnel", z.tunnel>> \in Refs(z) => z.origin = "created"
      BY <3>3, InRefs
    <3> QED BY <3>1, <3>2, <3>3, <3>4, <3>5 DEF OwnsTunnel
  <2>2. OwnsTunnel(st[p]) => st[p].tunnel \notin foreign
    BY DEF OwnsTunnel, LifeInv, Shape, States, Sound
  <2> QED BY <1>2, <2>1, <2>2 DEF DeleteExternal, Live
<1>3. ASSUME NEW p \in Proc, CreateStep(p), ~RollBackTunnel(p) PROVE Calls
  <2>1. ASSUME NEW t, Make(t) PROVE live \subseteq live'
    BY <2>1 DEF Make
  <2>2. CASE CreateTunnel(p) \/ MintKey(p) \/ CreatePolicy(p) \/ CreateServer(p)
    BY <2>1, <2>2 DEF CreateTunnel, MintKey, CreatePolicy, CreateServer, Live
  <2>3. CASE RetireOldKey(p) \/ FinishKey(p) \/ DeferredCleanUp(p)
    BY <2>3 DEF RetireOldKey, FinishKey, DeferredCleanUp, CleanUpKey, Live
  <2>4. CASE UNCHANGED cloud
    BY <2>4 DEF Live, cloud
  <2> QED
    BY <1>3, <2>2, <2>3, <2>4
       DEF CreateStep, Publish, InitializeState, TunnelKnown, AdoptTunnel, SaveTunnel, ResumeCompute,
           NoOldKey, KeepOldKey, SaveKey, ReusePolicy, RefuseServer, LookUp, SaveCompute, BindDevice,
           BindFails, SaveDevice, Remote, Complete, DeferredCleanUpFails, Return
<1>4. ASSUME NEW p \in Proc, DeleteStep(p), ~DeleteExternal(p) PROVE Calls
  <2>1. CASE DeleteServer(p) \/ DeletePolicy(p)
    BY <2>1 DEF DeleteServer, DeletePolicy, Live
  <2>2. CASE UNCHANGED cloud
    BY <2>2 DEF Live, cloud
  <2> QED
    BY <1>4, <2>1, <2>2
       DEF DeleteStep, Authorize, Revalidate, RefuseDelete, RefusedReturn, PolicyInUse, SkipExternal,
           RemoveLocal
<1>5. ASSUME NEW p \in Proc, StartCreate(p) \/ Approve(p) \/ Abort(p) \/ Crash(p) PROVE Calls
  BY <1>5 DEF StartCreate, Approve, Abort, Crash, Live, cloud
<1>6. ASSUME NEW s \in 1 .. Ids, Enrol(s) PROVE Calls
  BY <1>6 DEF Enrol, Live
<1>7. ASSUME ForeignTunnel
      PROVE  /\ \A t : Live("tunnel", t) => Live("tunnel", t)'
             /\ \A t \in foreign' : t \in foreign \/ Live("tunnel", t)'
  <2>1. made'["tunnel"] = made["tunnel"] + 1 /\ live' = live \union {<<"tunnel", made["tunnel"] + 1>>}
        /\ foreign' = foreign \union {made'["tunnel"]}
    BY <1>7 DEF ForeignTunnel, Make, LifeInv, Shape, TypeOK, Type
  <2> QED BY <2>1 DEF Live
<1>8. CASE UNCHANGED vars
  BY <1>8 DEF vars, cloud, Live
<1> HIDE DEF Calls, Spared
<1>9. Calls \/ Spared \/ ForeignTunnel \/ UNCHANGED vars
  BY <1>1, <1>2, <1>3, <1>4, <1>5, <1>6 DEF Next
<1> QED BY <1>7, <1>8, <1>9 DEF Calls, Spared

(* Adoption, roll-back and delete leave the tunnels alone that someone else *)
(* made ("server delete removes only tunnels proven created").              *)
THEOREM ForeignTunnelsAreSpared == Spec => []ForeignTunnelsSurvive
<1>1. Init => ForeignTunnelsSurvive
  BY DEF Init, ForeignTunnelsSurvive
<1>2. LifeInv /\ ForeignTunnelsSurvive /\ [Next]_vars => ForeignTunnelsSurvive'
  BY TunnelsLeave DEF ForeignTunnelsSurvive
<1> QED BY <1>1, <1>2, LifeInvariant, PTL DEF Spec

(* Only BindDevice binds.                                                   *)
LEMMA OnlyBinds ==
  ASSUME LifeInv, [Next]_vars, NEW p \in Proc, at[p] = "bind", at'[p] = "saveDevice"
  PROVE  BindDevice(p)
<1>1. \A q \in Proc : \A b : Go(q, b) => (q # p => at'[p] = at[p]) /\ (q = p => b = "saveDevice")
  BY DEF Go, LifeInv, Shape, TypeOK
<1>2. ASSUME NEW q \in Proc, CreateStep(q) PROVE BindDevice(p)
  <2>1. q = p
    BY <1>1, <1>2
       DEF CreateStep, Publish, InitializeState, TunnelKnown, AdoptTunnel, CreateTunnel, SaveTunnel,
           RollBackTunnel, ResumeCompute, RetireOldKey, NoOldKey, KeepOldKey, MintKey, SaveKey,
           ReusePolicy, CreatePolicy, CreateServer, RefuseServer, LookUp, SaveCompute, BindDevice,
           BindFails, SaveDevice, Remote, FinishKey, Complete, DeferredCleanUp, DeferredCleanUpFails,
           Return, Forget
  <2>2. CreateStep(p) => BindDevice(p) \/ BindFails(p)
    BY DEF CreateStep, Publish, InitializeState, TunnelKnown, AdoptTunnel, LacksTunnel, CreateTunnel,
           SaveTunnel, RollBackTunnel, ResumeCompute, RetireOldKey, NoOldKey, KeepOldKey, MintKey,
           SaveKey, ReusePolicy, CreatePolicy, CreateServer, RefuseServer, LookUp, SaveCompute,
           SaveDevice, Remote, FinishKey, Complete, DeferredCleanUp, DeferredCleanUpFails, Return, File
  <2>3. ~BindFails(p)
    BY <1>1 DEF BindFails
  <2> QED BY <1>2, <2>1, <2>2, <2>3
<1>3. ASSUME NEW q \in Proc, DeleteStep(q) \/ StartCreate(q) \/ Approve(q) \/ Abort(q) \/ Crash(q)
      PROVE  FALSE
  <2>1. PICK b : Go(q, b) /\ b # "saveDevice"
    <3>1. CASE SkipExternal(q) \/ DeleteExternal(q)
      BY <3>1 DEF SkipExternal, DeleteExternal, After
    <3>2. CASE RemoveLocal(q)
      BY <3>2 DEF RemoveLocal, Removal
    <3> QED
      BY <1>3, <3>1, <3>2
         DEF DeleteStep, Authorize, Revalidate, RefuseDelete, RefusedReturn, DeleteServer, DeletePolicy,
             PolicyInUse, StartCreate, Approve, Abort, Crash, Forget
  <2> QED BY <1>1, <2>1
<1>4. CASE (\E s \in 1 .. Ids : Enrol(s)) \/ ForeignTunnel \/ UNCHANGED vars
  BY <1>4 DEF Enrol, ForeignTunnel, vars
<1> QED BY <1>2, <1>3, <1>4 DEF Next

LEMMA BindsOwn ==
  ASSUME LifeInv, NEW p \in Proc, BindDevice(p), st[p].window # 0
  PROVE  st'[p].device = st[p].server
<1>1. at[p] = "bind" /\ TypeOK
  BY DEF BindDevice, LifeInv, Shape
<1>2. Held(p)
  BY <1>1, Holder
<1>3. Windowed(st[p]) /\ st[p].server # 0
  BY <1>1, <1>2 DEF Held, KeysInMind, InMind, Carries, CreateSteps, Bound
<1>4. PICK d \in Candidates(p) : InMemory(p, [st[p] EXCEPT !.device = d, !.window = 0])
  BY DEF BindDevice
<1>5. d \in 1 .. Ids /\ joined[d] >= st[p].window
  BY <1>4 DEF Candidates, AllLive
<1>6. d = st[p].server
  BY <1>3, <1>5 DEF Windowed
<1>7. st'[p].device = d
  BY <1>1, <1>4 DEF InMemory, TypeOK, State
<1> QED BY <1>6, <1>7

(* In an open enrolment window a create binds the device of the server that *)
(* it has just recorded, whatever earlier attempts left behind              *)
(* (waitTailscaleDevice, ManagedDeviceQuery).                               *)
THEOREM BindsFirstItsOwn == Spec => FirstBindIsOwn
<1> DEFINE A == \A p \in Proc :
                  at[p] = "bind" /\ at'[p] = "saveDevice" /\ st[p].window # 0
                      => st'[p].device = st[p].server
<1>1. LifeInv /\ [Next]_vars => [A]_vars
  BY OnlyBinds, BindsOwn
<1>2. Spec => [][A]_vars
  BY <1>1, LifeInvariant, PTL DEF Spec
<1> QED BY <1>2 DEF FirstBindIsOwn
=============================================================================
