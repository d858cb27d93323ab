-------------------------- MODULE ServerStateProofs --------------------------
(***************************************************************************)
(* What holds of ServerState for any number of commands, routes, addresses *)
(* and automation sources.                                                 *)
(*                                                                         *)
(* A create keeps a copy of the state for its whole run.  That its         *)
(* checkpoints put back nothing old rests on two facts: Checkpoint takes   *)
(* the fields of the short commands from the file, and the locks keep      *)
(* everybody off the fields that it takes from the copy.  The second is    *)
(* the strengthening StateInv needs.                                       *)
(***************************************************************************)
EXTENDS ServerState, TLAPS

(* Every command works with an argument of its kind, and the long ones with *)
(* a whole state.                                                           *)
ArgsRight == \A p \in Proc :
    /\ kind[p] \in {"create", "sshPolicy"} => arg[p] \in Source \union {NoSource}
    /\ kind[p] \in {"add", "remove"} => arg[p] \in Hostname
    /\ kind[p] \in {"refresh", "import"} => arg[p] \in Address
    /\ kind[p] \in {"create", "import"} => copy[p] \in State

(* What the locks exclude: a delete runs alone, one workflow runs at a time, *)
(* and no ssh-policy beside a create.                                       *)
Excluded == \A p, q \in Proc : p # q =>
    /\ kind[p] = "delete" => kind[q] = "idle"
    /\ kind[p] \in {"create", "import"} => kind[q] \notin {"create", "import"}
    /\ kind[p] = "create" => kind[q] # "sshPolicy"

(* In a namespace whose operator runs nothing beside an import. *)
Alone == ImportsAlone => \A p, q \in Proc :
    p # q /\ kind[p] = "import" => kind[q] = "idle"

(* The fields of a create's copy that its checkpoints write are those of    *)
(* the file; an import that runs alone has the whole file.                  *)
CopyIsFile == \A p \in Proc :
    /\ kind[p] = "create" =>
         /\ copy[p].compute = file.compute
         /\ copy[p].device = file.device
         /\ copy[p].source = file.source
    /\ ImportsAlone /\ kind[p] = "import" =>
         copy[p] = IF file = Missing THEN Fresh ELSE file

(* Nothing is on record of a server without a state file. *)
Recorded ==
    /\ file = Missing => routes = {} /\ granted = NoSource
    /\ ImportsAlone => ReportedKept

LocksInv == TypeOK /\ ArgsRight /\ Excluded /\ Alone
StateInv == LocksInv /\ CopyIsFile /\ Recorded
-----------------------------------------------------------------------------
(* The shapes of a state file that the commands write. *)
LEMMA FreshTyped == Fresh \in State
  BY DEF Fresh, State

LEMMA CheckpointShape ==
  ASSUME NEW current \in State, NEW candidate \in State
  PROVE  LET written == Checkpoint(current, candidate)
         IN /\ written \in State
            /\ written.ingress = current.ingress
            /\ written.compute = candidate.compute
            /\ written.device = candidate.device
            /\ written.source = candidate.source
            /\ current.compute => written.address = current.address
  BY DEF Checkpoint, State

(* A command that begins keeps what the locks promise, whichever it is: its *)
(* guard is MayBegin.                                                       *)
LEMMA BeginKeeps ==
  ASSUME LocksInv, NEW p \in Proc, NEW k \in Kind, NEW x,
         x \in Hostname \union Address \union Source \union {NoSource},
         k \in {"create", "sshPolicy"} => x \in Source \union {NoSource},
         k \in {"add", "remove"} => x \in Hostname,
         k \in {"refresh", "import"} => x \in Address,
         k = "import" \/ file' # Missing,
         file # Missing => file' = file,
         file' \in State \union {Missing},
         copy' = [copy EXCEPT ![p] = IF file' = Missing THEN Fresh ELSE file'],
         Begin(p, k, x), UNCHANGED <<routes, granted>>
  PROVE  LocksInv'
<1> USE DEF LocksInv, Begin
<1>1. TypeOK'
  BY FreshTyped DEF TypeOK, Step
<1>2. ArgsRight'
  BY FreshTyped DEF TypeOK, ArgsRight
<1>3. Excluded'
  BY DEF TypeOK, Excluded, MayBegin, Running, PolicyFree, HoldsPolicy, Kind
<1>4. Alone'
  BY DEF TypeOK, Alone, Avoids, Running, Kind
<1> QED BY <1>1, <1>2, <1>3, <1>4

(* A command that ends takes nothing from the others.  The file may only    *)
(* go with the delete that ran alone.                                       *)
LEMMA LeaveKeeps ==
  ASSUME LocksInv, NEW p \in Proc, Leave(p),
         file' \in State \union {Missing},
         file' = Missing => file = Missing \/ kind[p] = "delete",
         routes' \subseteq Hostname, granted' \in Source \union {NoSource}
  PROVE  LocksInv'
  BY DEF LocksInv, Leave, TypeOK, ArgsRight, Excluded, Alone, Step

(* The checkpoint of a running create: nothing but the change it made to    *)
(* its own copy reaches the file, because the copy was right before.        *)
LEMMA SaveKeeps ==
  ASSUME StateInv, NEW p \in Proc, kind[p] = "create", NEW candidate \in State,
         SaveProvision(p, candidate),
         step' \in [Proc -> Step], granted' \in Source \union {NoSource}
  PROVE  /\ LocksInv' /\ CopyIsFile'
         /\ file # Missing /\ file' = Checkpoint(file, candidate)
<1> USE DEF StateInv, LocksInv
<1>1. file \in State /\ file' = Checkpoint(file, candidate)
  BY DEF SaveProvision, Update, TypeOK
<1>2. file' \in State /\ file' # Missing
  BY <1>1, CheckpointShape, MissingAssumption
<1>3. LocksInv'
  BY <1>2 DEF SaveProvision, TypeOK, ArgsRight, Excluded, Alone
<1>4. /\ file'.compute = candidate.compute /\ file'.device = candidate.device
      /\ file'.source = candidate.source
  BY <1>1, CheckpointShape
<1>5. CopyIsFile'
  BY <1>2, <1>4 DEF CopyIsFile, SaveProvision, TypeOK, Excluded
<1> QED BY <1>1, <1>3, <1>5, MissingAssumption

LEMMA CreateKeeps ==
  ASSUME StateInv, NEW p \in Proc,
         CreatePolicy(p) \/ CreateCompute(p) \/ CreateDevice(p)
  PROVE  StateInv'
<1> USE DEF StateInv, LocksInv
<1>0. copy[p] \in State /\ kind[p] = "create" /\ arg[p] \in Source \union {NoSource}
  BY DEF ArgsRight, CreatePolicy, CreateCompute, CreateDevice
<1>1. CASE CreatePolicy(p)
  <2> DEFINE candidate == [copy[p] EXCEPT !.source = arg[p]]
  <2>1. candidate \in State /\ candidate.source = arg[p]
    BY <1>0 DEF State
  <2>2. SaveProvision(p, candidate) /\ granted' = arg[p] /\ step' \in [Proc -> Step]
    BY <1>1 DEF CreatePolicy, TypeOK, Step
  <2> HIDE DEF candidate
  <2>3. /\ LocksInv' /\ CopyIsFile'
        /\ file # Missing /\ file' = Checkpoint(file, candidate)
    BY <1>0, <2>1, <2>2, SaveKeeps
  <2>4. file'.ingress = file.ingress /\ file'.source = arg[p] /\ file' # Missing
    BY <2>1, <2>3, MissingAssumption, CheckpointShape DEF TypeOK
  <2>5. Recorded'
    BY <2>2, <2>3, <2>4 DEF Recorded, ReportedKept, SaveProvision
  <2> QED BY <2>3, <2>5
<1>2. ASSUME NEW candidate \in State, candidate.source = copy[p].source,
             SaveProvision(p, candidate), UNCHANGED <<step, granted>>
      PROVE  StateInv'
  <2>3. /\ LocksInv' /\ CopyIsFile'
        /\ file # Missing /\ file' = Checkpoint(file, candidate)
    BY <1>0, <1>2, SaveKeeps DEF TypeOK
  <2>4. file'.ingress = file.ingress /\ file'.source = file.source /\ file' # Missing
    BY <1>0, <1>2, <2>3, MissingAssumption, CheckpointShape DEF TypeOK, CopyIsFile
  <2>5. Recorded'
    BY <1>2, <2>3, <2>4 DEF Recorded, ReportedKept, SaveProvision
  <2> QED BY <2>3, <2>5
<1>3. CASE CreateCompute(p)
  <2>1. PICK address \in Address :
          SaveProvision(p, [copy[p] EXCEPT !.compute = TRUE, !.address = address])
    BY <1>3 DEF CreateCompute
  <2>2. [copy[p] EXCEPT !.compute = TRUE, !.address = address] \in State
    BY <1>0 DEF State
  <2>3. [copy[p] EXCEPT !.compute = TRUE, !.address = address].source = copy[p].source
    BY <1>0 DEF State
  <2> QED BY <1>2, <1>3, <2>1, <2>2, <2>3 DEF CreateCompute
<1>4. CASE CreateDevice(p)
  <2>2. /\ [copy[p] EXCEPT !.device = TRUE] \in State
        /\ [copy[p] EXCEPT !.device = TRUE].source = copy[p].source
    BY <1>0 DEF State
  <2> QED BY <1>2, <1>4, <2>2 DEF CreateDevice
<1> QED BY <1>1, <1>3, <1>4

(* A command that begins changes neither the file nor what was reported,    *)
(* but for the fresh file of a create.                                      *)
LEMMA BeginsKeep ==
  ASSUME StateInv, NEW p \in Proc,
         \/ \E h \in Hostname : BeginAdd(p, h) \/ BeginRemove(p, h)
         \/ \E a \in Address : BeginRefresh(p, a) \/ BeginImport(p, a)
         \/ \E s \in Source \union {NoSource} : BeginCreate(p, s) \/ BeginSSHPolicy(p, s)
         \/ BeginDelete(p)
  PROVE  StateInv'
<1> USE DEF StateInv
<1>0. file \in State \union {Missing} /\ copy \in [Proc -> State \union {Missing}]
      /\ kind \in [Proc -> Kind \union {"idle"}]
  BY DEF LocksInv, TypeOK
<1>1. ASSUME NEW k \in Kind, NEW x,
             x \in Hostname \union Address \union Source \union {NoSource},
             k \in {"create", "sshPolicy"} => x \in Source \union {NoSource},
             k \in {"add", "remove"} => x \in Hostname,
             k \in {"refresh", "import"} => x \in Address,
             k = "import" \/ file' # Missing,
             file' = file \/ (k = "create" /\ file = Missing /\ file' = Fresh),
             copy' = [copy EXCEPT ![p] = IF file' = Missing THEN Fresh ELSE file'],
             Begin(p, k, x), UNCHANGED <<routes, granted>>
      PROVE  StateInv'
  <2>1. file' \in State \union {Missing}
    BY <1>0, <1>1, FreshTyped
  <2>2. LocksInv'
    BY <1>1, <2>1, BeginKeeps
  <2>3. kind' = [kind EXCEPT ![p] = k] /\ kind[p] = "idle"
    BY <1>1 DEF Begin
  <2>4. ASSUME NEW q \in Proc, kind[q] = "import" PROVE file' = file
    BY <1>1, <2>4 DEF Begin, MayBegin, Running
  <2>7. ASSUME NEW q \in Proc, kind[q] = "create" PROVE file' = file
    BY <1>0, <1>1, <2>7 DEF LocksInv, TypeOK
  <2>5. CopyIsFile'
    BY <1>0, <1>1, <2>3, <2>4, <2>7, FreshTyped DEF CopyIsFile
  <2>6. Recorded'
    BY <1>1, FreshTyped, MissingAssumption DEF Recorded, ReportedKept, Fresh
  <2> QED BY <2>2, <2>5, <2>6
<1>2. ASSUME NEW h \in Hostname, BeginAdd(p, h) PROVE StateInv'
  BY <1>1, <1>2 DEF BeginAdd, Read, Kind
<1>3. ASSUME NEW h \in Hostname, BeginRemove(p, h) PROVE StateInv'
  BY <1>1, <1>3 DEF BeginRemove, Read, Kind
<1>4. ASSUME NEW a \in Address, BeginRefresh(p, a) PROVE StateInv'
  BY <1>1, <1>4 DEF BeginRefresh, Read, Kind
<1>5. ASSUME NEW a \in Address, BeginImport(p, a) PROVE StateInv'
  BY <1>1, <1>5 DEF BeginImport, Kind
<1>6. ASSUME NEW s \in Source \union {NoSource}, BeginCreate(p, s) PROVE StateInv'
  <2>1. file' # Missing
    BY <1>6, FreshTyped, MissingAssumption DEF BeginCreate
  <2> QED BY <1>1, <1>6, <2>1 DEF BeginCreate, Kind
<1>7. ASSUME NEW s \in Source \union {NoSource}, BeginSSHPolicy(p, s) PROVE StateInv'
  BY <1>1, <1>7 DEF BeginSSHPolicy, Read, Kind
<1>8. CASE BeginDelete(p)
  BY <1>1, <1>8 DEF BeginDelete, Read, Kind
<1> QED BY <1>2, <1>3, <1>4, <1>5, <1>6, <1>7, <1>8

(* The one write of a short command; and every end of a command.            *)
LEMMA EndsKeep ==
  ASSUME StateInv, NEW p \in Proc,
         \/ Add(p) \/ RefuseAdd(p) \/ Remove(p) \/ Refresh(p) \/ RecordPolicy(p)
         \/ Publish(p) \/ RemoveState(p) \/ End(p)
  PROVE  StateInv'
<1> USE DEF StateInv
<1>0. /\ file \in State \union {Missing} /\ copy \in [Proc -> State \union {Missing}]
      /\ kind \in [Proc -> Kind \union {"idle"}]
      /\ routes \subseteq Hostname /\ granted \in Source \union {NoSource}
  BY DEF LocksInv, TypeOK
<1>1. CASE Add(p)
  <2>1. arg[p] \in Hostname /\ file \in State
    BY <1>0, <1>1 DEF Add, Update, LocksInv, ArgsRight
  <2>2. file' = [file EXCEPT !.ingress = @ \union {arg[p]}]
    BY <1>1 DEF Add, Update
  <2>3. /\ file' \in State /\ file'.ingress = file.ingress \union {arg[p]}
        /\ file'.compute = file.compute /\ file'.device = file.device
        /\ file'.source = file.source
    BY <2>1, <2>2 DEF State
  <2>4. LocksInv'
    BY <1>0, <1>1, <2>1, <2>3, MissingAssumption, LeaveKeeps DEF Add
  <2>5. CopyIsFile'
    BY <1>0, <1>1, <2>1, <2>3, MissingAssumption
    DEF Add, Leave, CopyIsFile, LocksInv, Alone
  <2>6. Recorded'
    BY <1>1, <2>1, <2>3, MissingAssumption DEF Add, Recorded, ReportedKept
  <2> QED BY <2>4, <2>5, <2>6
<1>2. CASE Remove(p)
  <2>1. arg[p] \in Hostname /\ file \in State
    BY <1>0, <1>2 DEF Remove, Update, LocksInv, ArgsRight
  <2>2. file' = [file EXCEPT !.ingress = @ \ {arg[p]}]
    BY <1>2 DEF Remove, Update
  <2>3. /\ file' \in State /\ file'.ingress = file.ingress \ {arg[p]}
        /\ file'.compute = file.compute /\ file'.device = file.device
        /\ file'.source = file.source
    BY <2>1, <2>2 DEF State
  <2>4. LocksInv'
    BY <1>0, <1>2, <2>1, <2>3, MissingAssumption, LeaveKeeps DEF Remove
  <2>5. CopyIsFile'
    BY <1>0, <1>2, <2>1, <2>3, MissingAssumption
    DEF Remove, Leave, CopyIsFile, LocksInv, Alone
  <2>6. Recorded'
    BY <1>2, <2>1, <2>3, MissingAssumption DEF Remove, Recorded, ReportedKept
  <2> QED BY <2>4, <2>5, <2>6
<1>3. CASE Refresh(p)
  <2>1. arg[p] \in Address /\ file \in State
    BY <1>0, <1>3 DEF Refresh, Update, LocksInv, ArgsRight
  <2>2. file' = [file EXCEPT !.address = arg[p]]
    BY <1>3 DEF Refresh, Update
  <2>3. /\ file' \in State /\ file'.ingress = file.ingress
        /\ file'.compute = file.compute /\ file'.device = file.device
        /\ file'.source = file.source
    BY <2>1, <2>2 DEF State
  <2>4. LocksInv'
    BY <1>0, <1>3, <2>1, <2>3, MissingAssumption, LeaveKeeps DEF Refresh
  <2>5. CopyIsFile'
    BY <1>0, <1>3, <2>1, <2>3, MissingAssumption
    DEF Refresh, Leave, CopyIsFile, LocksInv, Alone
  <2>6. Recorded'
    BY <1>3, <2>1, <2>3, MissingAssumption DEF Refresh, Recorded, ReportedKept
  <2> QED BY <2>4, <2>5, <2>6
<1>4. CASE RecordPolicy(p)
  <2>1. arg[p] \in Source \union {NoSource} /\ file \in State
    BY <1>0, <1>4 DEF RecordPolicy, Update, LocksInv, ArgsRight
  <2>2. file' = [file EXCEPT !.source = arg[p]]
    BY <1>4 DEF RecordPolicy, Update
  <2>3. /\ file' \in State /\ file'.ingress = file.ingress
        /\ file'.compute = file.compute /\ file'.device = file.device
        /\ file'.source = arg[p]
    BY <2>1, <2>2 DEF State
  <2>4. LocksInv'
    BY <1>0, <1>4, <2>1, <2>3, MissingAssumption, LeaveKeeps DEF RecordPolicy
  <2>5. CopyIsFile'
    (* No create runs beside an ssh-policy. *)
    BY <1>0, <1>4, <2>1, <2>3, MissingAssumption
    DEF RecordPolicy, Leave, CopyIsFile, LocksInv, Alone, Excluded
  <2>6. Recorded'
    BY <1>4, <2>1, <2>3, MissingAssumption DEF RecordPolicy, Recorded, ReportedKept
  <2> QED BY <2>4, <2>5, <2>6
<1>5. CASE Publish(p)
  <2>1. arg[p] \in Address /\ copy[p] \in State /\ kind[p] = "import"
    BY <1>5 DEF Publish, LocksInv, ArgsRight
  <2>2. file' = [copy[p] EXCEPT !.compute = TRUE, !.device = TRUE, !.address = arg[p]]
    BY <1>5 DEF Publish
  <2>3. /\ file' \in State /\ file'.ingress = copy[p].ingress
        /\ file'.source = copy[p].source
    BY <2>1, <2>2 DEF State
  <2>4. LocksInv'
    BY <1>0, <1>5, <2>1, <2>3, MissingAssumption, LeaveKeeps DEF Publish
  <2>5. CopyIsFile'
    (* No workflow runs beside this one. *)
    BY <1>0, <1>5, <2>1 DEF Publish, Leave, CopyIsFile, LocksInv, Excluded
  <2>6. Recorded'
    BY <1>5, <2>1, <2>3, MissingAssumption
    DEF Publish, Recorded, ReportedKept, CopyIsFile, Fresh
  <2> QED BY <2>4, <2>5, <2>6
<1>6. CASE RemoveState(p)
  <2>4. LocksInv'
    BY <1>0, <1>6, LeaveKeeps DEF RemoveState
  <2>5. CopyIsFile'
    (* A delete runs alone. *)
    BY <1>0, <1>6 DEF RemoveState, Leave, CopyIsFile, LocksInv, Excluded
  <2>6. Recorded'
    BY <1>6 DEF RemoveState, Recorded, ReportedKept
  <2> QED BY <2>4, <2>5, <2>6
<1>7. CASE RefuseAdd(p) \/ End(p)
  <2>1. Leave(p) /\ UNCHANGED <<file, routes, granted>>
    BY <1>7 DEF RefuseAdd, End
  <2>2. LocksInv'
    BY <1>0, <2>1, LeaveKeeps
  <2>3. CopyIsFile' /\ Recorded'
    BY <1>0, <2>1 DEF Leave, CopyIsFile, Recorded, ReportedKept
  <2> QED BY <2>2, <2>3
<1> QED BY <1>1, <1>2, <1>3, <1>4, <1>5, <1>6, <1>7

LEMMA StateStep == StateInv /\ [Next]_vars => StateInv'
<1> SUFFICES ASSUME StateInv, [Next]_vars PROVE StateInv'
  OBVIOUS
<1>1. CASE UNCHANGED vars
  BY <1>1 DEF vars, StateInv, LocksInv, TypeOK, ArgsRight, Excluded, Alone,
              CopyIsFile, Recorded, ReportedKept
<1>2. ASSUME NEW p \in Proc, EnterPublish(p) PROVE StateInv'
  BY <1>2 DEF EnterPublish, StateInv, LocksInv, TypeOK, ArgsRight, Excluded, Alone,
              CopyIsFile, Recorded, ReportedKept, Step
<1>3. ASSUME NEW p \in Proc, ClearDevice(p) PROVE StateInv'
  <2>1. file \in State /\ file' = [file EXCEPT !.device = FALSE]
    BY <1>3 DEF ClearDevice, Update, StateInv, LocksInv, TypeOK
  <2>2. /\ file' \in State /\ file'.ingress = file.ingress /\ file'.source = file.source
    BY <2>1 DEF State
  <2>3. LocksInv'
    BY <1>3, <2>2, MissingAssumption
    DEF ClearDevice, StateInv, LocksInv, TypeOK, ArgsRight, Excluded, Alone
  <2>4. CopyIsFile'
    BY <1>3 DEF ClearDevice, StateInv, LocksInv, CopyIsFile, Excluded
  <2>5. Recorded'
    BY <1>3, <2>1, <2>2, MissingAssumption
    DEF ClearDevice, StateInv, Recorded, ReportedKept
  <2> QED BY <2>3, <2>4, <2>5 DEF StateInv
<1> QED
  BY <1>1, <1>2, <1>3, CreateKeeps, BeginsKeep, EndsKeep DEF Next

(* The inductive invariant holds in every reachable state.                  *)
THEOREM StateInvariant == Spec => []StateInv
<1>1. Init => StateInv
  BY DEF Init, StateInv, LocksInv, TypeOK, ArgsRight, Excluded, Alone, CopyIsFile,
         Recorded, ReportedKept, Step
<1> QED BY <1>1, StateStep, PTL DEF Spec

(* Files and commands are well formed, and a command that is to update the  *)
(* state finds it there, whatever else runs: a delete, which removes it,    *)
(* holds the namespace lock exclusively.                                    *)
THEOREM TypeCorrect == Spec => []TypeOK
  BY StateInvariant, PTL DEF StateInv, LocksInv

(* The routes and the automation source on file are those last reported,    *)
(* through any number of overlapping creates, adds, removes, refreshes and  *)
(* policy changes, if the operator runs nothing beside an import (which     *)
(* saves what it read before).                                              *)
THEOREM RoutesAndSourceKept == ImportsAlone => (Spec => []ReportedKept)
<1>1. ImportsAlone /\ StateInv => ReportedKept
  BY DEF StateInv, Recorded
<1>2. ImportsAlone => []ImportsAlone
  OBVIOUS
<1> QED BY <1>1, <1>2, StateInvariant, PTL

(* What one write of the state may change: the body of OwnFieldsOnly.       *)
OwnWrite ==
    file # Missing /\ file' # Missing =>
        \E p \in Proc : \A field \in DOMAIN Fresh :
            file'[field] # file[field] =>
                \/ field \in Owned(kind[p])
                \/ field = "address" /\ kind[p] = "create" /\ ~file.compute

LEMMA FieldNames == DOMAIN Fresh = {"compute", "device", "address", "source", "ingress"}
  BY DEF Fresh

LEMMA OwnWriteStep == ImportsAlone /\ StateInv /\ Next => OwnWrite
<1> SUFFICES ASSUME ImportsAlone, StateInv, NEW p \in Proc,
                    file \in State, file' # Missing, file' # file,
                    \/ CreatePolicy(p) \/ CreateCompute(p) \/ CreateDevice(p)
                    \/ Add(p) \/ Remove(p) \/ Refresh(p) \/ RecordPolicy(p)
                    \/ Publish(p) \/ ClearDevice(p)
             PROVE  \A field \in DOMAIN Fresh :
                      file'[field] # file[field] =>
                          \/ field \in Owned(kind[p])
                          \/ field = "address" /\ kind[p] = "create" /\ ~file.compute
  BY DEF Next, OwnWrite, StateInv, LocksInv, TypeOK, BeginAdd, BeginRemove,
         BeginRefresh, BeginImport, BeginCreate, BeginSSHPolicy, BeginDelete, Read,
         RefuseAdd, EnterPublish, RemoveState, End
<1>1. CASE CreatePolicy(p) \/ CreateCompute(p) \/ CreateDevice(p)
  <2>1. copy[p] \in State /\ kind[p] = "create" /\ arg[p] \in Source \union {NoSource}
    BY <1>1 DEF StateInv, LocksInv, ArgsRight, CreatePolicy, CreateCompute, CreateDevice
  <2>2. PICK candidate \in State : SaveProvision(p, candidate)
    <3>1. CASE CreatePolicy(p)
      <4>1. [copy[p] EXCEPT !.source = arg[p]] \in State
        BY <2>1 DEF State
      <4> QED BY <3>1, <4>1 DEF CreatePolicy
    <3>2. CASE CreateCompute(p)
      <4>1. \A address \in Address :
              [copy[p] EXCEPT !.compute = TRUE, !.address = address] \in State
        BY <2>1 DEF State
      <4> QED BY <3>2, <4>1 DEF CreateCompute
    <3>3. CASE CreateDevice(p)
      <4>1. [copy[p] EXCEPT !.device = TRUE] \in State
        BY <2>1 DEF State
      <4> QED BY <3>3, <4>1 DEF CreateDevice
    <3> QED BY <1>1, <3>1, <3>2, <3>3
  <2>3. file' = Checkpoint(file, candidate)
    BY <2>2 DEF SaveProvision, Update
  <2>4. file'.ingress = file.ingress /\ (file.compute => file'.address = file.address)
    BY <2>3, CheckpointShape
  <2> QED BY <2>1, <2>4, FieldNames DEF Owned
<1>2. CASE Add(p)
  BY <1>2, FieldNames DEF Add, Update, State, Owned
<1>3. CASE Remove(p)
  BY <1>3, FieldNames DEF Remove, Update, State, Owned
<1>4. CASE Refresh(p)
  BY <1>4, FieldNames DEF Refresh, Update, State, Owned
<1>5. CASE RecordPolicy(p)
  BY <1>5, FieldNames DEF RecordPolicy, Update, State, Owned
<1>6. CASE ClearDevice(p)
  BY <1>6, FieldNames DEF ClearDevice, Update, State, Owned
<1>7. CASE Publish(p)
  <2>1. copy[p] = file /\ kind[p] = "import"
    BY <1>7, MissingAssumption DEF Publish, StateInv, CopyIsFile
  <2>2. file'.ingress = file.ingress /\ file'.source = file.source
    BY <1>7, <2>1 DEF Publish, State
  <2> QED BY <2>1, <2>2, FieldNames DEF Owned
<1> QED BY <1>1, <1>2, <1>3, <1>4, <1>5, <1>6, <1>7

(* No command puts back an old value of a field that another has changed    *)
(* meanwhile: each writes the fields that it answers for.                   *)
THEOREM WritesOwnFields == ImportsAlone => (Spec => OwnFieldsOnly)
<1>1. ImportsAlone /\ StateInv /\ [Next]_vars => [OwnWrite]_vars
  BY OwnWriteStep DEF Next
<1>2. ImportsAlone => []ImportsAlone
  OBVIOUS
<1> QED BY <1>1, <1>2, StateInvariant, PTL DEF Spec, OwnFieldsOnly, OwnWrite
=============================================================================
