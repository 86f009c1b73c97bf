---------------------- MODULE PersistenceRecoveryProofs ----------------------
(***************************************************************************)
(* Proofs about PersistenceRecovery, for every value of its constants.     *)
(***************************************************************************)
EXTENDS PersistenceRecovery, FiniteSetTheorems, WellFoundedInduction, TLAPS

-----------------------------------------------------------------------------
(***************************************************************************)
(* Types.                                                                  *)
(***************************************************************************)

(* A job that is under way has the call its steps are for.                 *)
CallInv ==
  \A j \in Jobs :
    /\ pc[j] \in BackupSteps => call[j] \in Offered /\ call[j].op = "backup"
    /\ pc[j] \in RestoreSteps => call[j] \in Offered /\ call[j].op = "restore"

Steps == BackupSteps \cup RestoreSteps \cup {"idle", "done"}
Replies == {"ok", "refused", "failed", "error", None}

LEMMA GotoType ==
  ASSUME pc \in [Jobs -> Steps], NEW j \in Jobs, NEW step \in Steps, Goto(j, step)
  PROVE  pc' \in [Jobs -> Steps]
BY DEF Goto

LEMMA AnswerType ==
  ASSUME pc \in [Jobs -> Steps], reply \in [Jobs -> Replies], NEW j \in Jobs,
         NEW what \in Replies, Answer(j, what)
  PROVE  pc' \in [Jobs -> Steps] /\ reply' \in [Jobs -> Replies]
BY DEF Answer, Goto, Steps

(* What a write touches keeps its types.                                   *)
FilesTyped ==
  /\ live \in FileOf
  /\ into \in [Jobs -> Stores \cup {None}]
  /\ seen \in [Jobs -> [Stores -> SUBSET FileContent]]
  /\ later \in [Jobs -> SUBSET Stores]
  /\ before \in [Jobs -> FileOf]
  /\ cut \in [Jobs -> Stores \cup {None}]

LEMMA FilesAreTyped == TypeOK => FilesTyped
BY DEF TypeOK, FilesTyped

LEMMA HoldType ==
  ASSUME TypeOK, NEW s \in Stores, NEW c \in FileContent, Hold(s, c)
  PROVE  /\ live' \in FileOf
         /\ seen' \in [Jobs -> [Stores -> SUBSET FileContent]]
         /\ before' \in [Jobs -> FileOf] /\ cut' \in [Jobs -> Stores \cup {None}]
<1>1. live' \in FileOf
  BY DEF TypeOK, Hold, FileOf
<1>2. \A j \in Jobs : /\ seen[j] \in [Stores -> SUBSET FileContent]
                     /\ [seen[j] EXCEPT ![s] = @ \cup {c}] \in [Stores -> SUBSET FileContent]
  BY DEF TypeOK
<1>3. seen' \in [Jobs -> [Stores -> SUBSET FileContent]]
  BY <1>2 DEF Hold
<1> QED
  BY <1>1, <1>3 DEF TypeOK, Hold

LEMMA DetachType ==
  ASSUME TypeOK, NEW s, Detach(s)
  PROVE  into' \in [Jobs -> Stores \cup {None}]
BY DEF TypeOK, Detach

LEMMA WrittenType ==
  ASSUME TypeOK, NEW s \in Stores, NEW c \in FileContent, Written(s, c)
  PROVE  FilesTyped'
<1>1. later' \in [Jobs -> SUBSET Stores]
  BY DEF TypeOK, Written
<1> QED
  BY <1>1, HoldType, DetachType DEF FilesTyped, Written

LEMMA PutType ==
  ASSUME TypeOK, NEW j \in Jobs, NEW s \in Stores, NEW c \in FileContent, Put(j, s, c),
         into' \in [Jobs -> Stores \cup {None}]
  PROVE  FilesTyped'
<1>1. later' \in [Jobs -> SUBSET Stores]
  BY DEF TypeOK, Put
<1> QED
  BY <1>1, HoldType DEF FilesTyped, Put

LEMMA RecordsInType ==
  ASSUME NEW c \in FileContent
  PROVE  RecordsIn(c) \in Content
BY DEF RecordsIn, Content, FileContent

LEMMA LoadedType ==
  ASSUME NEW files \in FileOf
  PROVE  Loaded(files) \in [Stores -> Content] /\ Corrupt(files) \subseteq FileOf
<1>1. \A s \in Stores : RecordsIn(files[s]) \in Content
  BY RecordsInType DEF FileOf
<1> QED
  BY <1>1 DEF Loaded, Corrupt, Content, FileOf, FileContent

LEMMA TypeInit == Init => TypeOK /\ CallInv
<1> SUFFICES ASSUME Init PROVE TypeOK /\ CallInv
  OBVIOUS
<1>1. NoFiles \in FileOf
  BY DEF NoFiles, FileOf, FileContent
<1>3. mem \in [Stores -> Content] /\ reading \in FileOf
  BY RecoveryAssumption, LoadedType DEF Init
<1>4. saved \in Content
  <2> DEFINE fs == {FirstFiles, Fallback} \cup {FirstBackups[j] : j \in Former}
  <2>1. fs \subseteq FileOf
    BY RecoveryAssumption DEF Former
  <2>2. \A f \in fs, s \in Stores : RecordsIn(f[s]) \subseteq Records
    BY <2>1, RecordsInType DEF FileOf, Content
  <2> QED
    BY <2>2 DEF Init, Content
<1>5. seen \in [Jobs -> [Stores -> SUBSET FileContent]]
  <2>1. \A j \in Former, s \in Stores : FirstBackups[j][s] \in FileContent
    BY RecoveryAssumption DEF Former, FileOf
  <2> QED
    BY <2>1 DEF Init
<1>6. pc \in [Jobs -> Steps] /\ \A j \in Jobs : pc[j] \in {"idle", "done"}
  BY DEF Init, Steps
<1> QED
  BY <1>1, <1>3, <1>4, <1>5, <1>6, RecoveryAssumption
  DEF Init, TypeOK, CallInv, Steps, BackupSteps, RestoreSteps

(* The repositories' own steps.                                            *)
LEMMA TypeReads ==
  ASSUME TypeOK, NEW s \in Stores, ReadDirect(s) \/ InitDirect(s)
  PROVE  TypeOK'
<1>1. CASE ReadDirect(s)
  <2>1. reading' \in FileOf
    BY <1>1 DEF ReadDirect, TypeOK, FileOf
  <2> QED
    BY <1>1, <2>1 DEF ReadDirect, TypeOK, backupVars, jobVars, bounds, history
<1>2. CASE InitDirect(s)
  <2>1. {} \in FileContent
    BY DEF FileContent, Content
  <2>2. FilesTyped'
    BY <1>2, <2>1, WrittenType DEF InitDirect
  <2>3. reading' \in FileOf
    BY <1>2, <2>1 DEF InitDirect, TypeOK, FileOf
  <2> QED
    BY <1>2, <2>2, <2>3 DEF InitDirect, TypeOK, FilesTyped, backupVars, jobVars, bounds
<1> QED
  BY <1>1, <1>2

LEMMA TypeSaves ==
  ASSUME TypeOK, NEW s \in Stores, NEW x \in Records, SaveCached(s, x) \/ SaveDirect(s, x)
  PROVE  TypeOK'
<1>0. Content \subseteq FileContent
  BY DEF FileContent
<1>1. CASE SaveCached(s, x)
  <2>1. mem[s] \cup {x} \in Content /\ saved \cup {x} \in Content
    BY DEF TypeOK, Content
  <2>2. FilesTyped'
    BY <1>0, <1>1, <2>1, WrittenType DEF SaveCached
  <2>3. mem' \in [Stores -> Content] /\ saved' \in Content
    BY <1>1, <2>1 DEF SaveCached, TypeOK
  <2> QED
    BY <1>1, <2>2, <2>3 DEF SaveCached, TypeOK, FilesTyped, backupVars, jobVars, bounds
<1>2. CASE SaveDirect(s, x)
  <2>1. reading[s] \cup {x} \in Content /\ saved \cup {x} \in Content
    BY <1>2 DEF SaveDirect, TypeOK, Content, FileOf, FileContent
  <2>2. FilesTyped'
    BY <1>0, <1>2, <2>1, WrittenType DEF SaveDirect
  <2>3. reading' \in FileOf /\ saved' \in Content
    BY <1>2, <2>1 DEF SaveDirect, TypeOK, FileOf, FileContent
  <2> QED
    BY <1>2, <2>2, <2>3 DEF SaveDirect, TypeOK, FilesTyped, backupVars, jobVars, bounds
<1> QED
  BY <1>1, <1>2

(* They leave the requests alone.                                          *)
LEMMA CallRepositories ==
  ASSUME CallInv, NEW s \in Stores,
         ReadDirect(s) \/ InitDirect(s) \/ \E x \in Records : SaveCached(s, x) \/ SaveDirect(s, x)
  PROVE  CallInv'
<1>1. pc' = pc /\ call' = call
  BY DEF ReadDirect, InitDirect, SaveCached, SaveDirect, jobVars
<1> QED
  BY <1>1 DEF CallInv

(* The steps of requests.                                                  *)
LEMMA TypeStart ==
  ASSUME TypeOK, CallInv, NEW j \in Jobs, NEW c \in Offered, Start(j, c)
  PROVE  TypeOK' /\ CallInv'
<1>1. c \in Call /\ FirstStep(c) \in Steps /\ "refused" \in Replies
  BY RecoveryAssumption DEF FirstStep, Steps, BackupSteps, RestoreSteps, Replies
<1>2. pc' \in [Jobs -> Steps] /\ reply' \in [Jobs -> Replies]
  <2>1. CASE c.admin
    BY <1>1, <2>1, GotoType DEF Start, TypeOK, Steps, Replies
  <2>2. CASE ~c.admin
    BY <1>1, <2>2, AnswerType DEF Start, TypeOK, Steps, Replies
  <2> QED
    BY <2>1, <2>2
<1>3. call' \in [Jobs -> Call \cup {None}] /\ left' \in [Jobs -> SUBSET Stores]
  BY <1>1 DEF Start, TypeOK
<1>4. taken' \in [Jobs -> Nat] /\ clock' \in Nat
  BY DEF Start, TypeOK
<1>5. seen' \in [Jobs -> [Stores -> SUBSET FileContent]]
  BY DEF Start, TypeOK, FileOf
<1>6. TypeOK'
  BY <1>2, <1>3, <1>4, <1>5 DEF Start, TypeOK, Steps, Replies, repoVars, bounds
<1>7. CallInv'
  <2>1. c.op \in {"backup", "restore"}
    BY <1>1 DEF Call
  <2>2. pc' = [pc EXCEPT ![j] = IF c.admin THEN FirstStep(c) ELSE "done"]
    BY DEF Start, Goto, Answer
  <2>3. call'[j] = c /\ pc'[j] = IF c.admin THEN FirstStep(c) ELSE "done"
    BY <2>2 DEF Start, TypeOK
  <2>4. \A k \in Jobs \ {j} : call'[k] = call[k] /\ pc'[k] = pc[k]
    BY <2>2 DEF Start, TypeOK
  <2> QED
    BY <2>1, <2>3, <2>4 DEF CallInv, FirstStep, BackupSteps, RestoreSteps
<1> QED
  BY <1>6, <1>7

(* A job that keeps its call and goes on to a step of the same kind, or is *)
(* done, is on a step its call is for.                                     *)
LEMMA CallKept ==
  ASSUME TypeOK, CallInv, NEW j \in Jobs, UNCHANGED call,
         NEW step, pc' = pc \/ pc' = [pc EXCEPT ![j] = step],
         \/ step = "done"
         \/ pc[j] \in BackupSteps /\ step \in BackupSteps
         \/ pc[j] \in RestoreSteps /\ step \in RestoreSteps
  PROVE  CallInv'
BY DEF TypeOK, CallInv, BackupSteps, RestoreSteps

LEMMA FaultType ==
  ASSUME TypeOK
  PROVE  /\ Fault => faults' \in 0..MaxFaults
         /\ Slip => slips' \in 0..MaxSlips
BY RecoveryAssumption DEF Fault, Slip, TypeOK

LEMMA TypeFails ==
  ASSUME TypeOK, CallInv, NEW j \in Jobs, Fails(j)
  PROVE  TypeOK' /\ CallInv'
<1>1. faults' \in 0..MaxFaults
  BY FaultType DEF Fails
<1>2. pc' \in [Jobs -> Steps] /\ reply' \in [Jobs -> Replies]
  <2>1. {"failed", "error"} \subseteq Replies
    BY DEF Replies
  <2> QED
    BY <2>1, AnswerType DEF Fails, TypeOK, Steps, Replies
<1>3. TypeOK'
  BY <1>1, <1>2 DEF Fails, TypeOK, Steps, Replies, repoVars, backupVars, jobVars, history
<1>4. CallInv'
  BY CallKept DEF Fails, Answer, Goto, jobVars
<1> QED
  BY <1>3, <1>4

LEMMA TypeCreate ==
  ASSUME TypeOK, CallInv, NEW j \in Jobs, Create(j)
  PROVE  TypeOK' /\ CallInv'
<1>0. BackupSteps \subseteq Steps /\ {"ok", "failed"} \subseteq Replies
  BY DEF Steps, Replies
<1>1. CASE ReadStore(j)
  <2>1. "bundle" \in Steps
    BY DEF Steps, BackupSteps
  <2>2. pc' \in [Jobs -> Steps] /\ reply' \in [Jobs -> Replies]
    BY <1>1, <1>0, <2>1, GotoType, AnswerType DEF ReadStore, TypeOK, Steps, Replies
  <2>3. \A s \in Stores : Source(s) \in FileContent
    BY RecoveryAssumption DEF Source, TypeOK, FileOf
  <2>4. left' \in [Jobs -> SUBSET Stores] /\ data' \in [Jobs -> FileOf]
    <3>1. CASE left' = left /\ data' = data
      BY <3>1 DEF TypeOK
    <3>2. CASE ~(left' = left /\ data' = data)
      <4>1. PICK s \in left[j] : /\ left' = [left EXCEPT ![j] = @ \ {s}]
                                 /\ data' = [data EXCEPT ![j][s] = Source(s)]
        BY <1>1, <3>2 DEF ReadStore
      <4>2. s \in Stores /\ data[j] \in FileOf
        BY DEF TypeOK
      <4>3. [data[j] EXCEPT ![s] = Source(s)] \in FileOf
        BY <2>3, <4>2 DEF FileOf
      <4> QED
        BY <4>1, <4>3 DEF TypeOK
    <3> QED
      BY <3>1, <3>2
  <2>5. TypeOK'
    BY <1>1, <2>2, <2>4 DEF ReadStore, TypeOK, Steps, Replies, repoVars, backupVars, bounds, history
  <2>6. CallInv'
    BY <1>1, CallKept DEF ReadStore, Goto, Answer, BackupSteps
  <2> QED
    BY <2>5, <2>6
<1>2. CASE WriteBundle(j)
  <2>1. "list" \in Steps
    BY DEF Steps, BackupSteps
  <2>2. pc' \in [Jobs -> Steps] /\ reply' \in [Jobs -> Replies]
    BY <1>2, <1>0, <2>1, GotoType, AnswerType DEF WriteBundle, TypeOK, Steps, Replies
  <2>3. backups' \in [Jobs -> FileOf \cup {None}]
    BY <1>2 DEF WriteBundle, TypeOK
  <2>4. TypeOK'
    BY <1>2, <2>2, <2>3 DEF WriteBundle, TypeOK, Steps, Replies, repoVars, jobVars, bounds, history
  <2>5. CallInv'
    BY <1>2, CallKept DEF WriteBundle, Goto, Answer, BackupSteps, jobVars
  <2> QED
    BY <2>4, <2>5
<1>3. CASE ListOld(j) \/ ListOldSlips(j)
  <2>1. "prune" \in Steps
    BY DEF Steps, BackupSteps
  <2>2. pc' \in [Jobs -> Steps]
    BY <1>3, <2>1, GotoType DEF ListOld, ListOldSlips, TypeOK, Steps
  <2>3. \A listed \in SUBSET Jobs : Expired(listed) \in SUBSET Jobs
    BY DEF Expired
  <2>4. doomed' \in [Jobs -> SUBSET Jobs]
    <3>1. \A b : Listed \in SUBSET Jobs /\ Listed \ {b} \in SUBSET Jobs
      BY DEF Listed
    <3>2. PICK gone \in SUBSET Jobs : doomed' = [doomed EXCEPT ![j] = gone]
      BY <1>3, <2>3, <3>1 DEF ListOld, ListOldSlips
    <3> QED
      BY <3>2 DEF TypeOK
  <2>5. slips' \in 0..MaxSlips
    BY <1>3, FaultType DEF ListOld, ListOldSlips, bounds, TypeOK
  <2>6. TypeOK'
    BY <1>3, <2>2, <2>4, <2>5 DEF ListOld, ListOldSlips, TypeOK, Steps, repoVars, backupVars, bounds, history
  <2>7. CallInv'
    BY <1>3, CallKept DEF ListOld, ListOldSlips, Goto, BackupSteps
  <2> QED
    BY <2>6, <2>7
<1>4. CASE Remove(j) \/ RemoveSlips(j)
  <2>1. doomed' \in [Jobs -> SUBSET Jobs]
    <3>1. PICK b : doomed' = [doomed EXCEPT ![j] = @ \ {b}]
      BY <1>4 DEF Remove, RemoveSlips
    <3> QED
      BY <3>1 DEF TypeOK
  <2>2. backups' \in [Jobs -> FileOf \cup {None}]
    BY <1>4 DEF Remove, RemoveSlips, backupVars, TypeOK
  <2>3. slips' \in 0..MaxSlips
    BY <1>4, FaultType DEF Remove, RemoveSlips, bounds, TypeOK
  <2>4. TypeOK'
    BY <1>4, <2>1, <2>2, <2>3 DEF Remove, RemoveSlips, TypeOK, repoVars, backupVars, bounds, history
  <2>5. CallInv'
    BY <1>4 DEF Remove, RemoveSlips, CallInv
  <2> QED
    BY <2>4, <2>5
<1>5. CASE Pruned(j)
  <2>1. pc' \in [Jobs -> Steps] /\ reply' \in [Jobs -> Replies]
    BY <1>5, <1>0, AnswerType DEF Pruned, TypeOK, Steps, Replies
  <2>2. TypeOK'
    BY <1>5, <2>1 DEF Pruned, TypeOK, Steps, Replies, repoVars, backupVars, jobVars, bounds, history
  <2>3. CallInv'
    BY <1>5, CallKept DEF Pruned, Goto, Answer, jobVars
  <2> QED
    BY <2>2, <2>3
<1> QED
  BY <1>1, <1>2, <1>3, <1>4, <1>5 DEF Create

LEMMA TypeRestore ==
  ASSUME TypeOK, CallInv, NEW j \in Jobs, Restore(j)
  PROVE  TypeOK' /\ CallInv'
<1>0. RestoreSteps \subseteq Steps /\ {"ok", "failed"} \subseteq Replies
  BY DEF Steps, Replies
<1>1. CASE Verify(j)
  <2>1. "load" \in Steps
    BY DEF Steps, RestoreSteps
  <2>2. pc' \in [Jobs -> Steps] /\ reply' \in [Jobs -> Replies]
    BY <1>1, <1>0, <2>1, GotoType, AnswerType DEF Verify, TypeOK, Steps, Replies
  <2>3. TypeOK'
    BY <1>1, <2>2 DEF Verify, TypeOK, Steps, Replies, repoVars, backupVars, jobVars, bounds, history
  <2>4. CallInv'
    BY <1>1, CallKept DEF Verify, Goto, Answer, RestoreSteps, jobVars
  <2> QED
    BY <2>3, <2>4
<1>2. CASE Load(j)
  <2> DEFINE b == call[j].of
  <2>1. b \in Jobs
    BY <1>2, RecoveryAssumption DEF Load, CallInv, RestoreSteps, Call
  <2>2. {"copy", "undo"} \subseteq Steps
    BY DEF Steps, RestoreSteps
  <2>3. pc' \in [Jobs -> Steps]
    BY <1>2, <2>2, GotoType DEF Load, RollBack, TypeOK, Steps
  <2>4. left' \in [Jobs -> SUBSET Stores] /\ data' \in [Jobs -> FileOf]
    <3>1. CASE Readable(b)
      <4>1. backups[b] \in FileOf /\ Existing(backups[b]) \subseteq Stores
        BY <2>1, <3>1 DEF Readable, TypeOK, Existing
      <4>2. data' = [data EXCEPT ![j] = backups[b]] /\ left' = [left EXCEPT ![j] = Existing(backups[b])]
        BY <1>2, <3>1 DEF Load
      <4> QED
        BY <4>1, <4>2 DEF TypeOK
    <3>2. CASE ~Readable(b)
      <4>1. Existing(NoFiles) \in SUBSET Stores
        BY DEF Existing
      <4>2. data' = data /\ left' = [left EXCEPT ![j] = Existing(NoFiles)]
        BY <1>2, <3>2 DEF Load, RollBack
      <4> QED
        BY <4>1, <4>2 DEF TypeOK
    <3> QED
      BY <3>1, <3>2
  <2>5. TypeOK'
    BY <1>2, <2>3, <2>4 DEF Load, TypeOK, Steps, repoVars, backupVars, bounds, history
  <2>6. CallInv'
    BY <1>2, CallKept DEF Load, RollBack, Goto, RestoreSteps
  <2> QED
    BY <2>5, <2>6
<1>3. CASE CopyStore(j)
  <2>1. "stage" \in Steps
    BY DEF Steps, RestoreSteps
  <2>2. pc' \in [Jobs -> Steps]
    BY <1>3, <2>1, GotoType DEF CopyStore, TypeOK, Steps
  <2>3. left' \in [Jobs -> SUBSET Stores] /\ copy' \in [Jobs -> FileOf] /\ before' \in [Jobs -> FileOf]
    <3>1. CASE left[j] = {}
      BY <1>3, <3>1 DEF CopyStore, TypeOK
    <3>2. CASE left[j] # {}
      <4>1. PICK s \in left[j] : /\ left' = [left EXCEPT ![j] = @ \ {s}]
                                 /\ copy' = [copy EXCEPT ![j][s] = live[s]]
                                 /\ before' = [before EXCEPT ![j][s] = live[s]]
        BY <1>3, <3>2 DEF CopyStore
      <4>2. /\ [copy[j] EXCEPT ![s] = live[s]] \in FileOf
            /\ [before[j] EXCEPT ![s] = live[s]] \in FileOf
        BY DEF TypeOK, FileOf
      <4> QED
        BY <4>1, <4>2 DEF TypeOK
    <3> QED
      BY <3>1, <3>2
  <2>4. TypeOK'
    BY <1>3, <2>2, <2>3 DEF CopyStore, TypeOK, Steps, repoVars, backupVars, bounds
  <2>5. CallInv'
    BY <1>3, CallKept DEF CopyStore, Goto, RestoreSteps
  <2> QED
    BY <2>4, <2>5
<1>4. CASE Stage(j)
  <2>1. "swap" \in Steps
    BY DEF Steps, RestoreSteps
  <2>2. pc' \in [Jobs -> Steps]
    BY <1>4, <2>1, GotoType DEF Stage, TypeOK, Steps
  <2>3. TypeOK'
    BY <1>4, <2>2 DEF Stage, TypeOK, Steps, Existing, repoVars, backupVars, bounds, history
  <2>4. CallInv'
    BY <1>4, CallKept DEF Stage, Goto, RestoreSteps
  <2> QED
    BY <2>3, <2>4
<1>5. CASE Swap(j)
  <2>1. pc' \in [Jobs -> Steps] /\ reply' \in [Jobs -> Replies]
    BY <1>5, <1>0, AnswerType DEF Swap, TypeOK, Steps, Replies
  <2>2. \A s \in Stores : data[j][s] \in FileContent
    BY DEF TypeOK, FileOf
  <2>3. FilesTyped' /\ left' \in [Jobs -> SUBSET Stores]
    <3>1. CASE left[j] = {}
      BY <1>5, <3>1, FilesAreTyped DEF Swap, TypeOK, FilesTyped, history
    <3>2. CASE left[j] # {}
      <4>1. PICK s \in left[j] : /\ left' = [left EXCEPT ![j] = @ \ {s}]
                                 /\ Put(j, s, data[j][s]) /\ Detach(s)
        BY <1>5, <3>2 DEF Swap
      <4>2. s \in Stores /\ left' \in [Jobs -> SUBSET Stores]
        BY <4>1 DEF TypeOK
      <4> QED
        BY <4>1, <4>2, <2>2, PutType, DetachType
    <3> QED
      BY <3>1, <3>2
  <2>4. TypeOK'
    BY <1>5, <2>1, <2>3 DEF Swap, TypeOK, FilesTyped, Steps, Replies, backupVars, bounds
  <2>5. CallInv'
    BY <1>5, CallKept DEF Swap, Goto, Answer
  <2> QED
    BY <2>4, <2>5
<1>6. CASE Undo(j)
  <2>1. {"refill", "undo"} \subseteq Steps
    BY DEF Steps, RestoreSteps
  <2>2. pc' \in [Jobs -> Steps] /\ reply' \in [Jobs -> Replies]
    BY <1>6, <1>0, <2>1, AnswerType, GotoType DEF Undo, TypeOK, Steps, Replies
  <2>3. FilesTyped' /\ left' \in [Jobs -> SUBSET Stores]
    <3>1. CASE left[j] = {}
      BY <1>6, <3>1, FilesAreTyped DEF Undo, TypeOK, FilesTyped, history
    <3>2. CASE left[j] # {}
      <4>1. PICK s \in left[j] : /\ left' = [left EXCEPT ![j] = @ \ {s}]
                                 /\ Put(j, s, Broken) /\ into' = [into EXCEPT ![j] = s]
        BY <1>6, <3>2 DEF Undo
      <4>2. s \in Stores /\ left' \in [Jobs -> SUBSET Stores] /\ Broken \in FileContent
        BY <4>1 DEF TypeOK, FileContent
      <4>3. into' \in [Jobs -> Stores \cup {None}]
        BY <4>1, <4>2 DEF TypeOK
      <4> QED
        BY <4>1, <4>2, <4>3, PutType
    <3> QED
      BY <3>1, <3>2
  <2>4. TypeOK'
    BY <1>6, <2>2, <2>3 DEF Undo, TypeOK, FilesTyped, Steps, Replies, backupVars, bounds
  <2>5. CallInv'
    BY <1>6, CallKept DEF Undo, Goto, Answer, RestoreSteps
  <2> QED
    BY <2>4, <2>5
<1>7. CASE Refill(j)
  <2>1. pc' \in [Jobs -> Steps]
    BY <1>7, GotoType DEF Refill, TypeOK, Steps, RestoreSteps
  <2>2. into' \in [Jobs -> Stores \cup {None}]
    BY <1>7 DEF Refill, TypeOK
  <2>3. FilesTyped'
    <3>1. CASE into[j] = None
      BY <1>7, <2>2, <3>1, FilesAreTyped DEF Refill, FilesTyped, history
    <3>2. CASE into[j] # None
      <4>1. into[j] \in Stores /\ copy[j][into[j]] \in FileContent /\ Broken \in FileContent
        BY <3>2 DEF TypeOK, FileOf, FileContent
      <4>2. CASE Alone(j)
        BY <1>7, <2>2, <3>2, <4>1, <4>2, PutType DEF Refill
      <4>3. CASE ~Alone(j)
        <5>1. PICK c \in FileContent : Hold(into[j], c)
          BY <1>7, <3>2, <4>1, <4>3 DEF Refill
        <5>2. later' \in [Jobs -> SUBSET Stores]
          BY <1>7, <3>2, <4>1, <4>3 DEF Refill, TypeOK
        <5> QED
          BY <2>2, <4>1, <5>1, <5>2, HoldType DEF FilesTyped
      <4> QED
        BY <4>2, <4>3
    <3> QED
      BY <3>1, <3>2
  <2>4. TypeOK'
    BY <1>7, <2>1, <2>3 DEF Refill, TypeOK, FilesTyped, Steps, backupVars, jobVars, bounds
  <2>5. CallInv'
    BY <1>7, CallKept DEF Refill, Goto, RestoreSteps, jobVars
  <2> QED
    BY <2>4, <2>5
<1>8. CASE CopyFails(j)
  <2>1. pc' \in [Jobs -> Steps] /\ faults' \in 0..MaxFaults
    BY <1>8, GotoType, FaultType DEF CopyFails, RollBack, TypeOK, Steps, RestoreSteps
  <2>2. PICK s \in left[j] : /\ copy' = [copy EXCEPT ![j][s] = Broken]
                             /\ before' = [before EXCEPT ![j][s] = live[s]]
                             /\ cut' = [cut EXCEPT ![j] = s]
                             /\ RollBack(j, copy'[j])
    BY <1>8 DEF CopyFails
  <2>3. /\ [copy[j] EXCEPT ![s] = Broken] \in FileOf
        /\ [before[j] EXCEPT ![s] = live[s]] \in FileOf
    BY DEF TypeOK, FileOf, FileContent
  <2>4. copy' \in [Jobs -> FileOf] /\ before' \in [Jobs -> FileOf] /\ cut' \in [Jobs -> Stores \cup {None}]
    BY <2>2, <2>3 DEF TypeOK
  <2>5. left' \in [Jobs -> SUBSET Stores]
    BY <2>2 DEF RollBack, Existing, TypeOK
  <2>6. TypeOK'
    BY <1>8, <2>1, <2>4, <2>5 DEF CopyFails, TypeOK, Steps, repoVars, backupVars
  <2>7. CallInv'
    BY <1>8, <2>2, CallKept DEF CopyFails, RollBack, Goto, RestoreSteps
  <2> QED
    BY <2>6, <2>7
<1>9. CASE RestoreFails(j)
  <2>1. pc' \in [Jobs -> Steps] /\ faults' \in 0..MaxFaults
    BY <1>9, GotoType, FaultType DEF RestoreFails, RollBack, TypeOK, Steps, RestoreSteps
  <2>2. left' \in [Jobs -> SUBSET Stores]
    BY <1>9 DEF RestoreFails, RollBack, Existing, TypeOK
  <2>3. TypeOK'
    BY <1>9, <2>1, <2>2 DEF RestoreFails, TypeOK, Steps, repoVars, backupVars, history
  <2>4. CallInv'
    BY <1>9, CallKept DEF RestoreFails, RollBack, Goto, RestoreSteps
  <2> QED
    BY <2>3, <2>4
<1>10. CASE UndoFails(j)
  <2>1. pc' \in [Jobs -> Steps] /\ reply' \in [Jobs -> Replies] /\ faults' \in 0..MaxFaults
    BY <1>10, AnswerType, FaultType DEF UndoFails, TypeOK, Steps, Replies
  <2>2. TypeOK'
    BY <1>10, <2>1 DEF UndoFails, TypeOK, Steps, Replies, backupVars, jobVars, history
  <2>3. CallInv'
    BY <1>10, CallKept DEF UndoFails, Answer, Goto, jobVars
  <2> QED
    BY <2>2, <2>3
<1> QED
  BY <1>1, <1>2, <1>3, <1>4, <1>5, <1>6, <1>7, <1>8, <1>9, <1>10 DEF Restore

LEMMA TypeRestart ==
  ASSUME TypeOK, CallInv, Restart
  PROVE  TypeOK' /\ CallInv'
<1>1. crashes' \in 0..MaxCrashes
  BY RecoveryAssumption DEF Restart, TypeOK
<1>2. mem' \in [Stores -> Content] /\ reading' \in FileOf
  BY LoadedType DEF Restart, TypeOK
<1>3. into' \in [Jobs -> Stores \cup {None}]
  BY DEF Restart
<1>4. pc' \in [Jobs -> Steps] /\ \A j \in Jobs : pc'[j] \in {"idle", "done"}
  BY DEF Restart, Steps
<1>5. TypeOK'
  BY <1>1, <1>2, <1>3, <1>4 DEF Restart, TypeOK, Steps, backupVars, jobVars, history
<1>6. CallInv'
  BY <1>4 DEF CallInv, BackupSteps, RestoreSteps
<1> QED
  BY <1>5, <1>6

LEMMA TypeNext == TypeOK /\ CallInv /\ [Next]_vars => TypeOK' /\ CallInv'
<1> SUFFICES ASSUME TypeOK, CallInv, [Next]_vars PROVE TypeOK' /\ CallInv'
  OBVIOUS
<1>1. ASSUME NEW s \in Stores, ReadDirect(s) \/ InitDirect(s) PROVE TypeOK' /\ CallInv'
  BY <1>1, TypeReads, CallRepositories
<1>2. ASSUME NEW s \in Stores, NEW x \in Records, SaveCached(s, x) \/ SaveDirect(s, x)
      PROVE  TypeOK' /\ CallInv'
  BY <1>2, TypeSaves, CallRepositories
<1>3. ASSUME NEW j \in Jobs, Job(j) PROVE TypeOK' /\ CallInv'
  BY <1>3, TypeStart, TypeCreate, TypeRestore, TypeFails DEF Job
<1>4. ASSUME NEW j \in Jobs, Damage(j) PROVE TypeOK' /\ CallInv'
  <2>1. pc' = pc /\ call' = call
    BY <1>4 DEF Damage, jobVars
  <2> QED
    BY <1>4, <2>1 DEF Damage, TypeOK, CallInv, repoVars, jobVars, bounds, history
<1>5. CASE UNCHANGED vars
  <2>1. pc' = pc /\ call' = call
    BY <1>5 DEF vars, jobVars
  <2> QED
    BY <1>5, <2>1 DEF vars, TypeOK, CallInv, repoVars, backupVars, jobVars, bounds, history
<1> QED
  BY <1>1, <1>2, <1>3, <1>4, <1>5, TypeRestart DEF Next

(* Every reachable state has its types: the type invariant, for any stores,*)
(* records, jobs and calls.                                                *)
THEOREM TypeCorrect == Spec => []TypeOK
<1>1. Init => TypeOK /\ CallInv
  BY TypeInit
<1>2. TypeOK /\ CallInv /\ [Next]_vars => TypeOK' /\ CallInv'
  BY TypeNext
<1> QED
  BY <1>1, <1>2, PTL DEF Spec

-----------------------------------------------------------------------------
(***************************************************************************)
(* A failed restore.                                                       *)
(***************************************************************************)

(* Of the stores outside open, those that job j has found and nobody has   *)
(* written since are what they were, but for the one with a broken copy.   *)
PutBack(j, open) ==
  \A s \in Stores \ open :
    before[j][s] # None /\ s \notin later[j] => live[s] = before[j][s] \/ s = cut[j]

(* The copies are what was found, but for the one whose copying failed,    *)
(* and that is the end of the copying.                                     *)
CopyInv(j) ==
  /\ pc[j] \in {"idle", "verify", "load", "copy"} => copy[j] = before[j]
  /\ \A s \in Stores : copy[j][s] = before[j][s] \/ (s = cut[j] /\ copy[j][s] # None)

(* Before its swap a restore has written nothing; while it undoes the swap *)
(* the stores it is through with are as they were, and so it ends; and a   *)
(* job that has not been answered has no answer, whatever a crash makes of *)
(* it.                                                                     *)
UndoInv(j) ==
  /\ pc[j] # "done" => reply[j] = None
  /\ pc[j] \in {"idle", "verify", "load", "copy", "stage"} => later[j] = Stores
  /\ CopyInv(j)
  /\ pc[j] = "undo" => PutBack(j, left[j])
  /\ pc[j] = "refill" => PutBack(j, left[j] \cup {into[j]})
  /\ RestoreFailed(j) => PutBack(j, {})

Typed == TypeOK /\ CallInv

LEMMA UndoInit == Init => \A j \in Jobs : UndoInv(j)
BY NoneAssumption DEF Init, UndoInv, CopyInv, RestoreFailed

(* Nothing of job k's own changes, but that a rename detaches its file.    *)
Same(k) ==
  /\ pc'[k] = pc[k] /\ reply'[k] = reply[k] /\ call'[k] = call[k]
  /\ left'[k] = left[k] /\ copy'[k] = copy[k] /\ before'[k] = before[k] /\ cut'[k] = cut[k]
  /\ into'[k] = into[k] \/ into[k] \in later'[k]

(* A store that others write is noted by job k.                            *)
Noted(k) == \A s \in Stores : s \in later'[k] \/ (s \notin later[k] /\ live'[s] = live[s])

LEMMA UndoOthers ==
  ASSUME TypeOK, TypeOK', NEW k \in Jobs, UndoInv(k), Same(k), Noted(k)
  PROVE  UndoInv(k)'
<1>1. ASSUME NEW open, NEW closed, PutBack(k, open),
             \A s \in open \ closed : s \in later'[k]
      PROVE  PutBack(k, closed)'
  <2> SUFFICES ASSUME NEW s \in Stores \ closed, before[k][s] # None, s \notin later'[k]
               PROVE  live'[s] = before[k][s] \/ s = cut[k]
    BY DEF PutBack, Same
  <2>1. s \notin open /\ s \notin later[k] /\ live'[s] = live[s]
    BY <1>1 DEF Noted
  <2> QED
    BY <1>1, <2>1 DEF PutBack
<1>2. later[k] = Stores => later'[k] = Stores
  BY DEF TypeOK, Noted
<1>3. CopyInv(k)'
  BY DEF UndoInv, CopyInv, Same
<1>4. pc'[k] = "undo" => PutBack(k, left[k])'
  BY <1>1 DEF UndoInv, Same
<1>5. pc'[k] = "refill" => PutBack(k, left[k] \cup {into[k]})'
  BY <1>1 DEF UndoInv, Same
<1>6. RestoreFailed(k)' => PutBack(k, {})'
  BY <1>1 DEF UndoInv, Same, RestoreFailed
<1> QED
  BY <1>2, <1>3, <1>4, <1>5, <1>6 DEF UndoInv, Same

(* What a write, by whomever, is to the jobs that do not write it.         *)
LEMMA HoldNoted ==
  ASSUME TypeOK, NEW k \in Jobs, NEW s \in Stores, NEW c, Hold(s, c),
         later'[k] = later[k] \cup {s}
  PROVE  Noted(k)
BY DEF TypeOK, FileOf, Hold, Noted

LEMMA PutNoted ==
  ASSUME TypeOK, NEW j \in Jobs, NEW k \in Jobs \ {j}, NEW s \in Stores, NEW c, Put(j, s, c)
  PROVE  Noted(k) /\ s \in later'[k] /\ before'[k] = before[k] /\ cut'[k] = cut[k]
<1>1. later'[k] = later[k] \cup {s}
  BY DEF Put
<1> QED
  BY <1>1, HoldNoted DEF Put, Hold

LEMMA WrittenNoted ==
  ASSUME TypeOK, NEW k \in Jobs, NEW s \in Stores, NEW c, Written(s, c)
  PROVE  /\ Noted(k) /\ before'[k] = before[k] /\ cut'[k] = cut[k]
         /\ into'[k] = into[k] \/ into[k] \in later'[k]
<1>1. later'[k] = later[k] \cup {s}
  BY DEF Written
<1> QED
  BY <1>1, HoldNoted DEF Written, Hold, Detach

(* A step of job j leaves the other jobs alone, but for the stores it      *)
(* writes.                                                                 *)
LEMMA JobOthers ==
  ASSUME TypeOK, NEW j \in Jobs, Job(j), NEW k \in Jobs \ {j}
  PROVE  Same(k) /\ Noted(k)
<1>1. ASSUME NEW c \in Offered, Start(j, c) PROVE Same(k) /\ Noted(k)
  BY <1>1 DEF Start, Goto, Answer, TypeOK, repoVars, Same, Noted
<1>2. CASE Fails(j)
  BY <1>2 DEF Fails, Goto, Answer, TypeOK, repoVars, jobVars, history, Same, Noted
<1>3. CASE ReadStore(j)
  BY <1>3 DEF ReadStore, Goto, Answer, TypeOK, repoVars, history, Same, Noted
<1>4. CASE WriteBundle(j)
  BY <1>4 DEF WriteBundle, Goto, Answer, TypeOK, repoVars, jobVars, history, Same, Noted
<1>5. CASE ListOld(j) \/ ListOldSlips(j)
  BY <1>5 DEF ListOld, ListOldSlips, Goto, TypeOK, repoVars, history, Same, Noted
<1>6. CASE Remove(j) \/ RemoveSlips(j)
  BY <1>6 DEF Remove, RemoveSlips, repoVars, history, Same, Noted
<1>7. CASE Pruned(j)
  BY <1>7 DEF Pruned, Goto, Answer, TypeOK, repoVars, jobVars, history, Same, Noted
<1>8. CASE Verify(j)
  BY <1>8 DEF Verify, Goto, Answer, TypeOK, repoVars, jobVars, history, Same, Noted
<1>9. CASE Load(j)
  <2>1. pc'[k] = pc[k] /\ left'[k] = left[k]
    BY <1>9 DEF Load, RollBack, Goto, TypeOK
  <2> QED
    BY <1>9, <2>1 DEF Load, repoVars, history, Same, Noted
<1>10. CASE CopyStore(j)
  BY <1>10 DEF CopyStore, Goto, TypeOK, repoVars, Same, Noted
<1>11. CASE Stage(j)
  BY <1>11 DEF Stage, Goto, TypeOK, repoVars, history, Same, Noted
<1>12. CASE Swap(j)
  <2>1. /\ pc'[k] = pc[k] /\ reply'[k] = reply[k] /\ call'[k] = call[k]
        /\ left'[k] = left[k] /\ copy'[k] = copy[k]
    BY <1>12 DEF Swap, Answer, Goto, TypeOK
  <2>2. CASE left[j] = {}
    BY <1>12, <2>1, <2>2 DEF Swap, history, Same, Noted
  <2>3. CASE left[j] # {}
    <3>1. PICK s \in left[j] : Put(j, s, data[j][s]) /\ Detach(s)
      BY <1>12, <2>3 DEF Swap
    <3>2. s \in Stores
      BY DEF TypeOK
    <3>3. Noted(k) /\ s \in later'[k] /\ before'[k] = before[k] /\ cut'[k] = cut[k]
      BY <3>1, <3>2, PutNoted
    <3>4. into'[k] = into[k] \/ into[k] \in later'[k]
      BY <3>1, <3>3 DEF Detach
    <3> QED
      BY <2>1, <3>3, <3>4 DEF Same
  <2> QED
    BY <2>2, <2>3
<1>13. CASE Undo(j)
  <2>1. /\ pc'[k] = pc[k] /\ reply'[k] = reply[k] /\ call'[k] = call[k]
        /\ left'[k] = left[k] /\ copy'[k] = copy[k] /\ into'[k] = into[k]
    BY <1>13 DEF Undo, Answer, Goto, TypeOK
  <2>2. CASE left[j] = {}
    BY <1>13, <2>1, <2>2 DEF Undo, history, Same, Noted
  <2>3. CASE left[j] # {}
    <3>1. PICK s \in left[j] : Put(j, s, Broken)
      BY <1>13, <2>3 DEF Undo
    <3>2. s \in Stores
      BY DEF TypeOK
    <3> QED
      BY <2>1, <3>1, <3>2, PutNoted DEF Same
  <2> QED
    BY <2>2, <2>3
<1>14. CASE Refill(j)
  <2>1. /\ pc'[k] = pc[k] /\ reply'[k] = reply[k] /\ call'[k] = call[k]
        /\ left'[k] = left[k] /\ copy'[k] = copy[k] /\ into'[k] = into[k]
    BY <1>14 DEF Refill, Goto, TypeOK, jobVars
  <2>2. CASE into[j] = None
    BY <1>14, <2>1, <2>2 DEF Refill, history, Same, Noted
  <2>3. CASE into[j] # None
    <3>1. into[j] \in Stores
      BY <2>3 DEF TypeOK
    <3>2. CASE Alone(j)
      <4>1. Put(j, into[j], copy[j][into[j]])
        BY <1>14, <2>3, <3>2 DEF Refill
      <4> QED
        BY <2>1, <3>1, <4>1, PutNoted DEF Same
    <3>3. CASE ~Alone(j)
      <4>1. PICK c : Hold(into[j], c)
        BY <1>14, <2>3, <3>3 DEF Refill
      <4>2. later'[k] = later[k] \cup {into[j]}
        BY <1>14, <2>3, <3>3 DEF Refill
      <4>3. Noted(k) /\ before'[k] = before[k] /\ cut'[k] = cut[k]
        BY <3>1, <4>1, <4>2, HoldNoted DEF Hold
      <4> QED
        BY <2>1, <4>3 DEF Same
    <3> QED
      BY <3>2, <3>3
  <2> QED
    BY <2>2, <2>3
<1>15. CASE CopyFails(j)
  <2>1. pc'[k] = pc[k] /\ left'[k] = left[k]
    BY <1>15 DEF CopyFails, RollBack, Goto, TypeOK
  <2>2. copy'[k] = copy[k] /\ before'[k] = before[k] /\ cut'[k] = cut[k]
    BY <1>15 DEF CopyFails, TypeOK
  <2> QED
    BY <1>15, <2>1, <2>2 DEF CopyFails, repoVars, Same, Noted
<1>16. CASE RestoreFails(j)
  <2>1. pc'[k] = pc[k] /\ left'[k] = left[k]
    BY <1>16 DEF RestoreFails, RollBack, Goto, TypeOK
  <2> QED
    BY <1>16, <2>1 DEF RestoreFails, repoVars, history, Same, Noted
<1>17. CASE UndoFails(j)
  BY <1>17 DEF UndoFails, Goto, Answer, TypeOK, jobVars, history, Same, Noted
<1>18. CASE Create(j)
  BY <1>18, <1>3, <1>4, <1>5, <1>6, <1>7 DEF Create
<1>19. CASE Restore(j)
  BY <1>19, <1>8, <1>9, <1>10, <1>11, <1>12, <1>13, <1>14, <1>15, <1>16, <1>17 DEF Restore
<1> QED
  BY <1>1, <1>2, <1>18, <1>19 DEF Job

LEMMA UndoStart ==
  ASSUME TypeOK, CallInv, NEW j \in Jobs, UndoInv(j), NEW c \in Offered, Start(j, c)
  PROVE  UndoInv(j)'
<1>1. pc[j] = "idle" /\ reply[j] = None /\ later'[j] = Stores
  BY DEF Start, UndoInv
<1>2. CopyInv(j)' /\ copy'[j] = before'[j]
  BY <1>1 DEF Start, UndoInv, CopyInv
<1>3. CASE c.admin
  <2>1. pc'[j] \in {"read", "verify"} /\ reply'[j] = None
    BY <1>1, <1>3 DEF Start, Goto, FirstStep, TypeOK
  <2> QED
    BY <1>1, <1>2, <2>1 DEF UndoInv, RestoreFailed
<1>4. CASE ~c.admin
  <2>1. pc'[j] = "done" /\ reply'[j] = "refused"
    BY <1>1, <1>4 DEF Start, Answer, Goto, TypeOK
  <2> QED
    BY <1>1, <1>2, <2>1 DEF UndoInv, RestoreFailed
<1> QED
  BY <1>3, <1>4

LEMMA UndoInvFails ==
  ASSUME TypeOK, CallInv, NEW j \in Jobs, UndoInv(j), Fails(j)
  PROVE  UndoInv(j)'
<1>1. UNCHANGED <<live, call, copy, before, cut, later>>
  BY DEF Fails, repoVars, jobVars, history
<1>2. pc'[j] = "done" /\ reply'[j] \in {"failed", "error"}
  BY DEF Fails, Answer, Goto, TypeOK
<1>3. CopyInv(j)'
  BY <1>1, <1>2 DEF UndoInv, CopyInv
<1>4. reply'[j] = "failed" => pc[j] \in {"read", "bundle", "verify"}
  BY DEF Fails, Answer, TypeOK
<1>5. pc[j] \in {"read", "bundle"} => call'[j].op = "backup"
  BY <1>1 DEF CallInv, BackupSteps
<1>6. pc[j] = "verify" => PutBack(j, {})'
  BY <1>1 DEF UndoInv, PutBack
<1> QED
  BY <1>2, <1>3, <1>4, <1>5, <1>6 DEF UndoInv, RestoreFailed

LEMMA UndoCreate ==
  ASSUME TypeOK, CallInv, NEW j \in Jobs, UndoInv(j), Create(j)
  PROVE  UndoInv(j)'
<1>1. pc[j] \in BackupSteps /\ reply[j] = None /\ call[j].op = "backup"
  BY DEF Create, ReadStore, WriteBundle, ListOld, ListOldSlips, Remove, RemoveSlips, Pruned,
         BackupSteps, CallInv, UndoInv
<1>2. UNCHANGED <<call, copy, before, cut>>
  BY DEF Create, ReadStore, WriteBundle, ListOld, ListOldSlips, Remove, RemoveSlips, Pruned,
         jobVars, history
<1>3. \/ pc'[j] \in BackupSteps /\ reply'[j] = None
      \/ pc'[j] = "done"
  BY <1>1 DEF Create, ReadStore, WriteBundle, ListOld, ListOldSlips, Remove, RemoveSlips, Pruned,
              Goto, Answer, TypeOK, BackupSteps
<1>4. CopyInv(j)'
  BY <1>2, <1>3 DEF UndoInv, CopyInv, BackupSteps
<1> QED
  BY <1>1, <1>2, <1>3, <1>4 DEF UndoInv, BackupSteps, RestoreFailed

(* Whatever there is of a rollback directory, what is not in it was not    *)
(* found.                                                                  *)
LEMMA UndoRollBack ==
  ASSUME NEW j \in Jobs, CopyInv(j)', reply'[j] = None, pc'[j] = "undo",
         left'[j] = Existing(copy'[j])
  PROVE  UndoInv(j)'
<1>1. \A s \in Stores \ left'[j] : before'[j][s] = None
  BY DEF CopyInv, Existing
<1>2. PutBack(j, left[j])'
  BY <1>1 DEF PutBack
<1> QED
  BY <1>2 DEF UndoInv, RestoreFailed

LEMMA UndoCopyFails ==
  ASSUME TypeOK, CallInv, NEW j \in Jobs, UndoInv(j), CopyFails(j) \/ RestoreFails(j)
  PROVE  UndoInv(j)'
<1>1. reply[j] = None /\ reply' = reply /\ pc'[j] = "undo"
  BY DEF CopyFails, RestoreFails, RollBack, Goto, TypeOK, UndoInv
<1>2. CASE CopyFails(j)
  <2>1. PICK s \in left[j] : /\ copy' = [copy EXCEPT ![j][s] = Broken]
                             /\ before' = [before EXCEPT ![j][s] = live[s]]
                             /\ cut' = [cut EXCEPT ![j] = s]
                             /\ RollBack(j, copy'[j])
    BY <1>2 DEF CopyFails
  <2>2. copy[j] = before[j] /\ s \in Stores /\ Broken # None
    BY <1>2, NoneAssumption DEF CopyFails, UndoInv, CopyInv, TypeOK
  <2>3. /\ \A t \in Stores : copy'[j][t] = IF t = s THEN Broken ELSE copy[j][t]
        /\ \A t \in Stores : before'[j][t] = IF t = s THEN live[s] ELSE before[j][t]
        /\ cut'[j] = s
    BY <2>1 DEF TypeOK, FileOf
  <2>4. CopyInv(j)'
    BY <1>1, <2>2, <2>3 DEF CopyInv
  <2>5. left'[j] = Existing(copy'[j])
    BY <2>1 DEF RollBack, TypeOK
  <2> QED
    BY <1>1, <2>4, <2>5, UndoRollBack
<1>3. CASE RestoreFails(j)
  <2>1. UNCHANGED <<copy, before, cut>>
    BY <1>3 DEF RestoreFails, history
  <2>2. CopyInv(j)'
    BY <1>1, <2>1 DEF UndoInv, CopyInv
  <2>3. left'[j] = Existing(copy'[j])
    BY <1>3, <2>1 DEF RestoreFails, RollBack, TypeOK
  <2> QED
    BY <1>1, <2>2, <2>3, UndoRollBack
<1> QED
  BY <1>2, <1>3

LEMMA UndoCopyStore ==
  ASSUME TypeOK, CallInv, NEW j \in Jobs, UndoInv(j), CopyStore(j)
  PROVE  UndoInv(j)'
<1>1. reply'[j] = None /\ later'[j] = Stores /\ pc'[j] \in {"copy", "stage"}
  BY DEF CopyStore, UndoInv, Goto, TypeOK
<1>2. CopyInv(j)'
  <2>1. copy[j] = before[j]
    BY DEF CopyStore, UndoInv, CopyInv
  <2>2. CASE left[j] = {}
    BY <2>1, <2>2 DEF CopyStore, CopyInv
  <2>3. CASE left[j] # {}
    <3>1. PICK s \in left[j] : /\ copy' = [copy EXCEPT ![j][s] = live[s]]
                               /\ before' = [before EXCEPT ![j][s] = live[s]]
      BY <2>3 DEF CopyStore
    <3>2. copy'[j] = [copy[j] EXCEPT ![s] = live[s]] /\ before'[j] = [before[j] EXCEPT ![s] = live[s]]
      BY <3>1 DEF TypeOK
    <3> QED
      BY <2>1, <3>2 DEF CopyInv
  <2> QED
    BY <2>2, <2>3
<1> QED
  BY <1>1, <1>2 DEF UndoInv, RestoreFailed

LEMMA UndoSwap ==
  ASSUME TypeOK, CallInv, NEW j \in Jobs, UndoInv(j), Swap(j)
  PROVE  UndoInv(j)'
<1>1. \/ pc'[j] = "swap" /\ reply'[j] = None
      \/ pc'[j] = "done" /\ reply'[j] = "ok"
  BY DEF Swap, Answer, Goto, TypeOK, UndoInv
<1>2. UNCHANGED <<copy, before, cut>>
  BY DEF Swap, Put, Hold, history
<1>3. CopyInv(j)'
  BY <1>1, <1>2 DEF UndoInv, CopyInv
<1> QED
  BY <1>1, <1>3 DEF UndoInv, RestoreFailed

LEMMA UndoUndo ==
  ASSUME TypeOK, CallInv, NEW j \in Jobs, UndoInv(j), Undo(j)
  PROVE  UndoInv(j)'
<1>1. reply[j] = None /\ PutBack(j, left[j]) /\ CopyInv(j)
  BY DEF Undo, UndoInv
<1>2. UNCHANGED <<copy, call, before, cut>>
  BY DEF Undo, Put, Hold, history
<1>3. CASE left[j] = {}
  <2>1. pc'[j] = "done" /\ live' = live /\ later' = later
    BY <1>3 DEF Undo, Answer, Goto, TypeOK, history
  <2>2. PutBack(j, {})' /\ CopyInv(j)'
    BY <1>1, <1>2, <1>3, <2>1 DEF PutBack, CopyInv
  <2> QED
    BY <2>1, <2>2 DEF UndoInv
<1>4. CASE left[j] # {}
  <2>1. PICK s \in left[j] : /\ left' = [left EXCEPT ![j] = @ \ {s}]
                             /\ Put(j, s, Broken) /\ into' = [into EXCEPT ![j] = s]
                             /\ Goto(j, "refill") /\ reply' = reply
    BY <1>4 DEF Undo
  <2>2. /\ pc'[j] = "refill" /\ reply'[j] = None /\ into'[j] = s
        /\ left'[j] = left[j] \ {s} /\ later'[j] = later[j] \ {s}
    BY <1>1, <2>1 DEF Put, Goto, TypeOK
  <2>3. \A t \in Stores \ {s} : live'[t] = live[t]
    BY <2>1 DEF Put, Hold, TypeOK, FileOf
  <2>4. PutBack(j, left[j] \cup {into[j]})'
    BY <1>1, <1>2, <2>2, <2>3 DEF PutBack
  <2>5. CopyInv(j)'
    BY <1>1, <1>2, <2>2 DEF CopyInv
  <2> QED
    BY <2>2, <2>4, <2>5 DEF UndoInv, RestoreFailed
<1> QED
  BY <1>3, <1>4

LEMMA UndoRefill ==
  ASSUME TypeOK, CallInv, NEW j \in Jobs, UndoInv(j), Refill(j)
  PROVE  UndoInv(j)'
<1>1. reply[j] = None /\ PutBack(j, left[j] \cup {into[j]}) /\ CopyInv(j)
  BY DEF Refill, UndoInv
<1>2. UNCHANGED <<copy, before, cut, left>>
  BY DEF Refill, Put, Hold, history, jobVars
<1>3. pc'[j] = "undo" /\ reply'[j] = None
  BY <1>1 DEF Refill, Goto, TypeOK
<1>4. CopyInv(j)'
  BY <1>1, <1>2, <1>3 DEF CopyInv
<1>5. PutBack(j, left[j])'
  <2>1. CASE into[j] = None
    <3>1. live' = live /\ later' = later
      BY <2>1 DEF Refill, history
    <3>2. None \notin Stores
      BY NoneAssumption
    <3> QED
      BY <1>1, <1>2, <2>1, <3>1, <3>2 DEF PutBack
  <2>2. CASE into[j] # None
    <3> DEFINE s == into[j]
    <3>1. s \in Stores
      BY <2>2 DEF TypeOK
    <3>2. \A t \in Stores \ {s} : live'[t] = live[t]
      BY <2>2 DEF Refill, Put, Hold, TypeOK, FileOf
    <3>3. \/ s \in later'[j]
          \/ live'[s] = copy[j][s]
      <4>1. CASE Alone(j)
        <5>1. Put(j, s, copy[j][s])
          BY <2>2, <4>1 DEF Refill
        <5> QED
          BY <3>1, <5>1 DEF Put, Hold, TypeOK, FileOf
      <4>2. CASE ~Alone(j)
        BY <2>2, <4>2 DEF Refill
      <4> QED
        BY <4>1, <4>2
    <3>4. \A t \in Stores \ {s} : t \in later[j] <=> t \in later'[j]
      <4>1. CASE Alone(j)
        <5>1. Put(j, s, copy[j][s])
          BY <2>2, <4>1 DEF Refill
        <5> QED
          BY <5>1 DEF Put
      <4>2. CASE ~Alone(j)
        BY <2>2, <4>2 DEF Refill
      <4> QED
        BY <4>1, <4>2
    <3>5. copy[j][s] = before[j][s] \/ s = cut[j]
      BY <1>1, <3>1 DEF CopyInv
    <3> HIDE DEF s
    <3>6. ASSUME NEW t \in Stores \ left[j], before[j][t] # None, t \notin later'[j]
          PROVE  live'[t] = before[j][t] \/ t = cut[j]
      <4>1. CASE t = s
        BY <3>3, <3>5, <3>6, <4>1
      <4>2. CASE t # s
        <5>1. PutBack(j, left[j] \cup {s})
          BY <1>1 DEF s
        <5> QED
          BY <3>2, <3>4, <3>6, <4>2, <5>1 DEF PutBack
      <4> QED
        BY <4>1, <4>2
    <3> QED
      BY <1>2, <3>6 DEF PutBack
  <2> QED
    BY <2>1, <2>2
<1> QED
  BY <1>3, <1>4, <1>5 DEF UndoInv, RestoreFailed

LEMMA UndoRestore ==
  ASSUME TypeOK, CallInv, NEW j \in Jobs, UndoInv(j), Restore(j)
  PROVE  UndoInv(j)'
<1>1. CASE Verify(j) \/ Load(j)
  <2>0. UNCHANGED <<copy, before, cut, live, later>>
    BY <1>1 DEF Verify, Load, jobVars, repoVars, history
  <2>1. reply[j] = None /\ later'[j] = Stores /\ copy'[j] = before'[j]
    BY <1>1, <2>0 DEF Verify, Load, UndoInv, CopyInv
  <2>2. pc'[j] \in {"load", "copy", "undo"} => reply'[j] = None
    BY <1>1, <2>1 DEF Verify, Load, RollBack, Answer, Goto, TypeOK
  <2>3. pc'[j] \in {"load", "copy", "undo", "done"}
    BY <1>1 DEF Verify, Load, RollBack, Answer, Goto, TypeOK
  <2>4. PutBack(j, left[j])' /\ PutBack(j, {})' /\ CopyInv(j)'
    BY <2>1 DEF PutBack, CopyInv
  <2> QED
    BY <2>1, <2>2, <2>3, <2>4 DEF UndoInv
<1>2. CASE Stage(j)
  <2>1. pc'[j] = "swap" /\ reply'[j] = None
    BY <1>2 DEF Stage, Goto, TypeOK, UndoInv
  <2>2. CopyInv(j)'
    BY <1>2, <2>1 DEF Stage, history, UndoInv, CopyInv
  <2> QED
    BY <2>1, <2>2 DEF UndoInv, RestoreFailed
<1>3. CASE UndoFails(j)
  <2>1. pc'[j] = "done" /\ reply'[j] = "error"
    BY <1>3 DEF UndoFails, Answer, Goto, TypeOK
  <2>2. CopyInv(j)'
    BY <1>3, <2>1 DEF UndoFails, jobVars, history, UndoInv, CopyInv
  <2> QED
    BY <2>1, <2>2 DEF UndoInv, RestoreFailed
<1> QED
  BY <1>1, <1>2, <1>3, UndoCopyFails, UndoCopyStore, UndoSwap, UndoUndo, UndoRefill DEF Restore

LEMMA UndoNext == Typed /\ Typed' /\ (\A j \in Jobs : UndoInv(j)) /\ [Next]_vars
                    => \A j \in Jobs : UndoInv(j)'
<1> SUFFICES ASSUME TypeOK, TypeOK', CallInv, \A j \in Jobs : UndoInv(j), [Next]_vars
             PROVE  \A j \in Jobs : UndoInv(j)'
  BY DEF Typed
<1>0. ASSUME NEW k \in Jobs, Same(k), Noted(k) PROVE UndoInv(k)'
  BY <1>0, UndoOthers
<1>1. ASSUME NEW s \in Stores, ReadDirect(s) PROVE \A k \in Jobs : UndoInv(k)'
  <2>1. \A k \in Jobs : Same(k) /\ Noted(k)
    BY <1>1 DEF ReadDirect, jobVars, history, Same, Noted
  <2> QED
    BY <1>0, <2>1
<1>2. ASSUME NEW s \in Stores,
             InitDirect(s) \/ \E x \in Records : SaveCached(s, x) \/ SaveDirect(s, x)
      PROVE  \A k \in Jobs : UndoInv(k)'
  <2>1. UNCHANGED <<pc, reply, call, left, copy>>
    BY <1>2 DEF InitDirect, SaveCached, SaveDirect, jobVars
  <2>2. PICK c : Written(s, c)
    BY <1>2 DEF InitDirect, SaveCached, SaveDirect
  <2>3. \A k \in Jobs : Same(k) /\ Noted(k)
    BY <2>1, <2>2, WrittenNoted DEF Same
  <2> QED
    BY <1>0, <2>3
<1>3. ASSUME NEW j \in Jobs, Job(j) PROVE \A k \in Jobs : UndoInv(k)'
  <2>1. \A k \in Jobs \ {j} : Same(k) /\ Noted(k)
    BY <1>3, JobOthers
  <2>2. UndoInv(j)'
    BY <1>3, UndoStart, UndoInvFails, UndoCreate, UndoRestore DEF Job
  <2> QED
    BY <1>0, <2>1, <2>2
<1>4. ASSUME NEW j \in Jobs, Damage(j) PROVE \A k \in Jobs : UndoInv(k)'
  <2>1. \A k \in Jobs : Same(k) /\ Noted(k)
    BY <1>4 DEF Damage, repoVars, jobVars, history, Same, Noted
  <2> QED
    BY <1>0, <2>1
<1>5. CASE Restart
  <2>1. ASSUME NEW k \in Jobs PROVE UndoInv(k)'
    <3>1. UNCHANGED <<live, later, reply, call, left, copy, before, cut>>
      BY <1>5 DEF Restart, jobVars, history
    <3>2. pc'[k] = IF pc[k] = "idle" THEN "idle" ELSE "done"
      BY <1>5 DEF Restart
    <3>3. CopyInv(k)'
      BY <3>1, <3>2 DEF UndoInv, CopyInv
    <3>4. CASE pc[k] = "idle"
      BY <3>1, <3>2, <3>3, <3>4 DEF UndoInv, RestoreFailed
    <3>5. CASE pc[k] = "done"
      BY <3>1, <3>2, <3>3, <3>5 DEF UndoInv, RestoreFailed, PutBack
    <3>6. CASE pc[k] \notin {"idle", "done"}
      <4>1. pc'[k] = "done" /\ reply'[k] = None
        BY <3>1, <3>2, <3>6 DEF UndoInv
      <4> QED
        BY <3>3, <4>1, NoneAssumption DEF UndoInv, RestoreFailed
    <3> QED
      BY <3>4, <3>5, <3>6
  <2> QED
    BY <2>1
<1>6. CASE UNCHANGED vars
  <2>1. \A k \in Jobs : Same(k) /\ Noted(k)
    BY <1>6 DEF vars, repoVars, jobVars, history, Same, Noted
  <2> QED
    BY <1>0, <2>1
<1> QED
  BY <1>1, <1>2, <1>3, <1>4, <1>5, <1>6 DEF Next

(* However a restore fails, its own rollback's copies included, once it is *)
(* answered as rolled back every file it had found is what it was, or was  *)
(* written later by somebody else, or is the one whose copy was cut short. *)
THEOREM RestoreRolledBack == Spec => []RolledBack
<1> DEFINE Inv == Typed /\ \A j \in Jobs : UndoInv(j)
<1>1. Init => Inv
  BY TypeInit, UndoInit DEF Typed
<1>2. Inv /\ [Next]_vars => Inv'
  <2>1. Typed /\ [Next]_vars => Typed'
    BY TypeNext DEF Typed
  <2> QED
    BY <2>1, UndoNext
<1>3. Inv => RolledBack
  BY DEF UndoInv, PutBack, RolledBack
<1> HIDE DEF Inv
<1> QED
  BY <1>1, <1>2, <1>3, PTL DEF Spec

-----------------------------------------------------------------------------
(***************************************************************************)
(* What a backup holds.                                                    *)
(***************************************************************************)

(* Content c of store s is of the time of backup b.                        *)
InTime(b, s, c) == c \in seen[b][s] \/ (None \in seen[b][s] /\ c = Fallback[s])

(* While a backup reads the files it has seen what they hold, and what it  *)
(* has read of them so far is of its time.                                 *)
TimeInv(j) ==
  /\ pc[j] = "idle" => backups[j] = None
  /\ pc[j] = "read" => \A s \in Stores : live[s] \in seen[j][s]
  /\ pc[j] \in {"read", "bundle"} => \A s \in Stores \ left[j] : InTime(j, s, data[j][s])
  /\ pc[j] = "bundle" => left[j] = {}
  /\ backups[j] # None => \A s \in Stores : InTime(j, s, backups[j][s])

LEMMA TimeInit == Init => \A j \in Jobs : TimeInv(j)
BY DEF Init, TimeInv, InTime, Former

(* The others may write a store, or remove the backup.                     *)
Watched(k) ==
  \A s \in Stores : /\ seen[k][s] \subseteq seen'[k][s]
                    /\ pc[k] = "read" => live'[s] \in seen'[k][s] \/ live'[s] = live[s]

LEMMA TimeOthers ==
  ASSUME NEW k \in Jobs, TimeInv(k), Watched(k),
         pc'[k] = pc[k], left'[k] = left[k], data'[k] = data[k],
         backups'[k] = backups[k] \/ backups'[k] = None
  PROVE  TimeInv(k)'
<1>1. ASSUME NEW s \in Stores, NEW c, InTime(k, s, c) PROVE InTime(k, s, c)'
  BY <1>1 DEF InTime, Watched
<1>2. \A s \in Stores : InTime(k, s, data[k][s]) => InTime(k, s, data[k][s])'
  BY DEF InTime, Watched
<1>3. backups'[k] # None => \A s \in Stores : InTime(k, s, backups[k][s]) => InTime(k, s, backups[k][s])'
  BY DEF InTime, Watched
<1> QED
  BY <1>2, <1>3 DEF TimeInv, Watched

LEMMA WatchedStep ==
  ASSUME TypeOK, NEW k \in Jobs,
         (live' = live /\ seen' = seen) \/ \E s \in Stores : \E c : Hold(s, c)
  PROVE  Watched(k)
<1>1. CASE live' = live /\ seen' = seen
  BY <1>1 DEF Watched
<1>2. ASSUME NEW s \in Stores, NEW c, Hold(s, c) PROVE Watched(k)
  <2>1. ASSUME NEW t \in Stores
        PROVE  seen'[k][t] = IF t = s /\ pc[k] = "read" THEN seen[k][s] \cup {c} ELSE seen[k][t]
    BY <1>2 DEF Hold, TypeOK
  <2>2. \A t \in Stores : live'[t] = IF t = s THEN c ELSE live[t]
    BY <1>2 DEF Hold, TypeOK, FileOf
  <2> QED
    BY <2>1, <2>2 DEF Watched
<1> QED
  BY <1>1, <1>2

(* What a job does to the store files is to write one, or nothing.         *)
LEMMA JobHolds ==
  ASSUME TypeOK, NEW j \in Jobs, Restore(j) \/ Create(j) \/ Fails(j)
  PROVE  (live' = live /\ seen' = seen) \/ \E s \in Stores : \E c : Hold(s, c)
<1>1. CASE Swap(j)
  <2>1. \A s \in left[j] : s \in Stores
    BY DEF TypeOK
  <2> QED
    BY <1>1, <2>1 DEF Swap, Put, history
<1>2. CASE Undo(j)
  <2>1. \A s \in left[j] : s \in Stores
    BY DEF TypeOK
  <2> QED
    BY <1>2, <2>1 DEF Undo, Put, history
<1>3. CASE Refill(j)
  <2>1. into[j] # None => into[j] \in Stores
    BY DEF TypeOK
  <2> QED
    BY <1>3, <2>1 DEF Refill, Put, history
<1>4. CASE Verify(j) \/ Load(j) \/ CopyStore(j) \/ CopyFails(j) \/ Stage(j) \/ RestoreFails(j)
  BY <1>4 DEF Verify, Load, CopyStore, CopyFails, Stage, RestoreFails, repoVars, history
<1>5. CASE UndoFails(j) \/ Fails(j)
  BY <1>5 DEF UndoFails, Fails, repoVars, history
<1>6. CASE Create(j)
  BY <1>6 DEF Create, ReadStore, WriteBundle, ListOld, ListOldSlips, Remove, RemoveSlips, Pruned,
              repoVars, history
<1> QED
  BY <1>1, <1>2, <1>3, <1>4, <1>5, <1>6 DEF Restore

(* It makes no backup but its own, though it may remove some.              *)
LEMMA JobBackups ==
  ASSUME TypeOK, NEW j \in Jobs, Job(j), NEW k \in Jobs
  PROVE  \/ backups'[k] = backups[k] \/ backups'[k] = None
         \/ k = j /\ WriteBundle(j)
<1>1. ASSUME NEW c \in Offered, Start(j, c) PROVE backups' = backups
  BY <1>1 DEF Start
<1>2. CASE Restore(j) \/ Fails(j)
  BY <1>2 DEF Restore, Verify, Load, CopyStore, CopyFails, Stage, Swap, RestoreFails, Undo, Refill,
              UndoFails, Fails, backupVars
<1>3. CASE Create(j)
  BY <1>3 DEF Create, ReadStore, WriteBundle, ListOld, ListOldSlips, Remove, RemoveSlips, Pruned,
              backupVars, TypeOK
<1> QED
  BY <1>1, <1>2, <1>3 DEF Job

(* No step of a job writes or reads for another one.                       *)
LEMMA TimeJobOthers ==
  ASSUME TypeOK, CallInv, NEW j \in Jobs, Job(j), NEW k \in Jobs \ {j}
  PROVE  /\ Watched(k) /\ data'[k] = data[k]
         /\ backups'[k] = backups[k] \/ backups'[k] = None
<1>1. ASSUME NEW c \in Offered, Start(j, c) PROVE Watched(k) /\ data'[k] = data[k]
  BY <1>1 DEF Start, TypeOK, repoVars, Watched
<1>2. ASSUME Restore(j) \/ Create(j) \/ Fails(j) PROVE Watched(k) /\ data'[k] = data[k]
  <2>1. data'[k] = data[k]
    BY <1>2 DEF Restore, Verify, Load, CopyStore, CopyFails, Stage, Swap, RestoreFails, Undo, Refill,
                UndoFails, Fails, Create, ReadStore, WriteBundle, ListOld, ListOldSlips, Remove,
                RemoveSlips, Pruned, jobVars, TypeOK
  <2> QED
    BY <1>2, <2>1, JobHolds, WatchedStep
<1>3. backups'[k] = backups[k] \/ backups'[k] = None
  <2>1. k \in Jobs /\ k # j
    OBVIOUS
  <2> QED
    BY <2>1, JobBackups
<1>4. (\E c \in Offered : Start(j, c)) \/ Restore(j) \/ Create(j) \/ Fails(j)
  BY DEF Job
<1> QED
  BY <1>1, <1>2, <1>3, <1>4

LEMMA TimeStart ==
  ASSUME TypeOK, NEW j \in Jobs, TimeInv(j), NEW c \in Offered, Start(j, c)
  PROVE  TimeInv(j)'
<1>1. backups'[j] = None
  BY DEF Start, TimeInv
<1>2. pc'[j] \in {"read", "verify", "done"}
  BY DEF Start, Answer, Goto, FirstStep, TypeOK
<1>3. pc'[j] = "read" => left'[j] = Stores
  <2>1. pc'[j] = "read" => c.op = "backup"
    BY DEF Start, Answer, Goto, FirstStep, TypeOK
  <2> QED
    BY <2>1 DEF Start, TypeOK
<1>4. \A s \in Stores : live'[s] \in seen'[j][s]
  BY DEF Start, TypeOK, repoVars
<1> QED
  BY <1>1, <1>2, <1>3, <1>4 DEF TimeInv

(* Outside the reading of the stores a job that keeps its backup, or loses *)
(* it, cannot go wrong.                                                    *)
LEMMA TimeKept ==
  ASSUME NEW j \in Jobs, TimeInv(j), Watched(j), pc'[j] \notin {"idle", "read", "bundle"},
         backups'[j] = backups[j] \/ backups'[j] = None
  PROVE  TimeInv(j)'
BY DEF TimeInv, InTime, Watched

LEMMA TimeReadStore ==
  ASSUME TypeOK, NEW j \in Jobs, TimeInv(j), ReadStore(j)
  PROVE  TimeInv(j)'
<1>0. live' = live /\ seen' = seen /\ backups' = backups /\ pc[j] = "read"
  BY DEF ReadStore, repoVars, backupVars, history
<1>1. CASE left[j] = {}
  <2>1. pc'[j] = "bundle" /\ left' = left /\ data' = data
    BY <1>1 DEF ReadStore, Goto, TypeOK
  <2> QED
    BY <1>0, <1>1, <2>1 DEF TimeInv, InTime
<1>2. CASE left[j] # {} /\ pc' = pc
  <2>1. PICK s \in left[j] : left' = [left EXCEPT ![j] = @ \ {s}] /\ data' = [data EXCEPT ![j][s] = Source(s)]
    BY <1>0, <1>2 DEF ReadStore, Answer, Goto, TypeOK
  <2>2. pc' = pc /\ s \in Stores
    BY <1>2 DEF TypeOK
  <2>3. left'[j] = left[j] \ {s}
    BY <2>1 DEF TypeOK
  <2>4. \A t \in Stores : data'[j][t] = IF t = s THEN Source(s) ELSE data[j][t]
    BY <2>1 DEF TypeOK, FileOf
  <2>5. InTime(j, s, Source(s))
    BY <1>0, <2>2 DEF TimeInv, InTime, Source
  <2>6. \A t \in Stores \ left'[j] : InTime(j, t, data[j][t]) \/ t = s
    BY <1>0, <2>3 DEF TimeInv
  <2>7. \A t \in Stores \ left'[j] : InTime(j, t, data'[j][t])
    BY <2>4, <2>5, <2>6 DEF InTime
  <2> QED
    BY <1>0, <2>2, <2>7 DEF TimeInv, InTime
<1>3. CASE left[j] # {} /\ pc' # pc
  <2>1. pc'[j] = "done"
    BY <1>0, <1>3 DEF ReadStore, Answer, Goto, TypeOK
  <2> QED
    BY <1>0, <2>1 DEF TimeInv, InTime
<1> QED
  BY <1>1, <1>2, <1>3

LEMMA TimeWriteBundle ==
  ASSUME TypeOK, NEW j \in Jobs, TimeInv(j), WriteBundle(j)
  PROVE  TimeInv(j)'
<1>0. live' = live /\ seen' = seen /\ pc[j] = "bundle" /\ pc'[j] \in {"list", "done"}
  BY DEF WriteBundle, Goto, Answer, TypeOK, repoVars, history
<1>1. backups'[j] = backups[j] \/ backups'[j] = data[j]
  BY DEF WriteBundle, TypeOK
<1>2. \A s \in Stores : InTime(j, s, data[j][s])
  BY <1>0 DEF TimeInv
<1> QED
  BY <1>0, <1>1, <1>2 DEF TimeInv, InTime

LEMMA TimeJob ==
  ASSUME TypeOK, CallInv, NEW j \in Jobs, TimeInv(j), Job(j)
  PROVE  TimeInv(j)'
<1>1. CASE (Restore(j) \/ Create(j) \/ Fails(j)) /\ ~ReadStore(j) /\ ~WriteBundle(j)
  <2>1. pc'[j] \notin {"idle", "read", "bundle"}
    <3>1. CASE Restore(j)
      BY <3>1 DEF Restore, Verify, Load, RollBack, CopyStore, CopyFails, Stage, Swap, RestoreFails,
                  Undo, Refill, UndoFails, Goto, Answer, TypeOK
    <3>2. CASE Create(j) \/ Fails(j)
      BY <1>1, <3>2 DEF Create, ListOld, ListOldSlips, Remove, RemoveSlips, Pruned, Fails,
                        Goto, Answer, TypeOK
    <3> QED
      BY <1>1, <3>1, <3>2
  <2>2. backups'[j] = backups[j] \/ backups'[j] = None
    BY <1>1, JobBackups
  <2>3. Watched(j)
    BY <1>1, JobHolds, WatchedStep
  <2> QED
    BY <2>1, <2>2, <2>3, TimeKept
<1> QED
  BY <1>1, TimeStart, TimeReadStore, TimeWriteBundle DEF Job

LEMMA TimeNext == Typed /\ (\A j \in Jobs : TimeInv(j)) /\ [Next]_vars
                    => \A j \in Jobs : TimeInv(j)'
<1> SUFFICES ASSUME TypeOK, CallInv, \A j \in Jobs : TimeInv(j), [Next]_vars, NEW k \in Jobs
             PROVE  TimeInv(k)'
  BY DEF Typed
<1>1. ASSUME NEW s \in Stores, ReadDirect(s) PROVE TimeInv(k)'
  <2>1. UNCHANGED <<live, seen, pc, left, data, backups>>
    BY <1>1 DEF ReadDirect, backupVars, jobVars, history
  <2> QED
    BY <2>1, WatchedStep, TimeOthers
<1>2. ASSUME NEW s \in Stores,
             InitDirect(s) \/ \E x \in Records : SaveCached(s, x) \/ SaveDirect(s, x)
      PROVE  TimeInv(k)'
  <2>1. UNCHANGED <<pc, left, data, backups>>
    BY <1>2 DEF InitDirect, SaveCached, SaveDirect, backupVars, jobVars
  <2>2. \E c : Hold(s, c)
    BY <1>2 DEF InitDirect, SaveCached, SaveDirect, Written
  <2> QED
    BY <2>1, <2>2, WatchedStep, TimeOthers
<1>3. ASSUME NEW j \in Jobs, Job(j) PROVE TimeInv(k)'
  <2>1. CASE k = j
    BY <1>3, <2>1, TimeJob
  <2>2. CASE k # j
    <3>1. pc'[k] = pc[k] /\ left'[k] = left[k]
      BY <1>3, <2>2, JobOthers DEF Same
    <3> QED
      BY <1>3, <2>2, <3>1, TimeJobOthers, TimeOthers
  <2> QED
    BY <2>1, <2>2
<1>4. ASSUME NEW j \in Jobs, Damage(j) PROVE TimeInv(k)'
  <2>1. UNCHANGED <<live, seen, pc, left, data, backups>>
    BY <1>4 DEF Damage, repoVars, jobVars, history
  <2> QED
    BY <2>1, WatchedStep, TimeOthers
<1>5. CASE Restart
  <2>1. UNCHANGED <<live, seen, left, data, backups>>
    BY <1>5 DEF Restart, backupVars, jobVars, history
  <2>2. pc'[k] = pc[k] \/ pc'[k] = "done"
    BY <1>5 DEF Restart
  <2> QED
    BY <2>1, <2>2, WatchedStep, TimeOthers, TimeKept
<1>6. CASE UNCHANGED vars
  <2>1. UNCHANGED <<live, seen, pc, left, data, backups>>
    BY <1>6 DEF vars, repoVars, backupVars, jobVars, history
  <2> QED
    BY <2>1, WatchedStep, TimeOthers
<1> QED
  BY <1>1, <1>2, <1>3, <1>4, <1>5, <1>6 DEF Next

(* What a backup holds of a store was in that store's file while the       *)
(* backup was made, or there was no such file and it is the one in the data*)
(* directory, whatever is saved or restored meanwhile.                     *)
THEOREM BackupOfItsTime == Spec => []BackupIsOfItsTime
<1> DEFINE Inv == Typed /\ \A j \in Jobs : TimeInv(j)
<1>1. Init => Inv
  BY TypeInit, TimeInit DEF Typed
<1>2. Inv /\ [Next]_vars => Inv'
  <2>1. Typed /\ [Next]_vars => Typed'
    BY TypeNext DEF Typed
  <2> QED
    BY <2>1, TimeNext
<1>3. Inv => BackupIsOfItsTime
  BY DEF TimeInv, InTime, BackupIsOfItsTime
<1> HIDE DEF Inv
<1> QED
  BY <1>1, <1>2, <1>3, PTL DEF Spec

-----------------------------------------------------------------------------
(***************************************************************************)
(* How many backups there are.                                             *)
(***************************************************************************)
LEMMA LeastNat ==
  ASSUME NEW T \in SUBSET Nat, T # {}
  PROVE  \E x \in T : \A y \in T : x <= y
<1> DEFINE R == OpToRel(<, Nat)
<1>1. R = {ss \in Nat \X Nat : ss[1] < ss[2]}
  BY Zenon DEF OpToRel
<1>2. IsWellFoundedOn(R, Nat)
  BY NatLessThanWellFounded, Zenon
<1> HIDE DEF R
<1>3. PICK x \in T : \A y \in T : ~(<<y, x>> \in R)
  BY <1>2, WFMin
<1>4. \A y \in T : ~(y < x)
  BY <1>1, <1>3
<1> QED
  BY <1>4

Closing == {"list", "prune", "done"}

(* The jobs that have made a backup and listed what is too old.            *)
Past(b) == b \in Former \/ (call[b].op = "backup" /\ (pc[b] = "prune" \/ reply[b] = "ok"))

(* Jobs that were started have ranks of their own.                         *)
RankInv ==
  /\ \A i \in Jobs : taken[i] < clock
  /\ \A i, j \in Jobs : pc[i] # "idle" /\ pc[j] # "idle" /\ i # j => taken[i] # taken[j]

(* A backup comes with the end of its job's writing, which no job reaches  *)
(* twice: what is listed for removal does not come back.                   *)
ListInv(j) ==
  /\ j \in Former => pc[j] = "done" /\ reply[j] = None
  /\ backups[j] # None => pc[j] \in Closing
  /\ backups[j] # None /\ j \notin Former => call[j].op = "backup"
  /\ \A x \in doomed[j] : pc[x] \in Closing
  /\ reply[j] = "ok" /\ call[j].op = "backup" => doomed[j] = {}
  /\ pc[j] # "done" => reply[j] = None

(* Of more backups than there may be, all made by jobs that have listed    *)
(* what is too old, one is on the list of one of these jobs: the oldest of *)
(* them is on the list of the last to make it.  A file that was skipped, or*)
(* could not be removed, is one that there may be more.                    *)
SurplusInv ==
  \A G \in SUBSET {x \in Listed : Past(x)} :
    Cardinality(G) > Retention + slips => \E b \in G \ Former, x \in G : x \in doomed[b]

BoundInv == RankInv /\ (\A j \in Jobs : ListInv(j)) /\ SurplusInv

LEMMA BoundInit == Init => BoundInv
<1> SUFFICES ASSUME Init PROVE BoundInv
  OBVIOUS
<1>1. RankInv
  BY RecoveryAssumption DEF Init, RankInv, Former
<1>2. \A j \in Jobs : ListInv(j)
  BY NoneAssumption DEF Init, ListInv, Former, Closing
<1>3. SurplusInv
  <2> SUFFICES ASSUME NEW G \in SUBSET {x \in Listed : Past(x)}
               PROVE  ~(Cardinality(G) > Retention + slips)
    BY DEF SurplusInv
  <2>0. slips = 0
    BY DEF Init
  <2>1. G \subseteq Former /\ Former \subseteq Jobs
    BY DEF Listed, Former, Init
  <2>2. \A i, j \in G : i = j
    BY <2>1, RecoveryAssumption DEF Former
  <2>3. CASE G = {}
    BY <2>0, <2>3, FS_EmptySet, RecoveryAssumption
  <2>4. CASE G # {}
    <3>1. PICK g \in G : G = {g}
      BY <2>2, <2>4
    <3>2. Cardinality(G) = 1
      BY <3>1, FS_Singleton
    <3> QED
      BY <2>0, <3>2, RecoveryAssumption
  <2> QED
    BY <2>3, <2>4
<1> QED
  BY <1>1, <1>2, <1>3 DEF BoundInv

(* The oldest of more listed backups than are to be kept is too old.       *)
LEMMA OldestIsDoomed ==
  ASSUME TypeOK, RankInv, \A j \in Jobs : ListInv(j),
         NEW listed \in SUBSET Listed, NEW G \in SUBSET listed, Cardinality(G) > Retention
  PROVE  \E x \in G : x \in Expired(listed)
<1>1. IsFiniteSet(G) /\ G \subseteq Jobs /\ Cardinality(G) \in Nat /\ Retention \in Nat
  BY RecoveryAssumption, FS_Subset, FS_CardinalityType DEF Listed
<1>2. G # {}
  BY FS_EmptySet, RecoveryAssumption
<1> DEFINE T == {taken[b] : b \in G}
<1>3. T \in SUBSET Nat /\ T # {}
  BY <1>1, <1>2 DEF TypeOK
<1>4. PICK t \in T : \A u \in T : t <= u
  BY <1>3, LeastNat
<1>5. PICK x \in G : t = taken[x]
  BY <1>4
<1>6. \A b \in G \ {x} : taken[b] > taken[x]
  <2>1. ASSUME NEW b \in G \ {x} PROVE taken[b] # taken[x] /\ taken[x] <= taken[b]
    <3>1. pc[b] # "idle" /\ pc[x] # "idle"
      BY <1>1 DEF ListInv, Listed, Closing
    <3> QED
      BY <1>1, <1>4, <1>5, <3>1 DEF RankInv
  <2>2. \A b \in G : taken[b] \in Nat
    BY <1>1 DEF TypeOK
  <2> QED
    BY <2>1, <2>2
<1>7. G \ {x} \subseteq NewerIn(x, listed) /\ NewerIn(x, listed) \subseteq Jobs
  BY <1>6 DEF NewerIn, Listed
<1>8. Cardinality(G \ {x}) = Cardinality(G) - 1
  BY <1>1, FS_RemoveElement
<1>9. IsFiniteSet(NewerIn(x, listed))
  BY <1>7, RecoveryAssumption, FS_Subset
<1>10. Cardinality(G \ {x}) <= Cardinality(NewerIn(x, listed)) /\ Cardinality(NewerIn(x, listed)) \in Nat
  BY <1>7, <1>9, FS_Subset, FS_CardinalityType
<1>11. Cardinality(NewerIn(x, listed)) >= Retention
  BY <1>1, <1>8, <1>10
<1> QED
  BY <1>11 DEF Expired

(* A set of listed backups is finite.                                      *)
LEMMA ListedFinite ==
  ASSUME TypeOK, NEW G \in SUBSET Listed
  PROVE  /\ IsFiniteSet(G) /\ Cardinality(G) \in Nat /\ slips \in Nat
         /\ \A b : Cardinality(G \ {b}) \in Nat /\ Cardinality(G \ {b}) >= Cardinality(G) - 1
<1>1. Listed \subseteq Jobs
  BY DEF Listed
<1>2. IsFiniteSet(G) /\ Cardinality(G) \in Nat
  BY <1>1, RecoveryAssumption, FS_Subset, FS_CardinalityType
<1>3. ASSUME NEW b PROVE Cardinality(G \ {b}) \in Nat /\ Cardinality(G \ {b}) >= Cardinality(G) - 1
  <2>1. CASE b \in G
    <3>1. IsFiniteSet(G \ {b}) /\ Cardinality(G \ {b}) = Cardinality(G) - 1
      BY <1>2, <2>1, FS_RemoveElement
    <3>2. Cardinality(G \ {b}) \in Nat
      BY <3>1, FS_CardinalityType
    <3> QED
      BY <1>2, <3>1, <3>2
  <2>2. CASE b \notin G
    <3>1. G \ {b} = G
      BY <2>2
    <3> QED
      BY <1>2, <3>1
  <2> QED
    BY <2>1, <2>2
<1>4. slips \in Nat
  BY RecoveryAssumption DEF TypeOK
<1> QED
  BY <1>2, <1>3, <1>4

(* No step but the listing adds to the jobs that are past it; what was     *)
(* listed before, and is still past, was there before; and what leaves the *)
(* lists without a slip is gone.                                           *)
LEMMA SurplusKept ==
  ASSUME SurplusInv, slips' = slips,
         \A k \in Jobs : \A x \in doomed[k] : x \in doomed'[k] \/ x \notin Listed',
         \A x \in Jobs : x \in Listed' /\ Past(x)' => x \in Listed /\ Past(x)
  PROVE  SurplusInv'
<1> SUFFICES ASSUME NEW G \in SUBSET {x \in Listed' : Past(x)'}, Cardinality(G) > Retention + slips
             PROVE  \E b \in G \ Former, x \in G : x \in doomed'[b]
  BY DEF SurplusInv, Former
<1>1. G \in SUBSET {x \in Listed : Past(x)}
  BY DEF Listed
<1>2. PICK b \in G \ Former, x \in G : x \in doomed[b]
  BY <1>1 DEF SurplusInv
<1>3. b \in Jobs /\ x \in Listed'
  BY <1>1 DEF Listed
<1> QED
  BY <1>2, <1>3

(* A removal that fails leaves one backup more.                            *)
LEMMA SurplusRemoveSlips ==
  ASSUME TypeOK, SurplusInv, NEW j \in Jobs, RemoveSlips(j)
  PROVE  SurplusInv'
<1>1. PICK b \in doomed[j] : doomed' = [doomed EXCEPT ![j] = @ \ {b}]
  BY DEF RemoveSlips
<1>2. /\ slips' = slips + 1
      /\ UNCHANGED <<pc, reply, call, backups, damaged>>
  BY DEF RemoveSlips, Slip, backupVars
<1> SUFFICES ASSUME NEW G \in SUBSET {x \in Listed' : Past(x)'}, Cardinality(G) > Retention + slips'
             PROVE  \E k \in G \ Former, x \in G : x \in doomed'[k]
  BY DEF SurplusInv, Former
<1>3. G \in SUBSET Listed /\ \A x \in G : Past(x)
  BY <1>2 DEF Listed, Past, Former
<1>4. Cardinality(G \ {b}) > Retention + slips
  <2>1. /\ Cardinality(G) \in Nat /\ Cardinality(G \ {b}) \in Nat /\ slips \in Nat
        /\ Cardinality(G \ {b}) >= Cardinality(G) - 1
    BY <1>3, ListedFinite
  <2>2. Cardinality(G) > Retention + (slips + 1) /\ Retention \in Nat
    BY <1>2, RecoveryAssumption
  <2> QED
    BY <2>1, <2>2
<1>5. PICK k \in (G \ {b}) \ Former, x \in G \ {b} : x \in doomed[k]
  BY <1>3, <1>4 DEF SurplusInv
<1>6. x \in doomed'[k]
  BY <1>1, <1>3, <1>5 DEF TypeOK, Listed
<1> QED
  BY <1>5, <1>6

LEMMA SurplusListOld ==
  ASSUME TypeOK, BoundInv, CallInv, NEW j \in Jobs, ListOld(j) \/ ListOldSlips(j)
  PROVE  SurplusInv'
<1>1. /\ pc[j] = "list" /\ j \notin Former
      /\ \A k \in Jobs \ {j} : doomed'[k] = doomed[k] /\ pc'[k] = pc[k]
      /\ reply' = reply /\ call' = call /\ backups' = backups /\ damaged' = damaged
  BY DEF ListOld, ListOldSlips, Goto, TypeOK, backupVars, BoundInv, ListInv
<1>2. PICK skipped \in SUBSET Listed :
        /\ doomed'[j] = Expired(Listed \ skipped)
        /\ \/ skipped = {} /\ slips' = slips
           \/ slips' = slips + 1 /\ \E b : skipped = {b}
  <2>1. CASE ListOld(j)
    <3>1. doomed'[j] = Expired(Listed) /\ slips' = slips
      BY <2>1 DEF ListOld, TypeOK, bounds
    <3>2. Listed \ {} = Listed /\ {} \in SUBSET Listed
      OBVIOUS
    <3> QED
      BY <3>1, <3>2
  <2>2. CASE ListOldSlips(j)
    <3>1. PICK b \in Listed : doomed'[j] = Expired(Listed \ {b})
      BY <2>2 DEF ListOldSlips, TypeOK
    <3>2. slips' = slips + 1 /\ {b} \in SUBSET Listed
      BY <2>2 DEF ListOldSlips, Slip
    <3> QED
      BY <3>1, <3>2
  <2> QED
    BY <2>1, <2>2
<1> SUFFICES ASSUME NEW G \in SUBSET {x \in Listed' : Past(x)'}, Cardinality(G) > Retention + slips'
             PROVE  \E b \in G \ Former, x \in G : x \in doomed'[b]
  BY DEF SurplusInv, Former
<1> DEFINE H == G \ skipped
<1>3. G \in SUBSET Listed /\ G \subseteq Jobs
  BY <1>1 DEF Listed
<1>4. Cardinality(H) > Retention + slips /\ slips \in Nat
  <2>1. CASE skipped = {} /\ slips' = slips
    <3>1. H = G
      BY <2>1
    <3> QED
      BY <1>3, <2>1, <3>1, ListedFinite
  <2>2. ASSUME NEW b, skipped = {b}, slips' = slips + 1 PROVE Cardinality(H) > Retention + slips
    <3>1. H = G \ {b}
      BY <2>2
    <3> HIDE DEF H
    <3>2. /\ Cardinality(G) \in Nat /\ Cardinality(H) \in Nat /\ slips \in Nat
          /\ Cardinality(H) >= Cardinality(G) - 1
      BY <1>3, <3>1, ListedFinite
    <3>3. Cardinality(G) > Retention + (slips + 1) /\ Retention \in Nat
      BY <2>2, RecoveryAssumption
    <3> QED
      BY <3>2, <3>3
  <2>3. slips \in Nat
    BY <1>3, ListedFinite
  <2> QED
    BY <1>2, <2>1, <2>2, <2>3
<1>5. H \in SUBSET (Listed \ skipped) /\ Listed \ skipped \in SUBSET Listed /\ H \subseteq G
  BY <1>3
<1> HIDE DEF H
<1>6. Cardinality(H) > Retention
  <2>1. H \in SUBSET Listed
    BY <1>5
  <2>2. Cardinality(H) \in Nat
    BY <2>1, ListedFinite
  <2> QED
    BY <1>4, <2>2, RecoveryAssumption
<1>7. CASE j \in H
  <2>1. PICK x \in H : x \in Expired(Listed \ skipped)
    BY <1>5, <1>6, OldestIsDoomed DEF BoundInv
  <2>2. x \in doomed'[j]
    BY <1>2, <2>1
  <2> QED
    BY <1>1, <1>5, <1>7, <2>1, <2>2
<1>8. CASE j \notin H
  <2>1. \A x \in H : x \in Listed /\ Past(x)
    BY <1>1, <1>3, <1>5, <1>8 DEF Past, Former
  <2>2. PICK b \in H \ Former, x \in H : x \in doomed[b]
    BY <1>4, <2>1 DEF BoundInv, SurplusInv
  <2>3. b \in Jobs \ {j}
    BY <1>3, <1>5, <1>8, <2>2
  <2> QED
    BY <1>1, <1>5, <2>2, <2>3
<1> QED
  BY <1>7, <1>8

(* Job k stands still, or goes on without making a backup or listing.      *)
Quiet(k) ==
  \/ pc'[k] = pc[k] /\ reply'[k] = reply[k] /\ call'[k] = call[k]
  \/ /\ pc[k] \notin {"idle", "done"} /\ pc'[k] # "idle" /\ call'[k] = call[k]
     /\ pc[k] \in Closing => pc'[k] \in Closing
     /\ pc'[k] # "done" => reply'[k] = None
     /\ pc'[k] = "prune" => pc[k] = "prune"
     /\ reply'[k] = "ok" /\ call[k].op = "backup" => pc[k] = "prune" /\ doomed[k] = {}

(* A backup is left because its removal failed.                            *)
RemovesSlip == \E j \in Jobs : RemoveSlips(j)

LEMMA BoundQuiet ==
  ASSUME TypeOK, BoundInv, UNCHANGED <<taken, clock>>, damaged \subseteq damaged',
         \A k \in Jobs : /\ Quiet(k)
                         /\ backups'[k] = backups[k] \/ backups'[k] = None
                         /\ doomed'[k] \subseteq doomed[k],
         \/ RemovesSlip
         \/ /\ slips' = slips
            /\ \A k \in Jobs : \A x \in doomed[k] : x \in doomed'[k] \/ x \notin Listed'
  PROVE  BoundInv'
<1>0. ASSUME NEW k \in Jobs PROVE Quiet(k) /\ doomed'[k] \subseteq doomed[k]
  OBVIOUS
<1>1. RankInv'
  BY <1>0 DEF BoundInv, RankInv, Quiet
<1>2. ASSUME NEW k \in Jobs PROVE ListInv(k)'
  <2>0. ListInv(k) /\ Quiet(k) /\ doomed'[k] \subseteq doomed[k]
    BY <1>0 DEF BoundInv
  <2>1. k \in Former => pc'[k] = "done" /\ reply'[k] = None
    BY <2>0 DEF ListInv, Quiet
  <2>2. backups'[k] # None => pc'[k] \in Closing /\ (k \notin Former => call'[k].op = "backup")
    BY <2>0 DEF ListInv, Quiet
  <2>3. \A x \in doomed'[k] : pc'[x] \in Closing
    <3>1. \A x \in doomed[k] : x \in Jobs /\ Quiet(x) /\ pc[x] \in Closing
      BY <1>0, <2>0 DEF TypeOK, ListInv
    <3> QED
      BY <2>0, <3>1 DEF Quiet
  <2>4. reply'[k] = "ok" /\ call'[k].op = "backup" => doomed'[k] = {}
    BY <2>0 DEF ListInv, Quiet
  <2>5. pc'[k] # "done" => reply'[k] = None
    BY <2>0 DEF ListInv, Quiet
  <2> QED
    BY <2>1, <2>2, <2>3, <2>4, <2>5 DEF ListInv, Former
<1>3. SurplusInv'
  <2>1. ASSUME NEW x \in Jobs, x \in Listed', Past(x)' PROVE x \in Listed /\ Past(x)
    <3>1. x \in Listed
      BY <2>1 DEF Listed
    <3>2. Quiet(x)
      BY <1>0
    <3> QED
      BY <2>1, <3>1, <3>2 DEF Past, Former, Quiet
  <2>2. CASE RemovesSlip
    BY <2>2, SurplusRemoveSlips DEF BoundInv, RemovesSlip
  <2> QED
    BY <2>1, <2>2, SurplusKept DEF BoundInv
<1> QED
  BY <1>1, <1>2, <1>3 DEF BoundInv

LEMMA BoundStart ==
  ASSUME TypeOK, BoundInv, NEW j \in Jobs, NEW c \in Offered, Start(j, c)
  PROVE  BoundInv'
<1>1. pc[j] = "idle" /\ reply[j] = None /\ backups[j] = None /\ j \notin Former
  BY DEF Start, BoundInv, ListInv, Closing
<1>2. /\ pc'[j] \in {"read", "verify", "done"} /\ reply'[j] \in {None, "refused"}
      /\ pc'[j] # "done" => reply'[j] = None
  BY <1>1 DEF Start, Answer, Goto, FirstStep, TypeOK
<1>3. \A k \in Jobs \ {j} : pc'[k] = pc[k] /\ reply'[k] = reply[k] /\ call'[k] = call[k]
  BY DEF Start, Answer, Goto, TypeOK
<1>4. UNCHANGED <<backups, damaged, doomed, slips>>
  BY DEF Start, bounds
<1>5. RankInv'
  <2>1. /\ clock' = clock + 1 /\ clock \in Nat /\ taken'[j] = clock
        /\ \A k \in Jobs \ {j} : taken'[k] = taken[k] /\ taken[k] \in Nat
    BY DEF Start, TypeOK
  <2>2. \A k \in Jobs : taken[k] < clock
    BY DEF BoundInv, RankInv
  <2>3. \A k \in Jobs : taken'[k] < clock'
    BY <2>1, <2>2
  <2>4. \A i, k \in Jobs \ {j} : pc'[i] # "idle" /\ pc'[k] # "idle" /\ i # k => taken'[i] # taken'[k]
    BY <1>3, <2>1 DEF BoundInv, RankInv
  <2>5. \A k \in Jobs \ {j} : taken'[j] # taken'[k]
    BY <2>1, <2>2
  <2> QED
    BY <2>3, <2>4, <2>5 DEF RankInv
<1>6. ASSUME NEW k \in Jobs PROVE ListInv(k)'
  <2>1. \A x \in doomed'[k] : pc'[x] \in Closing
    <3>1. \A x \in doomed[k] : x \in Jobs \ {j} /\ pc[x] \in Closing
      BY <1>1 DEF BoundInv, ListInv, Closing, TypeOK
    <3> QED
      BY <1>3, <1>4, <3>1
  <2>2. CASE k = j
    BY <1>1, <1>2, <1>4, <2>1, <2>2, NoneAssumption DEF ListInv, Former
  <2>3. CASE k # j
    BY <1>3, <1>4, <2>1, <2>3 DEF BoundInv, ListInv, Former
  <2> QED
    BY <2>2, <2>3
<1>7. SurplusInv'
  <2>1. ASSUME NEW x \in Jobs, x \in Listed', Past(x)' PROVE x \in Listed /\ Past(x)
    <3>1. x \in Listed /\ x # j
      BY <1>1, <1>4, <2>1 DEF Listed
    <3> QED
      BY <1>3, <2>1, <3>1 DEF Past, Former
  <2> QED
    BY <1>4, <2>1, SurplusKept DEF BoundInv
<1> QED
  BY <1>5, <1>6, <1>7 DEF BoundInv

LEMMA BoundWriteBundle ==
  ASSUME TypeOK, CallInv, BoundInv, NEW j \in Jobs, WriteBundle(j)
  PROVE  BoundInv'
<1>1. /\ pc[j] = "bundle" /\ reply[j] = None /\ call[j].op = "backup" /\ j \notin Former
      /\ backups[j] = None
  BY DEF WriteBundle, BoundInv, ListInv, CallInv, BackupSteps, Closing
<1>2. \/ pc'[j] = "list" /\ reply'[j] = None
      \/ pc'[j] = "done" /\ reply'[j] = "failed" /\ backups' = backups
  BY <1>1 DEF WriteBundle, Answer, Goto, TypeOK
<1>3. \A k \in Jobs \ {j} : pc'[k] = pc[k] /\ reply'[k] = reply[k] /\ backups'[k] = backups[k]
  BY DEF WriteBundle, Answer, Goto, TypeOK
<1>4. UNCHANGED <<taken, clock, damaged, doomed, call, slips>>
  BY DEF WriteBundle, jobVars, bounds
<1>5. RankInv'
  BY <1>1, <1>2, <1>3, <1>4 DEF BoundInv, RankInv
<1>6. ASSUME NEW k \in Jobs PROVE ListInv(k)'
  <2>1. \A x \in doomed[k] : x \in Jobs \ {j} /\ pc[x] \in Closing
    BY <1>1 DEF BoundInv, ListInv, Closing, TypeOK
  <2>2. \A x \in doomed'[k] : pc'[x] \in Closing
    BY <1>3, <1>4, <2>1
  <2>3. CASE k = j
    BY <1>1, <1>2, <1>4, <2>2, <2>3, NoneAssumption DEF ListInv, Former, Closing
  <2>4. CASE k # j
    BY <1>3, <1>4, <2>1, <2>2, <2>4 DEF BoundInv, ListInv, Former
  <2> QED
    BY <2>3, <2>4
<1>7. SurplusInv'
  <2>1. ASSUME NEW x \in Jobs, x \in Listed', Past(x)' PROVE x \in Listed /\ Past(x)
    <3>1. x # j
      BY <1>1, <1>2, <1>4, <2>1, NoneAssumption DEF Past, Former
    <3> QED
      BY <1>3, <1>4, <2>1, <3>1 DEF Past, Former, Listed
  <2> QED
    BY <1>4, <2>1, SurplusKept DEF BoundInv
<1> QED
  BY <1>5, <1>6, <1>7 DEF BoundInv

LEMMA BoundListOld ==
  ASSUME TypeOK, CallInv, BoundInv, NEW j \in Jobs, ListOld(j) \/ ListOldSlips(j)
  PROVE  BoundInv'
<1>0. \A listed \in SUBSET Listed : Expired(listed) \subseteq Listed
  BY DEF Expired
<1>1. /\ pc[j] = "list" /\ pc'[j] = "prune" /\ reply[j] = None
      /\ doomed'[j] \subseteq Listed
      /\ \A k \in Jobs \ {j} : doomed'[k] = doomed[k] /\ pc'[k] = pc[k]
      /\ UNCHANGED <<reply, call, backups, damaged, taken, clock>>
  <2>1. pc[j] = "list" /\ reply[j] = None
    BY DEF ListOld, ListOldSlips, BoundInv, ListInv
  <2>2. PICK old \in SUBSET Listed : doomed' = [doomed EXCEPT ![j] = old]
    <3>1. \A b : Listed \in SUBSET Listed /\ Listed \ {b} \in SUBSET Listed
      OBVIOUS
    <3> QED
      BY <1>0, <3>1 DEF ListOld, ListOldSlips
  <2>3. pc' = [pc EXCEPT ![j] = "prune"] /\ UNCHANGED <<reply, call, backups, damaged, taken, clock>>
    BY DEF ListOld, ListOldSlips, Goto, backupVars
  <2> QED
    BY <2>1, <2>2, <2>3 DEF TypeOK
<1>2. RankInv'
  BY <1>1 DEF BoundInv, RankInv
<1>3. \A x \in Jobs : pc[x] \in Closing => pc'[x] \in Closing
  BY <1>1 DEF Closing
<1>4. ASSUME NEW k \in Jobs PROVE ListInv(k)'
  <2>1. \A x \in doomed'[k] : pc'[x] \in Closing
    <3>1. \A x \in doomed'[k] : x \in Jobs /\ pc[x] \in Closing
      BY <1>1 DEF BoundInv, ListInv, Listed, TypeOK
    <3> QED
      BY <1>3, <3>1
  <2>2. CASE k = j
    BY <1>1, <1>3, <2>1, <2>2, NoneAssumption DEF BoundInv, ListInv, Former
  <2>3. CASE k # j
    BY <1>1, <1>3, <2>1, <2>3 DEF BoundInv, ListInv, Former
  <2> QED
    BY <2>2, <2>3
<1> QED
  BY <1>2, <1>4, SurplusListOld DEF BoundInv

(* The steps of a job that do not start it, write its backup or list.      *)
LEMMA QuietJob ==
  ASSUME TypeOK, CallInv, BoundInv, NEW j \in Jobs,
         \/ Restore(j) \/ Fails(j) \/ ReadStore(j)
         \/ Remove(j) \/ RemoveSlips(j) \/ Pruned(j)
  PROVE  Quiet(j)
<1>0. call' = call
  BY DEF Restore, Verify, Load, CopyStore, CopyFails, Stage, Swap, RestoreFails, Undo, Refill,
         UndoFails, Fails, ReadStore, Remove, RemoveSlips, Pruned, jobVars
<1>1. reply[j] = None \/ pc[j] = "done"
  BY DEF BoundInv, ListInv
<1>2. CASE Restore(j)
  <2>1. pc[j] \in RestoreSteps
    BY <1>2 DEF Restore, Verify, Load, CopyStore, CopyFails, Stage, Swap, RestoreFails, Undo, Refill,
                UndoFails, RestoreSteps
  <2>2. call[j].op = "restore"
    BY <2>1 DEF CallInv
  <2>3. pc'[j] \in RestoreSteps \cup {"done"}
    BY <1>2 DEF Restore, Verify, Load, RollBack, CopyStore, CopyFails, Stage, Swap, RestoreFails,
                Undo, Refill, UndoFails, RestoreSteps, Goto, Answer, TypeOK
  <2>4. pc'[j] # "done" => reply' = reply
    BY <1>2 DEF Restore, Verify, Load, CopyStore, CopyFails, Stage, Swap, RestoreFails,
                Undo, Refill, UndoFails, Goto, Answer, TypeOK
  <2> QED
    BY <1>0, <1>1, <2>1, <2>2, <2>3, <2>4 DEF Quiet, RestoreSteps, Closing
<1>3. CASE Fails(j)
  <2>1. /\ pc[j] \notin {"idle", "done"} /\ pc'[j] = "done" /\ reply'[j] # "ok"
    BY <1>3 DEF Fails, Goto, Answer, TypeOK
  <2> QED
    BY <1>0, <2>1 DEF Quiet, Closing
<1>4. CASE ReadStore(j)
  <2>1. /\ pc[j] = "read"
        /\ \/ pc'[j] \in {"read", "bundle"} /\ reply' = reply
           \/ pc'[j] = "done" /\ reply'[j] = "failed"
    BY <1>4 DEF ReadStore, Goto, Answer, TypeOK
  <2> QED
    BY <1>0, <1>1, <2>1, NoneAssumption DEF Quiet, Closing
<1>5. CASE Remove(j) \/ RemoveSlips(j)
  BY <1>0, <1>5 DEF Remove, RemoveSlips, Quiet
<1>6. CASE Pruned(j)
  <2>1. pc[j] = "prune" /\ doomed[j] = {} /\ pc'[j] = "done"
    BY <1>6 DEF Pruned, Goto, Answer, TypeOK
  <2> QED
    BY <1>0, <2>1 DEF Quiet, Closing
<1> QED
  BY <1>2, <1>3, <1>4, <1>5, <1>6

LEMMA BoundJob ==
  ASSUME TypeOK, CallInv, BoundInv, NEW j \in Jobs, Job(j)
  PROVE  BoundInv'
<1>1. CASE Restore(j) \/ Fails(j) \/ ReadStore(j) \/ Pruned(j) \/ Remove(j) \/ RemoveSlips(j)
  <2>1. UNCHANGED <<taken, clock, damaged>>
    BY <1>1 DEF Restore, Verify, Load, CopyStore, CopyFails, Stage, Swap, RestoreFails, Undo, Refill,
                UndoFails, Fails, ReadStore, Remove, RemoveSlips, Pruned, backupVars
  <2>2. \A k \in Jobs : backups'[k] = backups[k] \/ backups'[k] = None
    <3>1. backups' = backups \/ Remove(j)
      BY <1>1 DEF Restore, Verify, Load, CopyStore, CopyFails, Stage, Swap, RestoreFails, Undo, Refill,
                  UndoFails, Fails, ReadStore, RemoveSlips, Pruned, backupVars
    <3> QED
      BY <3>1 DEF Remove, TypeOK
  <2>3. \A k \in Jobs : Quiet(k)
    BY <1>1, JobOthers, QuietJob DEF Same, Quiet
  <2>4. CASE Remove(j)
    <3>1. PICK b \in doomed[j] : /\ doomed' = [doomed EXCEPT ![j] = @ \ {b}]
                                 /\ backups' = [backups EXCEPT ![b] = None]
      BY <2>4 DEF Remove
    <3>2. b \in Jobs
      BY DEF TypeOK
    <3>3. b \notin Listed'
      BY <3>1, <3>2 DEF Listed, TypeOK
    <3>4. \A k \in Jobs : /\ doomed'[k] \subseteq doomed[k]
                          /\ \A x \in doomed[k] : x \in doomed'[k] \/ x = b
      BY <3>1 DEF TypeOK
    <3>5. slips' = slips
      BY <2>4 DEF Remove, bounds
    <3> QED
      BY <2>1, <2>2, <2>3, <3>3, <3>4, <3>5, BoundQuiet
  <2>5. CASE RemoveSlips(j)
    <3>1. PICK b \in doomed[j] : doomed' = [doomed EXCEPT ![j] = @ \ {b}]
      BY <2>5 DEF RemoveSlips
    <3>2. \A k \in Jobs : doomed'[k] \subseteq doomed[k]
      BY <3>1 DEF TypeOK
    <3> QED
      BY <2>1, <2>2, <2>3, <2>5, <3>2, BoundQuiet DEF RemovesSlip
  <2>6. CASE Restore(j) \/ Fails(j) \/ ReadStore(j) \/ Pruned(j)
    <3>1. doomed' = doomed /\ slips' = slips
      BY <2>6 DEF Restore, Verify, Load, CopyStore, CopyFails, Stage, Swap, RestoreFails, Undo, Refill,
                  UndoFails, Fails, ReadStore, Pruned, jobVars, bounds
    <3> QED
      BY <2>1, <2>2, <2>3, <3>1, BoundQuiet
  <2> QED
    BY <1>1, <2>4, <2>5, <2>6
<1> QED
  BY <1>1, BoundStart, BoundWriteBundle, BoundListOld DEF Job, Create

LEMMA BoundNext == Typed /\ BoundInv /\ [Next]_vars => BoundInv'
<1> SUFFICES ASSUME TypeOK, CallInv, BoundInv, [Next]_vars PROVE BoundInv'
  BY DEF Typed
<1>1. ASSUME NEW s \in Stores,
             \/ ReadDirect(s) \/ InitDirect(s)
             \/ \E x \in Records : SaveCached(s, x) \/ SaveDirect(s, x)
      PROVE  BoundInv'
  <2>1. UNCHANGED <<backups, taken, clock, damaged, doomed, pc, call, reply, slips>>
    BY <1>1 DEF ReadDirect, InitDirect, SaveCached, SaveDirect, backupVars, jobVars, bounds
  <2> QED
    BY <2>1, BoundQuiet DEF Quiet
<1>2. ASSUME NEW j \in Jobs, Damage(j) PROVE BoundInv'
  <2>1. UNCHANGED <<backups, taken, clock, doomed, pc, call, reply, slips>> /\ damaged \subseteq damaged'
    BY <1>2 DEF Damage, jobVars, bounds
  <2> QED
    BY <2>1, BoundQuiet DEF Quiet
<1>3. CASE Restart
  <2>1. UNCHANGED <<backups, taken, clock, damaged, doomed, call, reply, slips>>
    BY <1>3 DEF Restart, backupVars, jobVars
  <2>2. ASSUME NEW k \in Jobs PROVE Quiet(k)
    <3>1. pc'[k] = IF pc[k] = "idle" THEN "idle" ELSE "done"
      BY <1>3 DEF Restart
    <3>2. pc[k] # "done" => reply[k] = None
      BY DEF BoundInv, ListInv
    <3> QED
      BY <2>1, <3>1, <3>2, NoneAssumption DEF Quiet, Closing
  <2> QED
    BY <2>1, <2>2, BoundQuiet
<1>4. CASE UNCHANGED vars
  <2>1. UNCHANGED <<backups, taken, clock, damaged, doomed, pc, call, reply, slips>>
    BY <1>4 DEF vars, backupVars, jobVars, bounds
  <2> QED
    BY <2>1, BoundQuiet DEF Quiet
<1> QED
  BY <1>1, <1>2, <1>3, <1>4, BoundJob DEF Next

(* Backups do not pile up: whatever the order in which the requests of one *)
(* time list and remove the old ones, of the readable backups whose request*)
(* was answered there are at most as many as are to be kept, and one more  *)
(* for each file that was skipped or whose removal failed.                 *)
THEOREM BackupsBounded == Spec => []BackupsAreBounded
<1> DEFINE Inv == Typed /\ BoundInv
<1>1. Init => Inv
  BY TypeInit, BoundInit DEF Typed
<1>2. Inv /\ [Next]_vars => Inv'
  <2>1. Typed /\ [Next]_vars => Typed'
    BY TypeNext DEF Typed
  <2> QED
    BY <2>1, BoundNext
<1>3. Inv => BackupsAreBounded
  <2> SUFFICES ASSUME TypeOK, BoundInv PROVE BackupsAreBounded
    BY DEF Typed
  <2> DEFINE G == {b \in Listed : b \in Former \/ reply[b] = "ok"}
  <2>1. IsFiniteSet(G)
    BY RecoveryAssumption, FS_Subset DEF Listed
  <2>2. Cardinality(G) \in Nat /\ Retention + slips \in Nat
    BY <2>1, RecoveryAssumption, FS_CardinalityType DEF TypeOK
  <2>3. G \in SUBSET {x \in Listed : Past(x)}
    BY DEF Past, BoundInv, ListInv, Listed
  <2>4. ASSUME Cardinality(G) > Retention + slips PROVE FALSE
    <3>1. PICK b \in G \ Former, x \in G : x \in doomed[b]
      BY <2>3, <2>4 DEF BoundInv, SurplusInv
    <3>2. b \in Jobs /\ reply[b] = "ok" /\ backups[b] # None
      BY <3>1 DEF Listed
    <3> QED
      BY <3>1, <3>2 DEF BoundInv, ListInv
  <2> QED
    BY <2>2, <2>4 DEF BackupsAreBounded
<1> HIDE DEF Inv
<1> QED
  BY <1>1, <1>2, <1>3, PTL DEF Spec
=============================================================================
