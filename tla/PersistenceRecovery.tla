------------------------ MODULE PersistenceRecovery ------------------------
(***************************************************************************)
(* Backups of the store files and their restore:                           *)
(* src/platform/services/persistence_recovery.py, composed with the        *)
(* repositories that own the files and go on running.                      *)
(*                                                                         *)
(* A backup reads the files one after another, a restore copies, stages    *)
(* and swaps them one after another, and neither takes a lock or tells the *)
(* repositories.  A request is cut at each file.  The removal of old       *)
(* .corrupt files is left out: nothing reads them.                         *)
(***************************************************************************)
EXTENDS Naturals, FiniteSets

CONSTANTS
  Stores,         \* MANAGED_STORE_FILES
  Cached,         \* the stores whose repository keeps them in memory; the others
                  \* (Project 1's) are read from the file for every call
  Lenient,        \* those that start empty when their file cannot be parsed
  Records,        \* what repositories save
  Jobs,           \* the requests for a backup or a restore, one thread each
  Offered,        \* the calls they can make, a set of Call
  FirstFiles,     \* the files when the server is first started
  FirstBackups,   \* the backup there may be by then, under a job that is done
  Fallback,       \* the files in data/, for a store that has none
  Retention,      \* DEFAULT_BACKUP_RETENTION_COUNT
  MaxCrashes,     \* bound: process crashes
  MaxFaults,      \* bound: file operations that raise
  MaxSlips,       \* bound: backup files that are skipped or not removed
  MaxDamaged,     \* bound: backup files that become unreadable
  Broken,         \* what cannot be parsed: a file copied in part
  None

Content == SUBSET Records
FileContent == {Broken, None} \cup Content
FileOf == [Stores -> FileContent]

(* A backup is known by the job that makes it.                             *)
Call == [op: {"backup"}, admin: BOOLEAN] \cup [op: {"restore"}, admin: BOOLEAN, of: Jobs]

ASSUME RecoveryAssumption ==
  /\ Lenient \subseteq Cached /\ Cached \subseteq Stores
  /\ Offered \subseteq Call
  /\ FirstFiles \in FileOf
  /\ Fallback \in FileOf
  /\ FirstBackups \in [Jobs -> FileOf \cup {None}]
  /\ \A i, j \in Jobs : FirstBackups[i] # None /\ FirstBackups[j] # None => i = j
  /\ IsFiniteSet(Jobs)
  /\ Retention \in Nat \ {0}
  /\ {MaxCrashes, MaxFaults, MaxSlips, MaxDamaged} \subseteq Nat

ASSUME NoneAssumption ==
  /\ None \notin {"ok", "refused", "failed", "error"}
  /\ None \notin Stores
  /\ \A c \in Content \cup {None} : c # Broken

VARIABLES
  live,       \* the store files
  into,       \* the store file that a rollback has open, as long as it has its name
  mem,        \* what the running repository of each cached store holds
  reading,    \* the content an uncached repository has read and is about to extend;
              \* Broken once it has found its file corrupt
  saved,      \* the records given to repositories
  backups,    \* the backup files: backups[j] is the data, or None
  taken,      \* created_at of each backup, as a rank
  clock,      \* the next rank
  damaged,    \* the backup files that cannot be parsed any more
  pc,         \* the next step of each job
  call,       \* its call
  left,       \* the stores it has still to treat
  data,       \* the data it has gathered, or read from the backup file
  copy,       \* its rollback copies
  doomed,     \* the backups it has still to remove
  reply,      \* its answer: "ok", "refused", "failed" or "error"
  crashes, faults, slips,
  seen,       \* history: what each file held while a backup was made
  later,      \* the files written since a restore last wrote them
  before,     \* history: what each file held when a restore copied it
  cut         \* history: the file whose copy a restore did not finish

repoVars == <<live, into, mem, reading, saved>>
backupVars == <<backups, taken, clock, damaged>>
jobVars == <<call, left, data, copy, doomed>>
bounds == <<crashes, faults, slips>>
history == <<seen, later, before, cut>>
vars == <<repoVars, backupVars, pc, jobVars, reply, bounds, history>>

NoFiles == [s \in Stores |-> None]

Goto(j, step) == pc' = [pc EXCEPT ![j] = step]

Answer(j, what) ==
  /\ Goto(j, "done")
  /\ reply' = [reply EXCEPT ![j] = what]

(* A store file has a new content, for the backups under way to read.      *)
Hold(s, c) ==
  /\ live' = [live EXCEPT ![s] = c]
  /\ seen' = [j \in Jobs |-> IF pc[j] = "read" THEN [seen[j] EXCEPT ![s] = @ \cup {c}] ELSE seen[j]]
  /\ UNCHANGED <<before, cut>>

(* os.replace: a rollback that has the old file open writes to a file      *)
(* without a name from now on.                                             *)
Detach(s) == into' = [j \in Jobs |-> IF into[j] = s THEN None ELSE into[j]]

(* A repository writes a whole new file.                                   *)
Written(s, c) ==
  /\ Hold(s, c)
  /\ Detach(s)
  /\ later' = [j \in Jobs |-> later[j] \cup {s}]

(* Job j, a restore, writes: for it nothing has been written since.        *)
Put(j, s, c) ==
  /\ Hold(s, c)
  /\ later' = [k \in Jobs |-> IF k = j THEN later[k] \ {s} ELSE later[k] \cup {s}]

Existing(files) == {s \in Stores : files[s] # None}

-----------------------------------------------------------------------------
(***************************************************************************)
(* The repositories.  A cached one adds to its memory and writes all of it;*)
(* the other reads the file, and writes it back with what is new.          *)
(***************************************************************************)
RecordsIn(c) == IF c \in {None, Broken} THEN {} ELSE c

SaveCached(s, x) ==
  /\ s \in Cached
  /\ x \notin saved
  /\ saved' = saved \cup {x}
  /\ mem' = [mem EXCEPT ![s] = @ \cup {x}]
  /\ Written(s, mem[s] \cup {x})
  /\ UNCHANGED <<reading, backupVars, pc, jobVars, reply, bounds>>

(* A file it cannot parse makes it refuse all calls until the next start.  *)
ReadDirect(s) ==
  /\ s \notin Cached
  /\ reading[s] = None
  /\ live[s] # None
  /\ reading' = [reading EXCEPT ![s] = live[s]]
  /\ UNCHANGED <<live, into, mem, saved, backupVars, pc, jobVars, reply, bounds, history>>

(* One that is missing, or is being filled and empty as yet, it writes     *)
(* itself, without records.                                                *)
InitDirect(s) ==
  /\ s \notin Cached
  /\ reading[s] = None
  /\ live[s] \in {None, Broken}
  /\ reading' = [reading EXCEPT ![s] = {}]
  /\ Written(s, {})
  /\ UNCHANGED <<mem, saved, backupVars, pc, jobVars, reply, bounds>>

SaveDirect(s, x) ==
  /\ reading[s] \notin {None, Broken}
  /\ x \notin saved
  /\ saved' = saved \cup {x}
  /\ reading' = [reading EXCEPT ![s] = None]
  /\ Written(s, reading[s] \cup {x})
  /\ UNCHANGED <<mem, backupVars, pc, jobVars, reply, bounds>>

-----------------------------------------------------------------------------
(***************************************************************************)
(* Requests.                                                               *)
(***************************************************************************)
FirstStep(c) == IF c.op = "backup" THEN "read" ELSE "verify"

(* Only admins may do either (_authorize_admin).                           *)
Start(j, c) ==
  /\ pc[j] = "idle"
  /\ call' = [call EXCEPT ![j] = c]
  /\ IF c.admin THEN Goto(j, FirstStep(c)) /\ UNCHANGED reply ELSE Answer(j, "refused")
  /\ left' = [left EXCEPT ![j] = IF c.op = "backup" THEN Stores ELSE {}]
  /\ taken' = [taken EXCEPT ![j] = clock]
  /\ clock' = clock + 1
  /\ seen' = [seen EXCEPT ![j] = [s \in Stores |-> {live[s]}]]
  /\ UNCHANGED <<repoVars, backups, damaged, data, copy, doomed, bounds, later, before, cut>>

Fault == faults < MaxFaults /\ faults' = faults + 1

Slip == slips < MaxSlips /\ slips' = slips + 1

(* A file operation raises before anything is touched, or while old files  *)
(* are removed.                                                            *)
Fails(j) ==
  /\ Fault
  /\ \/ pc[j] \in {"read", "bundle", "verify"} /\ Answer(j, "failed")
     \/ pc[j] \in {"list", "prune"} /\ Answer(j, "error")
  /\ UNCHANGED <<repoVars, backupVars, jobVars, crashes, slips, history>>

-----------------------------------------------------------------------------
(***************************************************************************)
(* create_backup                                                           *)
(***************************************************************************)

(* Mutant: the file in data/ comes first.                                  *)
SourceFallbackFirst(s) == IF Fallback[s] # None THEN Fallback[s] ELSE live[s]

Source(s) == IF live[s] # None THEN live[s] ELSE Fallback[s]

ReadStore(j) ==
  /\ pc[j] = "read"
  /\ IF left[j] = {} THEN Goto(j, "bundle") /\ UNCHANGED <<left, data, reply>>
     ELSE \E s \in left[j] :
            IF Source(s) = Broken THEN Answer(j, "failed") /\ UNCHANGED <<left, data>>
            ELSE /\ left' = [left EXCEPT ![j] = @ \ {s}]
                 /\ data' = [data EXCEPT ![j][s] = Source(s)]
                 /\ UNCHANGED <<pc, reply>>
  /\ UNCHANGED <<repoVars, backupVars, call, copy, doomed, bounds, history>>

(* The bundle is written to a temporary file of its own, and renamed.      *)
WriteBundle(j) ==
  /\ pc[j] = "bundle"
  /\ IF Existing(data[j]) = {} THEN Answer(j, "failed") /\ UNCHANGED backups
     ELSE /\ backups' = [backups EXCEPT ![j] = data[j]]
          /\ Goto(j, "list")
          /\ UNCHANGED reply
  /\ UNCHANGED <<repoVars, taken, clock, damaged, jobVars, bounds, history>>

Listed == {b \in Jobs : backups[b] # None /\ b \notin damaged}

NewerIn(b, listed) == {c \in listed : taken[c] > taken[b]}

(* Mutant: keeps one more than it is asked to.                             *)
ExpiredButOne(listed) == {b \in listed : Cardinality(NewerIn(b, listed)) > Retention}

Expired(listed) == {b \in listed : Cardinality(NewerIn(b, listed)) >= Retention}

(* prune_backups_and_corrupt_files: those beyond the newest are listed ... *)
ListOld(j) ==
  /\ pc[j] = "list"
  /\ doomed' = [doomed EXCEPT ![j] = Expired(Listed)]
  /\ Goto(j, "prune")
  /\ UNCHANGED <<repoVars, backupVars, call, left, data, copy, reply, bounds, history>>

(* ... without a file that cannot be read at that moment ...               *)
ListOldSlips(j) ==
  /\ pc[j] = "list"
  /\ Slip
  /\ \E b \in Listed : doomed' = [doomed EXCEPT ![j] = Expired(Listed \ {b})]
  /\ Goto(j, "prune")
  /\ UNCHANGED <<repoVars, backupVars, call, left, data, copy, reply, crashes, faults, history>>

(* ... and removed one by one, if they are still there ...                 *)
Remove(j) ==
  /\ pc[j] = "prune"
  /\ \E b \in doomed[j] :
       /\ doomed' = [doomed EXCEPT ![j] = @ \ {b}]
       /\ backups' = [backups EXCEPT ![b] = None]
  /\ UNCHANGED <<repoVars, taken, clock, damaged, pc, call, left, data, copy, reply, bounds, history>>

(* ... where a removal that fails is only logged.                          *)
RemoveSlips(j) ==
  /\ pc[j] = "prune"
  /\ Slip
  /\ \E b \in doomed[j] : doomed' = [doomed EXCEPT ![j] = @ \ {b}]
  /\ UNCHANGED <<repoVars, backupVars, pc, call, left, data, copy, reply, crashes, faults, history>>

(* Mutant: reports that there was nothing to remove.                       *)
PrunedReported(j) ==
  /\ pc[j] = "prune"
  /\ doomed[j] = {}
  /\ Answer(j, "pruned")
  /\ UNCHANGED <<repoVars, backupVars, jobVars, bounds, history>>

Pruned(j) ==
  /\ pc[j] = "prune"
  /\ doomed[j] = {}
  /\ Answer(j, "ok")
  /\ UNCHANGED <<repoVars, backupVars, jobVars, bounds, history>>

-----------------------------------------------------------------------------
(***************************************************************************)
(* restore_backup                                                          *)
(***************************************************************************)
Readable(b) == backups[b] # None /\ b \notin damaged

(* verify_backup, before anything is touched.                              *)
Verify(j) ==
  /\ pc[j] = "verify"
  /\ IF Readable(call[j].of) THEN Goto(j, "load") /\ UNCHANGED reply ELSE Answer(j, "failed")
  /\ UNCHANGED <<repoVars, backupVars, jobVars, bounds, history>>

(* Mutant: what was swapped already is not put back.                       *)
RollBackUnswapped(j, copies) ==
  /\ Goto(j, "undo")
  /\ left' = [left EXCEPT ![j] = @ \cap Existing(copies)]

(* The except clause takes up whatever is in the rollback directory.       *)
RollBack(j, copies) ==
  /\ Goto(j, "undo")
  /\ left' = [left EXCEPT ![j] = Existing(copies)]

(* The file is read again; it may be pruned or damaged by now.             *)
Load(j) ==
  LET b == call[j].of
  IN  /\ pc[j] = "load"
      /\ IF Readable(b)
           THEN /\ data' = [data EXCEPT ![j] = backups[b]]
                /\ left' = [left EXCEPT ![j] = Existing(backups[b])]
                /\ Goto(j, "copy")
           ELSE RollBack(j, NoFiles) /\ UNCHANGED data
      /\ UNCHANGED <<repoVars, backupVars, call, copy, doomed, reply, bounds, history>>

(* The rollback copies of the files that exist.                            *)
CopyStore(j) ==
  /\ pc[j] = "copy"
  /\ IF left[j] = {} THEN Goto(j, "stage") /\ UNCHANGED <<left, copy, before>>
     ELSE \E s \in left[j] :
            /\ left' = [left EXCEPT ![j] = @ \ {s}]
            /\ copy' = [copy EXCEPT ![j][s] = live[s]]
            /\ before' = [before EXCEPT ![j][s] = live[s]]
            /\ UNCHANGED pc
  /\ UNCHANGED <<repoVars, backupVars, call, data, doomed, reply, bounds, seen, later, cut>>

(* shutil.copy2 raises midway and leaves a part of the file as its copy.   *)
CopyFails(j) ==
  /\ pc[j] = "copy"
  /\ Fault
  /\ \E s \in left[j] :
       /\ live[s] # None
       /\ copy' = [copy EXCEPT ![j][s] = Broken]
       /\ before' = [before EXCEPT ![j][s] = live[s]]
       /\ cut' = [cut EXCEPT ![j] = s]
       /\ RollBack(j, copy'[j])
  /\ UNCHANGED <<repoVars, backupVars, call, data, doomed, reply, crashes, slips, seen, later>>

(* Any other operation of the restore raises.                              *)
RestoreFails(j) ==
  /\ pc[j] \in {"load", "copy", "stage", "swap"}
  /\ Fault
  /\ RollBack(j, copy[j])
  /\ UNCHANGED <<repoVars, backupVars, call, data, copy, doomed, reply, crashes, slips, history>>

(* The data is written to a staging directory and loaded from there once.  *)
Stage(j) ==
  /\ pc[j] = "stage"
  /\ Goto(j, "swap")
  /\ left' = [left EXCEPT ![j] = Existing(data[j])]
  /\ UNCHANGED <<repoVars, backupVars, call, data, copy, doomed, reply, bounds, history>>

Swap(j) ==
  /\ pc[j] = "swap"
  /\ IF left[j] = {} THEN Answer(j, "ok") /\ UNCHANGED <<live, into, left, history>>
     ELSE \E s \in left[j] :
            /\ left' = [left EXCEPT ![j] = @ \ {s}]
            /\ Put(j, s, data[j][s])
            /\ Detach(s)
            /\ UNCHANGED <<pc, reply>>
  /\ UNCHANGED <<mem, reading, saved, backupVars, call, data, copy, doomed, bounds>>

(* The copies are put back, not by a rename but into the files themselves, *)
(* which are emptied first; a store that had no file keeps the new one.    *)
Undo(j) ==
  /\ pc[j] = "undo"
  /\ IF left[j] = {} THEN Answer(j, "failed") /\ UNCHANGED <<live, into, left, history>>
     ELSE \E s \in left[j] :
            /\ left' = [left EXCEPT ![j] = @ \ {s}]
            /\ Put(j, s, Broken)
            /\ into' = [into EXCEPT ![j] = s]
            /\ Goto(j, "refill")
            /\ UNCHANGED reply
  /\ UNCHANGED <<mem, reading, saved, backupVars, call, data, copy, doomed, bounds>>

(* Nobody else's rollback has the file open, or had it since j opened it.  *)
Alone(j) == into[j] \notin later[j] /\ \A k \in Jobs \ {j} : into[k] # into[j]

(* The copy is written: to nobody's file, if a rename has come in between; *)
(* and two rollbacks that write into one file may mix.                     *)
Refill(j) ==
  /\ pc[j] = "refill"
  /\ Goto(j, "undo")
  /\ into' = [into EXCEPT ![j] = None]
  /\ LET s == into[j]
     IN  IF s = None THEN UNCHANGED <<live, history>>
         ELSE IF Alone(j) THEN Put(j, s, copy[j][s])
         ELSE /\ \E c \in {copy[j][s], Broken} : Hold(s, c)
              /\ later' = [k \in Jobs |-> later[k] \cup {s}]
  /\ UNCHANGED <<mem, reading, saved, backupVars, jobVars, reply, bounds>>

(* The rollback itself raises, and nothing catches that.                   *)
UndoFails(j) ==
  /\ pc[j] \in {"undo", "refill"}
  /\ Fault
  /\ Answer(j, "error")
  /\ into' = [into EXCEPT ![j] = None]
  /\ UNCHANGED <<live, mem, reading, saved, backupVars, jobVars, crashes, slips, history>>

-----------------------------------------------------------------------------
(***************************************************************************)
(* The process and the disk.                                               *)
(***************************************************************************)

Loaded(files) == [s \in Stores |-> IF s \in Cached THEN RecordsIn(files[s]) ELSE {}]

(* A broken file that is not empty is found to be corrupt.                 *)
Corrupt(files) ==
  {[s \in Stores |-> IF s \in found THEN Broken ELSE None] :
     found \in SUBSET {s \in Stores \ Cached : files[s] = Broken}}

(* The process stops and starts again: the repositories load their files,  *)
(* the jobs are gone, and nothing looks at the directories they leave.     *)
(* Where a repository raises on its file there is no start, and the end.   *)
Restart ==
  /\ crashes < MaxCrashes
  /\ \A s \in Cached : live[s] = Broken => s \in Lenient
  /\ crashes' = crashes + 1
  /\ mem' = Loaded(live)
  /\ reading' \in Corrupt(live)
  /\ into' = [j \in Jobs |-> None]
  /\ pc' = [j \in Jobs |-> IF pc[j] = "idle" THEN "idle" ELSE "done"]
  /\ UNCHANGED <<live, saved, backupVars, jobVars, reply, faults, slips, history>>

Damage(b) ==
  /\ Readable(b)
  /\ Cardinality(damaged) < MaxDamaged
  /\ damaged' = damaged \cup {b}
  /\ UNCHANGED <<repoVars, backups, taken, clock, pc, jobVars, reply, bounds, history>>

Former == {j \in Jobs : FirstBackups[j] # None}

Init ==
  /\ live = FirstFiles
  /\ into = [j \in Jobs |-> None]
  /\ mem = Loaded(FirstFiles)
  /\ reading \in Corrupt(FirstFiles)
  /\ saved = UNION {RecordsIn(f[s]) : s \in Stores,
                      f \in {FirstFiles, Fallback} \cup {FirstBackups[j] : j \in Former}}
  /\ backups = FirstBackups
  /\ taken = [j \in Jobs |-> 0]
  /\ clock = 1
  /\ damaged = {}
  /\ pc = [j \in Jobs |-> IF j \in Former THEN "done" ELSE "idle"]
  /\ call = [j \in Jobs |-> None]
  /\ left = [j \in Jobs |-> {}]
  /\ data = [j \in Jobs |-> NoFiles]
  /\ copy = [j \in Jobs |-> NoFiles]
  /\ doomed = [j \in Jobs |-> {}]
  /\ reply = [j \in Jobs |-> None]
  /\ crashes = 0
  /\ faults = 0
  /\ slips = 0
  /\ seen = [j \in Jobs |-> [s \in Stores |->
               IF j \in Former THEN {FirstBackups[j][s]} ELSE {}]]
  /\ later = [j \in Jobs |-> Stores]
  /\ before = [j \in Jobs |-> NoFiles]
  /\ cut = [j \in Jobs |-> None]

Create(j) ==
  \/ ReadStore(j) \/ WriteBundle(j)
  \/ ListOld(j) \/ ListOldSlips(j) \/ Remove(j) \/ RemoveSlips(j) \/ Pruned(j)

Restore(j) ==
  \/ Verify(j) \/ Load(j) \/ CopyStore(j) \/ CopyFails(j) \/ Stage(j) \/ Swap(j) \/ RestoreFails(j)
  \/ Undo(j) \/ Refill(j) \/ UndoFails(j)

Job(j) == (\E c \in Offered : Start(j, c)) \/ Create(j) \/ Restore(j) \/ Fails(j)

Next ==
  \/ \E s \in Stores : \/ ReadDirect(s) \/ InitDirect(s)
                       \/ \E x \in Records : SaveCached(s, x) \/ SaveDirect(s, x)
  \/ \E j \in Jobs : Job(j) \/ Damage(j)
  \/ Restart

Spec == Init /\ [][Next]_vars

-----------------------------------------------------------------------------
(***************************************************************************)
(* Properties.                                                             *)
(***************************************************************************)
BackupSteps == {"read", "bundle", "list", "prune"}
RestoreSteps == {"verify", "load", "copy", "stage", "swap", "undo", "refill"}

(* Type invariant.                                                         *)
TypeOK ==
  /\ live \in FileOf
  /\ into \in [Jobs -> Stores \cup {None}]
  /\ mem \in [Stores -> Content]
  /\ reading \in FileOf
  /\ saved \in Content
  /\ backups \in [Jobs -> FileOf \cup {None}]
  /\ taken \in [Jobs -> Nat]
  /\ clock \in Nat
  /\ damaged \subseteq Jobs
  /\ pc \in [Jobs -> BackupSteps \cup RestoreSteps \cup {"idle", "done"}]
  /\ call \in [Jobs -> Call \cup {None}]
  /\ left \in [Jobs -> SUBSET Stores]
  /\ data \in [Jobs -> FileOf]
  /\ copy \in [Jobs -> FileOf]
  /\ doomed \in [Jobs -> SUBSET Jobs]
  /\ reply \in [Jobs -> {"ok", "refused", "failed", "error", None}]
  /\ crashes \in 0..MaxCrashes
  /\ faults \in 0..MaxFaults
  /\ slips \in 0..MaxSlips
  /\ seen \in [Jobs -> [Stores -> SUBSET FileContent]]
  /\ later \in [Jobs -> SUBSET Stores]
  /\ before \in [Jobs -> FileOf]
  /\ cut \in [Jobs -> Stores \cup {None}]

RestoreFailed(j) == pc[j] = "done" /\ reply[j] = "failed" /\ call[j].op = "restore"

(* However a restore fails, when it is answered as rolled back every file  *)
(* that it had found is what it was, or something somebody else wrote      *)
(* later: no file is left as the swap had made it, or half put back.  The  *)
(* one exception is a file whose rollback copy was itself cut short.       *)
RolledBack ==
  \A j \in Jobs : RestoreFailed(j) =>
    \A s \in Stores :
      before[j][s] # None /\ s \notin later[j] => live[s] = before[j][s] \/ s = cut[j]

(* What a backup holds for a store was in that store's file at some moment *)
(* while the backup was made, or was all there was, in the data directory, *)
(* when the store had no file.                                             *)
BackupIsOfItsTime ==
  \A b \in Jobs : backups[b] # None =>
    \A s \in Stores :
      \/ backups[b][s] \in seen[b][s]
      \/ None \in seen[b][s] /\ backups[b][s] = Fallback[s]

(* Backups do not pile up, whichever order those made at one time are      *)
(* listed and removed in: of the readable ones whose request was answered  *)
(* there are at most as many as are to be kept, and one more for each file *)
(* that was ever skipped by a listing or could not be removed.             *)
BackupsAreBounded ==
  Cardinality({b \in Listed : b \in Former \/ reply[b] = "ok"}) <= Retention + slips

-----------------------------------------------------------------------------
(***************************************************************************)
(* What the sources say and the code does not do.                          *)
(***************************************************************************)

(* The answer of a failed restore: "live state was safely rolled back".  A *)
(* copy cut short is put back over the file it is a part of, and a store   *)
(* that had no file keeps the one that was swapped in.                     *)
RollbackIsSafe ==
  \A j \in Jobs : RestoreFailed(j) =>
    \A s \in Stores : s \notin later[j] => live[s] = before[j][s]

(* The engine's header: non-destructive restore with automatic rollback    *)
(* safety.  As long as no restore succeeds, and none is under way, every   *)
(* record that a repository has saved is in its file.                      *)
FailedRestoreKeepsSaves ==
  (\A j \in Jobs : ~(call[j] # None /\ call[j].op = "restore" /\ (pc[j] # "done" \/ reply[j] = "ok")))
    => \A s \in Cached : live[s] = None \/ mem[s] \subseteq RecordsIn(live[s])
=============================================================================
