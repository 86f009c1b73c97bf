---------------------- MODULE Project1RepositoryProofs ----------------------
(***************************************************************************)
(* Proofs about Project1Repository, for every value of its constants: the  *)
(* types, the refinement of the log of authoritative records, and what the *)
(* answers say about the file.                                             *)
(***************************************************************************)
EXTENDS Project1Repository, WellFoundedInduction, TLAPS

USE NoneAssumption

-----------------------------------------------------------------------------
(***************************************************************************)
(* The lookup and the decisions.                                           *)
(***************************************************************************)

(* A set of positions has a first one.                                     *)
LEMMA FirstOfIn ==
  ASSUME NEW S \in SUBSET Nat, S # {}
  PROVE  FirstOf(S) \in S /\ \A m \in S : FirstOf(S) <= m
<1>1. PICK x \in S : \A y \in S : ~(<<y, x>> \in OpToRel(<, Nat))
  BY WFMin, NatLessThanWellFounded, Zenon
<1>2. ASSUME NEW y \in S
      PROVE  x <= y
  <2>1. CASE y < x
    <3>1. <<y, x>> \in {ss \in Nat \X Nat : ss[1] < ss[2]}
      BY <2>1
    <3> QED
      BY <1>1, <3>1 DEF OpToRel
  <2> QED
    BY <2>1
<1> QED
  BY <1>2 DEF FirstOf

(* What is found matches the user and meets the ids; nothing does when the *)
(* lookup says so.                                                         *)
LEMMA LookupFinds ==
  ASSUME NEW f \in Seq(Record), NEW u, NEW owner, NEW ids
  PROVE  LET res == Lookup(f, u, owner, ids)
         IN  /\ res.status \in {"FOUND", "ABSENT", "IDENTITY_AMBIGUOUS", "IDENTITY_COLLISION"}
             /\ res.status = "FOUND" => res.at \in Hits(f, u, ids)
             /\ res.status = "ABSENT" => Hits(f, u, ids) = {}
<1>1. Hits(f, u, ids) \in SUBSET Nat
  BY DEF Hits
<1>2. Hits(f, u, ids) # {} => FirstOf(Hits(f, u, ids)) \in Hits(f, u, ids)
  BY <1>1, FirstOfIn
<1> QED
  BY <1>2 DEF Lookup

(* A decision is a status, perhaps a record, perhaps a file to write.      *)
Decision == [status: Statuses, found: Record \cup {None}, file: Seq(Record) \cup {None}]

LEMMA ScopedType ==
  ASSUME NEW o \in IngestCall
  PROVE  Scoped(o) \in Record
<1>1. FirstId(o.ids) \in Names
  BY DEF IngestCall, Lineage, FirstId
<1>2. IntId[o.user][FirstId(o.ids)] \in IntegrationIds
  BY <1>1, RepositoryAssumption DEF IngestCall
<1> QED
  BY <1>2 DEF Scoped, Record, IngestCall

LEMMA IngestTypes ==
  ASSUME NEW o \in IngestCall, NEW f \in Seq(Record)
  PROVE  Ingest(o, f) \in Decision
<1> DEFINE res == Lookup(f, o.user, o.user, o.ids)
<1>1. Scoped(o) \in Record
  BY ScopedType
<1>2. Append(f, Scoped(o)) \in Seq(Record)
  BY <1>1
<1>3. res.status = "FOUND" => f[res.at] \in Record
  BY LookupFinds DEF Hits
<1>4. res.status \in Statuses \/ res.status \in {"FOUND", "ABSENT"}
  BY LookupFinds DEF Statuses
<1> HIDE DEF res
<1>5. CASE res.status \notin {"FOUND", "ABSENT"}
  BY <1>4, <1>5 DEF Ingest, Refuse, Decision, res
<1>6. CASE res.status = "FOUND"
  BY <1>3, <1>6 DEF Ingest, Answer, Decision, Statuses, res
<1>7. CASE res.status = "ABSENT"
  BY <1>1, <1>2, <1>7 DEF Ingest, Refuse, Commit, Decision, Statuses, res
<1> QED
  BY <1>5, <1>6, <1>7

(* An update changes states only.                                          *)
LEMMA UpdateTypes ==
  ASSUME NEW o \in UpdateCall, NEW f \in Seq(Record)
  PROVE  Update(o, f) \in Decision
<1> DEFINE hits == {n \in 1..Len(f) :
                      UserMatches(f[n], o.user) /\ \E s \in Spaces : f[n].ids[s] = o.name}
           new == [n \in 1..Len(f) |-> IF n \in hits THEN [f[n] EXCEPT !.state = o.state] ELSE f[n]]
<1>1. \A n \in 1..Len(f) : f[n] \in Record
  OBVIOUS
<1>2. \A x \in Record : [x EXCEPT !.state = o.state] \in Record
  BY DEF Record, UpdateCall
<1>3. \A n \in 1..Len(f) : new[n] \in Record
  BY <1>1, <1>2
<1>4. new \in Seq(Record)
  BY <1>3
<1> HIDE DEF new
<1> QED
  BY <1>4 DEF Update, Refuse, Commit, Decision, Statuses, new

LEMMA SaveTypes ==
  ASSUME NEW o \in SaveCall, NEW f \in Seq(Record)
  PROVE  Save(o, f) \in Decision
<1> DEFINE x == o.record
           own == {n \in 1..Len(f) : f[n].int = x.int /\ UserMatches(f[n], x.user)}
<1>1. x \in Record
  BY DEF SaveCall
<1>2. Append(f, x) \in Seq(Record)
  BY <1>1
<1>3. own # {} => FirstOf(own) \in own
  <2>1. own \in SUBSET Nat
    OBVIOUS
  <2> QED
    BY <2>1, FirstOfIn
<1>4. own # {} => [f EXCEPT ![FirstOf(own)] = x] \in Seq(Record)
  BY <1>1, <1>3
<1> QED
  BY <1>1, <1>2, <1>4 DEF Save, Refuse, Commit, Decision, Statuses

LEMMA ResolveTypes ==
  ASSUME NEW o \in ResolveCall, NEW f \in Seq(Record)
  PROVE  Resolve(o, f) \in Decision
<1> DEFINE ids == [pub |-> o.pub, event |-> None, sig |-> None]
           res == Lookup(f, o.user, o.user, ids)
<1>1. res.status = "FOUND" => f[res.at] \in Record
  BY LookupFinds DEF Hits
<1> HIDE DEF res
<1> QED
  BY <1>1 DEF Resolve, Refuse, Answer, Decision, Statuses, res

LEMMA DecideTypes ==
  ASSUME NEW o \in Operation, NEW f \in Seq(Record)
  PROVE  Decide(o, f) \in Decision
<1>1. CASE o \in IngestCall
  BY <1>1, IngestTypes DEF Decide, IngestCall
<1>2. CASE o \in UpdateCall
  BY <1>2, UpdateTypes DEF Decide, UpdateCall
<1>3. CASE o \in SaveCall
  BY <1>3, SaveTypes DEF Decide, SaveCall
<1>4. CASE o \in ResolveCall
  BY <1>4, ResolveTypes DEF Decide, ResolveCall
<1> QED
  BY <1>1, <1>2, <1>3, <1>4 DEF Operation

-----------------------------------------------------------------------------
(***************************************************************************)
(* Types.                                                                  *)
(***************************************************************************)

(* A call under way belongs to a process that runs.                        *)
Running ==
  \A c \in Calls :
    pc[c] \in CallSteps => call[c] \in [o: Offered, p: Procs] /\ ProcOf(c) \in up

TypeInv == TypeOK /\ Running

(* A call fails, or tells its failure, without having the file.            *)
Fails(c) == LockFails(c) \/ LoadFails(c) \/ Raise(c)

LEMMA InitTypes == Init => TypeInv
<1> SUFFICES ASSUME Init PROVE TypeInv
  OBVIOUS
<1>1. file \in Seq(Record) \cup {None}
  BY RepositoryAssumption DEF Init
<1> QED
  BY <1>1, RepositoryAssumption DEF Init, TypeInv, TypeOK, Running, CallSteps

LEMMA StartTypes ==
  ASSUME TypeInv, NEW c \in Calls, NEW p \in Procs, NEW o \in Offered, Start(c, p, o)
  PROVE  TypeInv'
<1>1. CASE p \in unavailable
  <2>1. /\ pc' = [pc EXCEPT ![c] = "done"] /\ pc[c] = "idle"
        /\ reply' = [reply EXCEPT ![c] = "STORAGE_UNAVAILABLE"]
        /\ found' = [found EXCEPT ![c] = None]
        /\ call' = [call EXCEPT ![c] = [o |-> o, p |-> p]]
        /\ UNCHANGED <<file, stable, up, unavailable, holder, todo, crashes, faults>>
    BY <1>1 DEF Start, Finish
  <2>2. pc' \in [Calls -> {"idle", "done", "dead"} \cup CallSteps]
        /\ reply' \in [Calls -> Statuses \cup {None}] /\ found' \in [Calls -> Record \cup {None}]
        /\ call' \in [Calls -> [o: Offered, p: Procs] \cup {None}]
    BY <2>1 DEF TypeInv, TypeOK, Statuses
  <2>3. \A b \in Calls : /\ pc'[b] \in {"write", "sync"} <=> pc[b] \in {"write", "sync"}
                         /\ pc'[b] = "write" <=> pc[b] = "write"
                         /\ pc'[b] \in CallSteps => b # c /\ pc[b] \in CallSteps
    BY <2>1 DEF TypeInv, TypeOK, CallSteps
  <2>4. Running'
    BY <2>1, <2>3 DEF TypeInv, TypeOK, Running, ProcOf
  <2> QED
    BY <2>1, <2>2, <2>3, <2>4 DEF TypeInv, TypeOK
<1>2. CASE p \notin unavailable
  BY <1>2 DEF Start, TypeInv, TypeOK, Running, CallSteps, ProcOf
<1> QED
  BY <1>1, <1>2

LEMMA EnterRefusedTypes ==
  ASSUME TypeInv, NEW c \in Calls, EnterRefused(c)
  PROVE  TypeInv'
  BY DEF EnterRefused, Finish, Unavailable, TypeInv, TypeOK, Running, CallSteps, ProcOf, Statuses

LEMMA FailsTypes ==
  ASSUME TypeInv, NEW c \in Calls, Fails(c)
  PROVE  TypeInv'
<1>1. CASE LockFails(c)
  <2>1. faults' \in 0..MaxFaults
    BY <1>1, RepositoryAssumption DEF LockFails, Fault, TypeInv, TypeOK
  <2> QED
    BY <1>1, <2>1 DEF LockFails, TypeInv, TypeOK, Running, CallSteps, ProcOf
<1>2. CASE LoadFails(c) \/ Raise(c)
  <2>1. /\ pc[c] \in {"enter", "raised"}
        /\ \E s \in Statuses : Finish(c, s, None)
    BY <1>2 DEF LoadFails, Raise, Unavailable, Statuses
  <2>2. unavailable' \subseteq up'
    BY <1>2 DEF LoadFails, Raise, TypeInv, TypeOK, Running, CallSteps
  <2>3. faults' \in 0..MaxFaults
    BY <1>2, RepositoryAssumption DEF LoadFails, Raise, Fault, TypeInv, TypeOK
  <2>4. UNCHANGED <<file, stable, up, holder, call, todo, crashes>>
    BY <1>2 DEF LoadFails, Raise
  <2> QED
    BY <2>1, <2>2, <2>3, <2>4 DEF Finish, TypeInv, TypeOK, Running, CallSteps, ProcOf
<1> QED
  BY <1>1, <1>2 DEF Fails

LEMMA EnterTypes ==
  ASSUME TypeInv, NEW c \in Calls, Enter(c), file # None
  PROVE  TypeInv'
<1> DEFINE d == Decide(OpOf(c), file)
<1>1. d \in Decision
  <2>1. OpOf(c) \in Operation
    BY RepositoryAssumption DEF Enter, TypeInv, Running, CallSteps, OpOf
  <2> QED
    BY <2>1, DecideTypes DEF TypeInv, TypeOK
<1>2. CASE d.file = None
  <2>1. Finish(c, d.status, d.found) /\ UNCHANGED <<holder, todo>>
    BY <1>2 DEF Enter
  <2> HIDE DEF d
  <2> QED
    BY <1>1, <2>1 DEF Enter, Finish, Decision, TypeInv, TypeOK, Running, CallSteps, ProcOf
<1>3. CASE d.file # None
  <2>1. /\ pc' = [pc EXCEPT ![c] = "write"]
        /\ holder' = c
        /\ todo' = [todo EXCEPT ![c] = d.file]
        /\ reply' = [reply EXCEPT ![c] = d.status]
        /\ found' = [found EXCEPT ![c] = d.found]
    BY <1>3 DEF Enter
  <2>2. holder = None
    BY DEF Enter, Free
  <2> HIDE DEF d
  <2> QED
    BY <1>1, <1>3, <2>1, <2>2 DEF Enter, Decision, TypeInv, TypeOK, Running, CallSteps, ProcOf
<1> QED
  BY <1>2, <1>3

LEMMA WriteTypes ==
  ASSUME TypeInv, NEW c \in Calls, Write(c)
  PROVE  TypeInv'
<1>1. todo[c] \in Seq(Record) /\ holder = c
  BY DEF Write, TypeInv, TypeOK
<1> QED
  BY <1>1 DEF Write, TypeInv, TypeOK, Running, CallSteps, ProcOf

LEMMA WriteFailsTypes ==
  ASSUME TypeInv, NEW c \in Calls, WriteFails(c)
  PROVE  TypeInv'
<1>1. holder = c /\ call[c] \in [o: Offered, p: Procs] /\ ProcOf(c) \in up
  BY DEF WriteFails, TypeInv, TypeOK, Running, CallSteps
<1>2. \/ Finish(c, "PERSISTENCE_FAILURE", None)
      \/ pc' = [pc EXCEPT ![c] = "raised"] /\ UNCHANGED <<found, reply>>
  BY DEF WriteFails
<1>3. faults' \in 0..MaxFaults
  BY RepositoryAssumption DEF WriteFails, Fault, TypeInv, TypeOK
<1>4. /\ todo' = [todo EXCEPT ![c] = None]
      /\ holder' = None
      /\ UNCHANGED <<file, stable, up, unavailable, call, crashes>>
  BY DEF WriteFails
<1> QED
  BY <1>1, <1>2, <1>3, <1>4 DEF Finish, TypeInv, TypeOK, Running, CallSteps, ProcOf, Statuses

LEMMA SyncTypes ==
  ASSUME TypeInv, NEW c \in Calls, Sync(c) \/ SyncFails(c)
  PROVE  TypeInv'
<1>1. holder = c
  BY DEF Sync, SyncFails, TypeInv, TypeOK
<1>2. \E s \in Statuses \cup {None} : Finish(c, s, found[c])
  BY DEF Sync, SyncFails, Statuses, TypeInv, TypeOK
<1>3. faults' \in 0..MaxFaults
  BY RepositoryAssumption DEF Sync, SyncFails, Fault, TypeInv, TypeOK
<1>4. stable' \subseteq Seq(Record) \cup {None}
  BY DEF Sync, SyncFails, TypeInv, TypeOK
<1> QED
  BY <1>1, <1>2, <1>3, <1>4
     DEF Sync, SyncFails, Finish, TypeInv, TypeOK, Running, CallSteps, ProcOf

LEMMA BootTypes ==
  ASSUME TypeInv, NEW p \in Procs, Boot(p) \/ BootFails(p)
  PROVE  TypeInv'
<1> <<>> \in Seq(Record)
  OBVIOUS
<1>1. file' \in Seq(Record) \cup {None}
  <2>1. file' \in {<<>>, file}
    BY DEF Boot, BootFails
  <2> QED
    BY <2>1 DEF TypeInv, TypeOK
<1>2. stable' \subseteq Seq(Record) \cup {None}
  <2>1. stable' \in {{<<>>}, stable \cup {<<>>}, stable}
    BY DEF Boot, BootFails
  <2> QED
    BY <2>1 DEF TypeInv, TypeOK
<1>3. faults' \in 0..MaxFaults
  BY RepositoryAssumption DEF Boot, BootFails, Fault, TypeInv, TypeOK
<1> QED
  BY <1>1, <1>2, <1>3 DEF Boot, BootFails, TypeInv, TypeOK, Running, ProcOf

LEMMA KillTypes ==
  ASSUME TypeInv, NEW P \in SUBSET Procs, Kill(P),
         file' \in Seq(Record) \cup {None}, stable' \subseteq Seq(Record) \cup {None}
  PROVE  TypeInv'
<1> DEFINE dead == {c \in Calls : pc[c] \in CallSteps /\ ProcOf(c) \in P}
<1>1. crashes' \in 0..MaxCrashes
  BY RepositoryAssumption DEF Kill, TypeInv, TypeOK
<1>2. pc' = [c \in Calls |-> IF c \in dead THEN "dead" ELSE pc[c]]
  BY DEF Kill
<1>3. todo' = [c \in Calls |-> IF c \in dead THEN None ELSE todo[c]]
  BY DEF Kill
<1>4. holder' = IF holder \in dead THEN None ELSE holder
  BY DEF Kill
<1>5. \A c \in Calls : pc[c] \in CallSteps => (c \in dead <=> ProcOf(c) \in P)
  OBVIOUS
<1>6. None \notin dead
  OBVIOUS
<1> HIDE DEF dead
<1>7. \A c \in Calls : pc'[c] \in {"write", "sync"} <=> holder' = c
  BY <1>2, <1>4, <1>6 DEF TypeInv, TypeOK
<1>8. \A c \in Calls : pc'[c] = "write" <=> todo'[c] # None
  BY <1>2, <1>3 DEF TypeInv, TypeOK
<1>9. Running'
  BY <1>2, <1>5 DEF Kill, TypeInv, Running, CallSteps, ProcOf
<1>10. /\ reply' \in [Calls -> Statuses \cup {None}]
       /\ found' \in [Calls -> Record \cup {None}]
       /\ todo' \in [Calls -> Seq(Record) \cup {None}]
  BY DEF Kill, TypeInv, TypeOK
<1> QED
  BY <1>1, <1>2, <1>4, <1>7, <1>8, <1>9, <1>10 DEF Kill, TypeInv, TypeOK

LEMMA CrashTypes ==
  ASSUME TypeInv, (\E p \in Procs : CrashProcess(p)) \/ PowerLoss
  PROVE  TypeInv'
<1>1. ASSUME NEW p \in Procs, CrashProcess(p)
      PROVE  TypeInv'
  BY <1>1, KillTypes DEF CrashProcess, TypeInv, TypeOK
<1>2. CASE PowerLoss
  BY <1>2, KillTypes DEF PowerLoss, TypeInv, TypeOK
<1> QED
  BY <1>1, <1>2

-----------------------------------------------------------------------------
(***************************************************************************)
(* The file and the decision that is about to be written to it.            *)
(***************************************************************************)

(* A process that could read the storage has initialised it.               *)
KnownInv == \A p \in up : p \notin unavailable => file # None

(* Under the lock, what is about to be written is what the operation       *)
(* decides on the file as it still is.                                     *)
DecidedInv ==
  \A c \in Calls :
    pc[c] = "write" => file # None /\ todo[c] = Decide(OpOf(c), file).file

(* A power failure can leave the file as it is.                            *)
KeptInv == file \in stable

FileInv == KnownInv /\ DecidedInv /\ KeptInv

IInv == TypeInv /\ FileInv

LEMMA InitFile == Init => FileInv
  BY DEF Init, FileInv, KnownInv, DecidedInv, KeptInv

(* Steps that leave the file alone and bring no call to its writing.       *)
LEMMA QuietFile ==
  ASSUME IInv, UNCHANGED <<file, stable>>,
         \A p \in up' : p \notin unavailable' => p \in up /\ p \notin unavailable,
         \A c \in Calls : pc'[c] = "write" =>
           pc[c] = "write" /\ todo'[c] = todo[c] /\ OpOf(c)' = OpOf(c)
  PROVE  FileInv'
  BY DEF IInv, FileInv, KnownInv, DecidedInv, KeptInv

LEMMA EnterFile ==
  ASSUME IInv, NEW c \in Calls, Enter(c)
  PROVE  file # None /\ FileInv'
<1>1. file # None
  BY DEF Enter, StillAvailable, IInv, TypeInv, Running, CallSteps, FileInv, KnownInv
<1> DEFINE d == Decide(OpOf(c), file)
<1>2. \A b \in Calls : OpOf(b)' = OpOf(b)
  BY DEF Enter, OpOf
<1>3. ASSUME NEW b \in Calls, pc'[b] = "write"
      PROVE  todo'[b] = Decide(OpOf(b), file).file
  <2>1. CASE d.file = None
    BY <1>3, <2>1 DEF Enter, Finish, IInv, TypeInv, TypeOK, FileInv, DecidedInv
  <2>2. CASE d.file # None
    <3>1. pc' = [pc EXCEPT ![c] = "write"] /\ todo' = [todo EXCEPT ![c] = d.file]
      BY <2>2 DEF Enter
    <3> HIDE DEF d
    <3>2. CASE b = c
      BY <3>1, <3>2 DEF d, IInv, TypeInv, TypeOK
    <3>3. CASE b # c
      BY <1>3, <3>1, <3>3 DEF IInv, TypeInv, TypeOK, FileInv, DecidedInv
    <3> QED
      BY <3>2, <3>3
  <2> QED
    BY <2>1, <2>2
<1>4. UNCHANGED <<file, stable, up, unavailable>>
  BY DEF Enter
<1> QED
  BY <1>1, <1>2, <1>3, <1>4 DEF IInv, FileInv, KnownInv, DecidedInv, KeptInv

(* The writer is the holder of the lock: no other decision is pending.     *)
LEMMA WriteFile ==
  ASSUME IInv, NEW c \in Calls, Write(c)
  PROVE  FileInv'
<1>1. todo[c] # None /\ holder = c
  BY DEF Write, IInv, TypeInv, TypeOK
<1>2. \A b \in Calls : pc'[b] # "write"
  BY <1>1 DEF Write, IInv, TypeInv, TypeOK
<1> QED
  BY <1>1, <1>2 DEF Write, IInv, FileInv, KnownInv, DecidedInv, KeptInv

LEMMA BootFile ==
  ASSUME IInv, NEW p \in Procs, Boot(p)
  PROVE  FileInv'
<1>1. \A c \in Calls : pc'[c] # "write"
  BY DEF Boot, IInv, TypeInv, TypeOK
<1>2. file' # None
  <2>1. <<>> \in Seq(Record)
    OBVIOUS
  <2> QED
    BY <2>1 DEF Boot
<1>3. file' \in stable'
  BY DEF Boot, IInv, FileInv, KeptInv
<1> QED
  BY <1>1, <1>2, <1>3 DEF FileInv, KnownInv, DecidedInv, KeptInv

LEMMA PowerLossFile ==
  ASSUME IInv, PowerLoss
  PROVE  FileInv'
<1>1. up' = {}
  BY DEF PowerLoss, Kill, IInv, TypeInv, TypeOK
<1>2. \A c \in Calls : pc'[c] # "write"
  BY DEF PowerLoss, Kill, IInv, TypeInv, TypeOK, Running, CallSteps, ProcOf
<1> QED
  BY <1>1, <1>2 DEF PowerLoss, FileInv, KnownInv, DecidedInv, KeptInv

LEMMA QuietSteps ==
  ASSUME IInv,
         \/ \E c \in Calls, p \in Procs, o \in Offered : Start(c, p, o)
         \/ \E c \in Calls : \/ EnterRefused(c) \/ Fails(c) \/ WriteFails(c) \/ SyncFails(c)
         \/ \E p \in Procs : BootFails(p) \/ CrashProcess(p)
  PROVE  FileInv' /\ UNCHANGED <<file, stable>>
<1> USE DEF IInv, TypeInv, TypeOK
<1>1. ASSUME NEW c \in Calls, NEW p \in Procs, NEW o \in Offered, Start(c, p, o)
      PROVE  FileInv' /\ UNCHANGED <<file, stable>>
  BY <1>1, QuietFile DEF Start, Finish, OpOf
<1>2. ASSUME NEW c \in Calls, EnterRefused(c) \/ Fails(c)
      PROVE  FileInv' /\ UNCHANGED <<file, stable>>
  BY <1>2, QuietFile DEF EnterRefused, Fails, LockFails, LoadFails, Raise, Finish, OpOf
<1>3. ASSUME NEW c \in Calls, WriteFails(c)
      PROVE  FileInv' /\ UNCHANGED <<file, stable>>
  BY <1>3, QuietFile DEF WriteFails, Finish, OpOf
<1>4. ASSUME NEW c \in Calls, SyncFails(c)
      PROVE  FileInv' /\ UNCHANGED <<file, stable>>
  BY <1>4, QuietFile DEF SyncFails, Finish, OpOf
<1>5. ASSUME NEW p \in Procs, BootFails(p)
      PROVE  FileInv' /\ UNCHANGED <<file, stable>>
  BY <1>5, QuietFile DEF BootFails, OpOf
<1>6. ASSUME NEW p \in Procs, CrashProcess(p)
      PROVE  FileInv' /\ UNCHANGED <<file, stable>>
  BY <1>6, QuietFile DEF CrashProcess, Kill, OpOf
<1> QED
  BY <1>1, <1>2, <1>3, <1>4, <1>5, <1>6

LEMMA SyncFile ==
  ASSUME IInv, NEW c \in Calls, Sync(c)
  PROVE  FileInv'
  BY DEF Sync, Finish, OpOf, IInv, TypeInv, TypeOK, FileInv, KnownInv, DecidedInv, KeptInv

LEMMA NextInv == IInv /\ [Next]_vars => IInv'
<1> SUFFICES ASSUME IInv, [Next]_vars PROVE IInv'
  OBVIOUS
<1>1. TypeInv
  BY DEF IInv
<1>2. ASSUME NEW c \in Calls, Step(c)
      PROVE  IInv'
  <2>1. CASE Enter(c)
    BY <1>1, <2>1, EnterFile, EnterTypes DEF IInv
  <2>2. CASE EnterRefused(c) \/ Fails(c)
    BY <1>1, <2>2, EnterRefusedTypes, FailsTypes, QuietSteps DEF IInv
  <2>3. CASE Write(c)
    BY <1>1, <2>3, WriteTypes, WriteFile DEF IInv
  <2>4. CASE WriteFails(c)
    BY <1>1, <2>4, WriteFailsTypes, QuietSteps DEF IInv
  <2>5. CASE Sync(c)
    BY <1>1, <2>5, SyncTypes, SyncFile DEF IInv
  <2>6. CASE SyncFails(c)
    BY <1>1, <2>6, SyncTypes, QuietSteps DEF IInv
  <2> QED
    BY <1>2, <2>1, <2>2, <2>3, <2>4, <2>5, <2>6 DEF Step, Fails
<1>3. ASSUME NEW p \in Procs, Boot(p) \/ BootFails(p) \/ CrashProcess(p)
      PROVE  IInv'
  BY <1>1, <1>3, BootTypes, CrashTypes, BootFile, QuietSteps DEF IInv
<1>4. CASE PowerLoss
  BY <1>1, <1>4, CrashTypes, PowerLossFile DEF IInv
<1>5. CASE \E c \in Calls, p \in Procs, o \in Offered : Start(c, p, o)
  BY <1>1, <1>5, StartTypes, QuietSteps DEF IInv
<1>6. CASE UNCHANGED vars
  BY <1>6 DEF vars, IInv, TypeInv, TypeOK, Running, ProcOf, FileInv, KnownInv, DecidedInv,
     KeptInv, OpOf
<1> QED
  BY <1>2, <1>3, <1>4, <1>5, <1>6 DEF Next

(* Every variable of the repository keeps its type, and the call between   *)
(* reading and releasing the file is the one that holds the lock.          *)
THEOREM TypeCorrect == Spec => []TypeOK
<1>1. Init => IInv
  BY InitTypes, InitFile DEF IInv
<1>2. IInv => TypeOK
  BY DEF IInv, TypeInv
<1> QED
  BY <1>1, <1>2, NextInv, PTL DEF Spec

-----------------------------------------------------------------------------
(***************************************************************************)
(* Saves, under the hypothesis that they agree with what is stored: every  *)
(* record is in all but its state one that arrived or was there at first,  *)
(* so that a save under an integration id in use meets the record that has *)
(* it, and is refused or writes what is there already.                     *)
(***************************************************************************)
Known(f) ==
  \A n \in 1..Len(f) :
    \E y \in Origins : y.user = f[n].user /\ y.int = f[n].int /\ y.ids = f[n].ids

OriginInv == \A f \in stable : f # None => Known(f)

SInv == IInv /\ OriginInv

(* Nothing shares an id or the integration id of x with it.                *)
New(f, x) ==
  \A n \in 1..Len(f) :
    f[n].user = x.user => ~Log!Meet(f[n].ids, x.ids) /\ f[n].int # x.int

LEMMA SaveArrives ==
  ASSUME SavesAgree, NEW o \in SaveCall, o \in Offered, NEW f \in Seq(Record), Known(f),
         Save(o, f).file # None
  PROVE  \/ Save(o, f).file = f
         \/ Save(o, f).file = Append(f, o.record) /\ New(f, o.record)
<1> DEFINE x == o.record
           res == Lookup(f, x.user, x.user, x.ids)
           own == {n \in 1..Len(f) : f[n].int = x.int /\ UserMatches(f[n], x.user)}
           hits == Hits(f, x.user, x.ids)
<1>1. x \in Record /\ x.user # None /\ o.op = "save"
  BY DEF SaveCall
<1>2. /\ res.status \in {"FOUND", "ABSENT"}
      /\ res.status = "FOUND" => f[res.at] = x
      /\ Save(o, f).file = IF own = {} THEN Append(f, x) ELSE [f EXCEPT ![FirstOf(own)] = x]
  BY DEF Save, Refuse, Commit
<1>3. \A n \in own : n \in hits
  <2> SUFFICES ASSUME NEW n \in own PROVE n \in hits
    OBVIOUS
  <2>1. n \in 1..Len(f) /\ f[n].int = x.int /\ f[n].user = x.user
    BY <1>1 DEF UserMatches
  <2>2. PICK y \in Origins : y.user = f[n].user /\ y.int = f[n].int /\ y.ids = f[n].ids
    BY <2>1 DEF Known
  <2>3. Meets(f[n].ids, x.ids)
    BY <1>1, <2>1, <2>2 DEF SavesAgree, Meets
  <2> QED
    BY <2>1, <2>3 DEF Hits, UserMatches
<1>4. own \in SUBSET Nat /\ hits \in SUBSET Nat
  BY DEF Hits
<1>5. CASE res.status = "FOUND"
  <2>1. res.at \in hits /\ res.at = FirstOf(hits)
    BY <1>5, LookupFinds DEF Lookup
  <2>2. res.at \in own
    BY <1>2, <1>5, <2>1 DEF Hits, UserMatches
  <2>3. FirstOf(own) \in own /\ FirstOf(own) <= res.at
    BY <1>4, <2>2, FirstOfIn
  <2>4. res.at <= FirstOf(own)
    BY <1>3, <1>4, <2>1, <2>3, FirstOfIn
  <2>5. FirstOf(own) = res.at
    BY <1>4, <2>1, <2>3, <2>4
  <2> HIDE DEF own, res, hits
  <2>6. Save(o, f).file = [f EXCEPT ![res.at] = f[res.at]]
    BY <1>2, <1>5, <2>2, <2>5
  <2> QED
    BY <2>6
<1>6. CASE res.status = "ABSENT"
  <2>1. hits = {} /\ own = {}
    BY <1>3, <1>6, LookupFinds
  <2>2. New(f, x)
    BY <1>1, <2>1
       DEF New, Hits, UserMatches, Meets, Log!Meet, Spaces, Log!Spaces
  <2> QED
    BY <1>2, <2>1, <2>2
<1> QED
  BY <1>2, <1>5, <1>6

-----------------------------------------------------------------------------
(***************************************************************************)
(* Refinement of the abstract log.                                         *)
(***************************************************************************)
LEMMA InitRefines == Init => Log!LogInit
<1> SUFFICES ASSUME Init PROVE Log!LogInit
  OBVIOUS
<1>1. AsLog(file) \in {AsLog(f) : f \in InitialFiles}
  BY DEF Init
<1>2. {AsLog(f) : f \in stable} = {AsLog(file)}
  BY DEF Init
<1> QED
  BY <1>1, <1>2 DEF Log!LogInit

(* A record that is created is new to its tenant.                          *)
LEMMA IngestArrives ==
  ASSUME NEW o \in IngestCall, NEW f \in Seq(Record), Ingest(o, f).file # None
  PROVE  /\ Ingest(o, f).file = Append(f, Scoped(o))
         /\ \A n \in 1..Len(f) :
              f[n].user = o.user => ~Log!Meet(f[n].ids, o.ids) /\ f[n].int # Scoped(o).int
<1> DEFINE res == Lookup(f, o.user, o.user, o.ids)
<1>1. /\ res.status = "ABSENT"
      /\ ~\E n \in 1..Len(f) : f[n].int = Scoped(o).int
      /\ Ingest(o, f).file = Append(f, Scoped(o))
  <2>1. res.status \in {"FOUND", "ABSENT", "IDENTITY_AMBIGUOUS", "IDENTITY_COLLISION"}
    BY LookupFinds
  <2> HIDE DEF res
  <2> QED
    BY <2>1 DEF Ingest, Refuse, Answer, Commit, res
<1>2. Hits(f, o.user, o.ids) = {}
  BY <1>1, LookupFinds
<1>3. \A n \in 1..Len(f) : f[n].user = o.user => ~Log!Meet(f[n].ids, o.ids)
  BY <1>2 DEF Hits, UserMatches, Meets, Log!Meet, Spaces, Log!Spaces
<1> QED
  BY <1>1, <1>3

(* What an update changes is the state of one lineage, of one tenant or of *)
(* all.                                                                    *)
LEMMA UpdateRelabels ==
  ASSUME NEW o \in UpdateCall, NEW f \in Seq(Record), Update(o, f).file # None
  PROVE  \E n \in 1..Len(f) :
           Update(o, f).file =
             [m \in 1..Len(f) |->
                IF f[m].ids = f[n].ids /\ (o.user = None \/ f[m].user = o.user)
                  THEN [f[m] EXCEPT !.state = o.state] ELSE f[m]]
<1> DEFINE hits == {n \in 1..Len(f) :
                      UserMatches(f[n], o.user) /\ \E s \in Spaces : f[n].ids[s] = o.name}
<1>1. /\ hits # {}
      /\ \A m, n \in hits : f[m].ids = f[n].ids
      /\ Update(o, f).file =
           [n \in 1..Len(f) |-> IF n \in hits THEN [f[n] EXCEPT !.state = o.state] ELSE f[n]]
  BY DEF Update, Refuse, Commit
<1>2. PICK n \in hits : TRUE
  BY <1>1
<1>3. \A m \in 1..Len(f) :
        m \in hits <=> f[m].ids = f[n].ids /\ (o.user = None \/ f[m].user = o.user)
  BY <1>1, <1>2 DEF UserMatches
<1>4. n \in 1..Len(f)
  BY <1>2
<1> HIDE DEF hits
<1>5. Update(o, f).file =
        [m \in 1..Len(f) |->
           IF f[m].ids = f[n].ids /\ (o.user = None \/ f[m].user = o.user)
             THEN [f[m] EXCEPT !.state = o.state] ELSE f[m]]
  BY <1>1, <1>3, Zenon
<1> QED
  BY <1>4, <1>5

(* What a call writes, decided on the file as it is.                       *)
LEMMA Written ==
  ASSUME IInv, NEW c \in Calls, Write(c)
  PROVE  /\ OpOf(c) \in Operation /\ OpOf(c) \in Offered
         /\ file \in Seq(Record)
         /\ file' = Decide(OpOf(c), file).file /\ file' # None
  BY RepositoryAssumption
     DEF Write, IInv, TypeInv, TypeOK, Running, CallSteps, OpOf, FileInv, DecidedInv

(* Only a write by a call and the creation of a new file change the file,  *)
(* power failures apart.                                                   *)
LEMMA FileSteps ==
  ASSUME IInv, [Next]_vars
  PROVE  \/ UNCHANGED <<file, stable>>
         \/ UNCHANGED file /\ \E c \in Calls : Sync(c)
         \/ \E c \in Calls : Write(c)
         \/ \E p \in Procs : Boot(p) /\ file = None
         \/ PowerLoss
<1>1. ASSUME NEW c \in Calls, Enter(c) PROVE UNCHANGED <<file, stable>>
  BY <1>1 DEF Enter
<1>2. ASSUME NEW c \in Calls, Sync(c) PROVE UNCHANGED file
  BY <1>2 DEF Sync
<1>3. ASSUME NEW p \in Procs, Boot(p) PROVE file = None \/ UNCHANGED <<file, stable>>
  BY <1>3 DEF Boot
<1>4. CASE UNCHANGED vars
  BY <1>4 DEF vars
<1> QED
  BY <1>1, <1>2, <1>3, <1>4, QuietSteps DEF Next, Step, Fails

LEMMA KnownAppend ==
  ASSUME NEW f \in Seq(Record), Known(f), NEW x \in Record, x \in Arriving
  PROVE  Known(Append(f, x))
<1>1. x \in Origins
  BY DEF Origins
<1>2. \A n \in 1..Len(Append(f, x)) :
        IF n \in 1..Len(f) THEN Append(f, x)[n] = f[n] ELSE Append(f, x)[n] = x
  OBVIOUS
<1> QED
  BY <1>1, <1>2 DEF Known

LEMMA DecideKnown ==
  ASSUME SavesAgree, NEW o \in Operation, o \in Offered, NEW f \in Seq(Record), Known(f),
         Decide(o, f).file # None
  PROVE  Known(Decide(o, f).file)
<1>1. CASE o \in IngestCall
  <2>1. Decide(o, f).file = Append(f, Scoped(o))
    BY <1>1, IngestArrives DEF Decide, IngestCall
  <2>2. Scoped(o) \in Arriving /\ Scoped(o) \in Record
    BY <1>1, ScopedType DEF Arriving, IngestCall
  <2> QED
    BY <2>1, <2>2, KnownAppend
<1>2. CASE o \in UpdateCall
  <2>1. Decide(o, f) = Update(o, f)
    BY <1>2 DEF Decide, UpdateCall
  <2>2. PICK k \in 1..Len(f) :
          Decide(o, f).file =
            [m \in 1..Len(f) |->
               IF f[m].ids = f[k].ids /\ (o.user = None \/ f[m].user = o.user)
                 THEN [f[m] EXCEPT !.state = o.state] ELSE f[m]]
    BY <1>2, <2>1, UpdateRelabels
  <2> DEFINE g == Decide(o, f).file
  <2>3. \A m \in 1..Len(f) : f[m] \in Record
    OBVIOUS
  <2> HIDE DEF g
  <2>4. Len(g) = Len(f)
    BY <2>2 DEF g
  <2>5. \A m \in 1..Len(f) : g[m].user = f[m].user /\ g[m].int = f[m].int /\ g[m].ids = f[m].ids
    BY <2>2, <2>3 DEF Record, g
  <2> QED
    BY <2>4, <2>5 DEF Known, g
<1>3. CASE o \in SaveCall
  <2>1. Decide(o, f) = Save(o, f)
    BY <1>3 DEF Decide, SaveCall
  <2>2. o.record \in Arriving /\ o.record \in Record
    BY <1>3 DEF Arriving, SaveCall
  <2> QED
    BY <1>3, <2>1, <2>2, SaveArrives, KnownAppend
<1>4. CASE o \in ResolveCall
  BY <1>4 DEF Decide, ResolveCall, Resolve, Refuse, Answer
<1> QED
  BY <1>1, <1>2, <1>3, <1>4 DEF Operation

LEMMA InitOrigin == Init => OriginInv
<1> SUFFICES ASSUME Init, file # None PROVE Known(file)
  BY DEF Init, OriginInv
<1>1. \A n \in 1..Len(file) : file[n] \in Origins
  BY DEF Init, Origins
<1> QED
  BY <1>1 DEF Known

LEMMA NextOrigin ==
  ASSUME SavesAgree, SInv, [Next]_vars
  PROVE  OriginInv'
<1> USE DEF SInv
<1>1. ASSUME NEW c \in Calls, Write(c)
      PROVE  OriginInv'
  <2>1. stable' = stable \cup {file'}
    BY <1>1 DEF Write
  <2>2. Known(file)
    BY <1>1, Written DEF OriginInv, IInv, FileInv, KeptInv, DecidedInv, Write
  <2>3. Known(file')
    BY <1>1, <2>2, Written, DecideKnown
  <2> QED
    BY <2>1, <2>3 DEF OriginInv, Known
<1>2. ASSUME NEW p \in Procs, Boot(p), file = None
      PROVE  OriginInv'
  <2>1. stable' \subseteq stable \cup {<<>>}
    BY <1>2 DEF Boot
  <2>2. Known(<<>>)
    BY DEF Known
  <2> QED
    BY <2>1, <2>2 DEF OriginInv, Known
<1>3. ASSUME stable' \subseteq stable
      PROVE  OriginInv'
  BY <1>3 DEF OriginInv, Known
<1>4. ASSUME NEW c \in Calls, Sync(c)
      PROVE  stable' \subseteq stable
  BY <1>4 DEF Sync, IInv, FileInv, KeptInv
<1>5. PowerLoss => stable' \subseteq stable
  BY DEF PowerLoss
<1> QED
  BY <1>1, <1>2, <1>3, <1>4, <1>5, FileSteps

LEMMA NextSInv == SavesAgree /\ SInv /\ [Next]_vars => SInv'
  BY NextInv, NextOrigin DEF SInv

LEMMA WriteRefines ==
  ASSUME SavesAgree, SInv, NEW c \in Calls, Write(c)
  PROVE  Log!LogNext \/ UNCHANGED Log!logVars
<1> DEFINE o == OpOf(c)
<1>1. /\ o \in Offered /\ o \in Operation
      /\ file \in Seq(Record)
      /\ todo[c] # None /\ todo[c] = Decide(o, file).file
  BY Written DEF SInv, Write, IInv, TypeInv, TypeOK
<1>2. file' = todo[c] /\ stable' = stable \cup {todo[c]}
  BY DEF Write
<1>3. AsLog(file) = file /\ AsLog(file)' = todo[c]
  BY <1>1, <1>2 DEF AsLog
<1>4. {AsLog(f) : f \in stable}' = {AsLog(f) : f \in stable} \cup {AsLog(file)'}
  BY <1>2 DEF AsLog
<1> HIDE DEF o
<1>5. CASE o \in IngestCall
  <2>1. Decide(o, file) = Ingest(o, file)
    BY <1>5 DEF Decide, IngestCall
  <2>2. Scoped(o) \in Arriving
    BY <1>1, <1>5 DEF Arriving, IngestCall
  <2>3. Scoped(o).user = o.user /\ Scoped(o).ids = o.ids
    BY DEF Scoped
  <2>4. Log!Arrive(Scoped(o))
    BY <1>1, <1>3, <1>4, <1>5, <2>1, <2>3, IngestArrives DEF Log!Arrive
  <2> QED
    BY <2>2, <2>4 DEF Log!LogNext
<1>6. CASE o \in UpdateCall
  <2>1. Decide(o, file) = Update(o, file)
    BY <1>6 DEF Decide, UpdateCall
  <2>2. PICK n \in 1..Len(file) :
          todo[c] = [m \in 1..Len(file) |->
            IF file[m].ids = file[n].ids /\ (o.user = None \/ file[m].user = o.user)
              THEN [file[m] EXCEPT !.state = o.state] ELSE file[m]]
    BY <1>1, <1>6, <2>1, UpdateRelabels
  <2>3. Log!Relabel(o.user, file[n].ids, o.state)
    BY <1>3, <1>4, <2>2 DEF Log!Relabel
  <2>4. o.user \in Users \cup {None} /\ o.state \in States
    BY <1>6 DEF UpdateCall
  <2> QED
    BY <1>3, <2>3, <2>4 DEF Log!LogNext
<1>7. CASE o \in ResolveCall
  BY <1>1, <1>7 DEF Decide, ResolveCall, Resolve, Answer, Refuse
<1>8. CASE o \in SaveCall
  <2>1. Decide(o, file) = Save(o, file)
    BY <1>8 DEF Decide, SaveCall
  <2>2. file \in stable /\ file # None
    BY <1>1 DEF SInv, IInv, FileInv, KeptInv
  <2>3. Known(file)
    BY <2>2 DEF SInv, OriginInv
  <2>4. o.record \in Arriving
    BY <1>1, <1>8 DEF Arriving, SaveCall
  <2>5. CASE todo[c] = file
    BY <1>2, <2>2, <2>5 DEF Log!logVars, AsLog
  <2>6. CASE todo[c] = Append(file, o.record) /\ New(file, o.record)
    <3>1. Log!Arrive(o.record)
      BY <1>3, <1>4, <2>6 DEF Log!Arrive, New
    <3> QED
      BY <2>4, <3>1 DEF Log!LogNext
  <2> QED
    BY <1>1, <1>8, <2>1, <2>3, <2>5, <2>6, SaveArrives
<1> QED
  BY <1>1, <1>5, <1>6, <1>7, <1>8 DEF Operation

LEMMA SyncRefines ==
  ASSUME NEW c \in Calls, Sync(c)
  PROVE  Log!LogNext
<1>1. UNCHANGED file /\ stable' = {file}
  BY DEF Sync
<1>2. UNCHANGED AsLog(file) /\ {AsLog(f) : f \in stable}' = {AsLog(file)}
  BY <1>1 DEF AsLog
<1> QED
  BY <1>2 DEF Log!LogNext, Log!Settle

(* A new file is empty, as the log is without a file.                      *)
LEMMA BootRefines ==
  ASSUME IInv, NEW p \in Procs, Boot(p)
  PROVE  Log!LogNext \/ UNCHANGED Log!logVars
<1>1. CASE UNCHANGED <<file, stable>>
  BY <1>1 DEF Log!logVars, AsLog
<1>2. CASE file = None /\ file' = <<>> /\ stable' = {<<>>}
  <2>1. <<>> # None
    <3>1. <<>> \in Seq(Record)
      OBVIOUS
    <3> QED
      BY <3>1
  <2>2. UNCHANGED AsLog(file) /\ {AsLog(f) : f \in stable}' = {AsLog(file)}
    BY <1>2, <2>1 DEF AsLog
  <2> QED
    BY <2>2 DEF Log!LogNext, Log!Settle
<1>3. CASE file = None /\ file' = <<>> /\ stable' = stable \cup {<<>>}
  <2>1. AsLog(<<>>) = AsLog(None)
    BY DEF AsLog
  <2>2. None \in stable
    BY <1>3 DEF IInv, FileInv, KeptInv
  <2>3. UNCHANGED AsLog(file)
    BY <1>3, <2>1
  <2>4. UNCHANGED {AsLog(f) : f \in stable}
    BY <1>3, <2>1, <2>2
  <2> QED
    BY <2>3, <2>4 DEF Log!logVars
<1> QED
  BY <1>1, <1>2, <1>3 DEF Boot

LEMMA PowerLossRefines ==
  ASSUME PowerLoss
  PROVE  Log!LogNext
<1>1. file' \in stable /\ stable' = {file'}
  BY DEF PowerLoss
<1>2. AsLog(file)' \in {AsLog(f) : f \in stable}
  BY <1>1 DEF AsLog
<1>3. {AsLog(f) : f \in stable}' = {AsLog(file)'}
  BY <1>1 DEF AsLog
<1> QED
  BY <1>2, <1>3 DEF Log!LogNext, Log!PowerFailure

LEMMA NextRefines == SavesAgree /\ SInv /\ [Next]_vars => [Log!LogNext]_(Log!logVars)
<1> SUFFICES ASSUME SavesAgree, SInv, [Next]_vars
             PROVE  Log!LogNext \/ UNCHANGED Log!logVars
  OBVIOUS
<1>0. IInv
  BY DEF SInv
<1>1. UNCHANGED <<file, stable>> => UNCHANGED Log!logVars
  BY DEF Log!logVars, AsLog
<1>2. ASSUME NEW c \in Calls, Step(c)
      PROVE  Log!LogNext \/ UNCHANGED Log!logVars
  <2>1. CASE Write(c) \/ Sync(c)
    BY <2>1, WriteRefines, SyncRefines
  <2>2. CASE Enter(c) \/ EnterRefused(c) \/ Fails(c) \/ WriteFails(c) \/ SyncFails(c)
    BY <1>0, <1>1, <2>2, QuietSteps DEF Enter
  <2> QED
    BY <1>2, <2>1, <2>2 DEF Step, Fails
<1>3. ASSUME NEW p \in Procs, Boot(p) \/ BootFails(p) \/ CrashProcess(p)
      PROVE  Log!LogNext \/ UNCHANGED Log!logVars
  BY <1>0, <1>1, <1>3, BootRefines, QuietSteps
<1>4. CASE \E c \in Calls, p \in Procs, o \in Offered : Start(c, p, o)
  BY <1>0, <1>1, <1>4, QuietSteps
<1>5. CASE UNCHANGED vars
  BY <1>1, <1>5 DEF vars
<1> QED
  BY <1>2, <1>3, <1>4, <1>5, PowerLossRefines DEF Next

(* Whatever its processes, crashes, power failures and failing system      *)
(* calls do, the file is an authoritative log: a record arrives once under *)
(* ids that are new to its tenant and keeps its content for good.          *)
THEOREM FileIsLog ==
  ASSUME SavesAgree
  PROVE  Spec => ImplementsLog
<1>1. Init => SInv
  BY InitTypes, InitFile, InitOrigin DEF IInv, SInv
<1>2. SInv /\ [Next]_vars => SInv' /\ [Log!LogNext]_(Log!logVars)
  BY NextRefines, NextSInv
<1> QED
  BY <1>1, <1>2, InitRefines, PTL DEF Spec, ImplementsLog, Log!LogSpec

-----------------------------------------------------------------------------
(***************************************************************************)
(* The decisions.                                                          *)
(***************************************************************************)

(* No other record of the tenant shares an id with the one o sends, which  *)
(* f contains.                                                             *)
Stored(f, o) ==
  /\ Contains(f, Scoped(o))
  /\ \A n \in 1..Len(f) :
       f[n].user = o.user /\ (\E s \in Spaces : o.ids[s] # None /\ f[n].ids[s] = o.ids[s])
       => f[n].ids = o.ids /\ f[n].content = o.content

Accepting == {"CREATED", "DUPLICATE_ACCEPTED", "DURABILITY_UNCERTAIN"}

Writing == {"CREATED", "UPDATED", "SAVED"}

(* What is found is the same in all that is authoritative as whatever else *)
(* the ids meet.                                                           *)
LEMMA LookupIdentical ==
  ASSUME NEW f \in Seq(Record), NEW u, NEW owner, NEW ids,
         Lookup(f, u, owner, ids).status = "FOUND"
  PROVE  \A n \in Hits(f, u, ids) : Identical(f[n], f[Lookup(f, u, owner, ids).at])
<1> DEFINE res == Lookup(f, u, owner, ids)
<1>1. res.at \in Hits(f, u, ids)
  BY LookupFinds
<1>2. \A m, n \in Hits(f, u, ids) : Identical(f[m], f[n])
  BY DEF Lookup
<1> QED
  BY <1>1, <1>2

(* An operation that writes says so, and only an ingestion creates.        *)
LEMMA WritingStatus ==
  ASSUME NEW o \in Operation, NEW f \in Seq(Record), Decide(o, f).file # None
  PROVE  /\ Decide(o, f).status \in Writing
         /\ Decide(o, f).status = "CREATED" <=> o \in IngestCall
<1>1. CASE o \in IngestCall
  BY <1>1 DEF Decide, IngestCall, Ingest, Refuse, Answer, Commit, Writing
<1>2. CASE o \in UpdateCall
  BY <1>2 DEF Decide, UpdateCall, IngestCall, Update, Refuse, Commit, Writing
<1>3. CASE o \in SaveCall
  BY <1>3 DEF Decide, SaveCall, IngestCall, Save, Refuse, Commit, Writing
<1>4. CASE o \in ResolveCall
  BY <1>4 DEF Decide, ResolveCall, Resolve, Refuse, Answer
<1> QED
  BY <1>1, <1>2, <1>3, <1>4 DEF Operation

(* An operation that answers without writing accepts only an ingestion of  *)
(* what is stored.                                                         *)
LEMMA DuplicateStored ==
  ASSUME NEW o \in Operation, NEW f \in Seq(Record),
         Decide(o, f).file = None, Decide(o, f).status \in Accepting
  PROVE  Stored(f, o)
<1>1. o \in IngestCall
  <2>1. CASE o \in UpdateCall
    BY <2>1 DEF Decide, UpdateCall, Update, Refuse, Commit, Accepting
  <2>2. CASE o \in SaveCall
    BY <2>2 DEF Decide, SaveCall, Save, Refuse, Commit, Accepting
  <2>3. CASE o \in ResolveCall
    BY <2>3 DEF Decide, ResolveCall, Resolve, Refuse, Answer, Accepting
  <2> QED
    BY <2>1, <2>2, <2>3 DEF Operation
<1> DEFINE res == Lookup(f, o.user, o.user, o.ids)
<1>2. Decide(o, f) = Ingest(o, f)
  BY <1>1 DEF Decide, IngestCall
<1>3. res.status = "FOUND" /\ Identical(Scoped(o), f[res.at])
  <2>1. /\ Scoped(o) \in Record
        /\ Append(f, Scoped(o)) \in Seq(Record)
        /\ Append(f, Scoped(o)) # None
    BY <1>1, ScopedType
  <2>2. res.status \in {"FOUND", "ABSENT", "IDENTITY_AMBIGUOUS", "IDENTITY_COLLISION"}
    BY LookupFinds
  <2> HIDE DEF res
  <2> QED
    BY <1>2, <2>1, <2>2 DEF Ingest, Refuse, Answer, Commit, Accepting, res
<1>4. res.at \in Hits(f, o.user, o.ids)
  BY <1>3, LookupFinds
<1>5. \A n \in Hits(f, o.user, o.ids) : Identical(f[n], f[res.at])
  BY <1>3, LookupIdentical
<1>6. o.user # None
  BY <1>1 DEF IngestCall
<1> HIDE DEF res
<1>7. Contains(f, Scoped(o))
  BY <1>3, <1>4, <1>6 DEF Contains, Scoped, Identical, Hits, UserMatches
<1>8. ASSUME NEW n \in 1..Len(f), f[n].user = o.user,
             \E s \in Spaces : o.ids[s] # None /\ f[n].ids[s] = o.ids[s]
      PROVE  f[n].ids = o.ids /\ f[n].content = o.content
  <2>1. n \in Hits(f, o.user, o.ids)
    BY <1>8 DEF Hits, UserMatches, Meets
  <2> QED
    BY <1>3, <1>5, <2>1 DEF Identical, Scoped
<1> QED
  BY <1>7, <1>8 DEF Stored

(* What an ingestion writes stores what it was sent, which it found under  *)
(* none of the ids.                                                        *)
LEMMA CreatedStored ==
  ASSUME NEW o \in IngestCall, NEW f \in Seq(Record), Ingest(o, f).file # None
  PROVE  /\ Stored(Ingest(o, f).file, o)
         /\ Ingest(o, f).found = Scoped(o)
<1>1. /\ Ingest(o, f).file = Append(f, Scoped(o))
      /\ \A n \in 1..Len(f) : f[n].user = o.user => ~Log!Meet(f[n].ids, o.ids)
  BY IngestArrives
<1>2. Scoped(o) \in Record /\ Scoped(o).user = o.user /\ Scoped(o).ids = o.ids
      /\ Scoped(o).content = o.content
  BY ScopedType DEF Scoped
<1> DEFINE g == Append(f, Scoped(o))
<1>3. /\ Len(g) = Len(f) + 1 /\ g[Len(g)] = Scoped(o) /\ Len(g) \in 1..Len(g)
      /\ \A n \in 1..Len(f) : g[n] = f[n]
  BY <1>2
<1> HIDE DEF g
<1>4. Contains(g, Scoped(o))
  BY <1>3 DEF Contains
<1>5. ASSUME NEW n \in 1..Len(g), g[n].user = o.user,
             \E s \in Spaces : o.ids[s] # None /\ g[n].ids[s] = o.ids[s]
      PROVE  g[n].ids = o.ids /\ g[n].content = o.content
  <2>1. CASE n \in 1..Len(f)
    BY <1>1, <1>3, <1>5, <2>1 DEF Log!Meet, Spaces, Log!Spaces
  <2>2. CASE n = Len(g)
    BY <1>2, <1>3, <2>2
  <2> QED
    BY <1>3, <2>1, <2>2
<1>6. Ingest(o, f).found = Scoped(o)
  BY DEF Ingest, Refuse, Answer, Commit
<1> QED
  BY <1>1, <1>4, <1>5, <1>6 DEF Stored, g

-----------------------------------------------------------------------------
(***************************************************************************)
(* The answers to an ingestion and to a resolution.                        *)
(***************************************************************************)

InHand(c) == pc[c] \in {"write", "sync"}

(* A call that writes has the reply of one that does, and when it is an    *)
(* ingestion the record it sends; once written, the record is stored.      *)
HandInv ==
  \A c \in Calls :
    /\ InHand(c) =>
         /\ reply[c] \in Writing
         /\ reply[c] = "CREATED" <=> OpOf(c) \in IngestCall
         /\ reply[c] = "CREATED" => found[c] = Scoped(OpOf(c))
    /\ pc[c] = "sync" /\ reply[c] = "CREATED" => file # None /\ Stored(file, OpOf(c))

AInv == IInv /\ HandInv

LEMMA InitHand == Init => HandInv
  BY DEF Init, HandInv, InHand

(* Steps that take no call further into the critical section.              *)
LEMMA QuietHand ==
  ASSUME AInv, UNCHANGED file,
         \A c \in Calls : InHand(c)' =>
           UNCHANGED <<pc[c], OpOf(c), reply[c], found[c]>>
  PROVE  HandInv'
  BY DEF AInv, HandInv, InHand

(* What is asked of a call that runs, and the file its process reads.      *)
LEMMA Asked ==
  ASSUME IInv, NEW c \in Calls, pc[c] \in CallSteps
  PROVE  OpOf(c) \in Offered /\ OpOf(c) \in Operation
  BY RepositoryAssumption DEF IInv, TypeInv, TypeOK, Running, OpOf

LEMMA EnterHand ==
  ASSUME AInv, NEW c \in Calls, Enter(c)
  PROVE  HandInv'
<1> DEFINE o == OpOf(c)
           d == Decide(o, file)
<1>1. o \in Operation /\ file \in Seq(Record)
  BY Asked, EnterFile DEF Enter, AInv, IInv, TypeInv, TypeOK, CallSteps
<1>2. UNCHANGED file /\ \A b \in Calls : UNCHANGED OpOf(b)
  BY DEF Enter, OpOf
<1>3. CASE d.file = None
  <2>1. Finish(c, d.status, d.found)
    BY <1>3 DEF Enter
  <2> HIDE DEF d, o
  <2> QED
    BY <1>2, <2>1, QuietHand DEF Finish, InHand, AInv, IInv, TypeInv, TypeOK
<1>4. CASE d.file # None
  <2>1. /\ pc' = [pc EXCEPT ![c] = "write"]
        /\ reply' = [reply EXCEPT ![c] = d.status]
        /\ found' = [found EXCEPT ![c] = d.found]
    BY <1>4 DEF Enter
  <2>2. d.status \in Writing /\ (d.status = "CREATED" <=> o \in IngestCall)
    BY <1>1, <1>4, WritingStatus
  <2>3. o \in IngestCall => d.found = Scoped(o)
    BY <1>1, <1>4, CreatedStored DEF Decide, IngestCall
  <2> HIDE DEF d
  <2>4. ASSUME NEW b \in Calls, b # c
        PROVE  UNCHANGED <<pc[b], reply[b], found[b]>>
    BY <2>1, <2>4 DEF AInv, IInv, TypeInv, TypeOK
  <2>5. pc'[c] = "write" /\ reply'[c] = d.status /\ found'[c] = d.found
    BY <2>1 DEF AInv, IInv, TypeInv, TypeOK
  <2> QED
    BY <1>2, <2>2, <2>3, <2>4, <2>5 DEF AInv, HandInv, InHand
<1> QED
  BY <1>3, <1>4

LEMMA WriteHand ==
  ASSUME AInv, NEW c \in Calls, Write(c)
  PROVE  HandInv'
<1> DEFINE o == OpOf(c)
<1>1. /\ o \in Operation
      /\ file \in Seq(Record)
      /\ todo[c] # None /\ todo[c] = Decide(o, file).file
  BY Asked DEF Write, AInv, IInv, TypeInv, TypeOK, CallSteps, FileInv, DecidedInv
<1>2. \A b \in Calls : InHand(b)' => b = c
  BY DEF Write, AInv, IInv, TypeInv, TypeOK, InHand
<1>3. UNCHANGED <<OpOf(c), reply[c], found[c]>> /\ InHand(c) /\ file' = todo[c]
  BY DEF Write, OpOf, InHand
<1>4. o \in IngestCall => Stored(todo[c], o)
  BY <1>1, CreatedStored DEF Decide, IngestCall
<1>5. file' # None
  BY <1>1, <1>3
<1>6. /\ reply[c] \in Writing
      /\ reply[c] = "CREATED" <=> o \in IngestCall
      /\ reply[c] = "CREATED" => found[c] = Scoped(o)
  BY <1>3 DEF AInv, HandInv
<1>7. reply[c] = "CREATED" => Stored(file', o)
  BY <1>3, <1>4, <1>6
<1>8. \A b \in Calls : b # c => ~InHand(b)' /\ pc'[b] # "sync"
  BY <1>2 DEF InHand
<1> HIDE DEF o
<1>9. o = OpOf(c) /\ o = OpOf(c)'
  BY <1>3 DEF o
<1> QED
  BY <1>3, <1>5, <1>6, <1>7, <1>8, <1>9 DEF HandInv

LEMMA NextHand == AInv /\ [Next]_vars => HandInv'
<1> SUFFICES ASSUME AInv, [Next]_vars PROVE HandInv'
  OBVIOUS
<1> USE DEF AInv, IInv, TypeInv, TypeOK
<1>1. ASSUME NEW c \in Calls, NEW p \in Procs, NEW o \in Offered, Start(c, p, o)
      PROVE  HandInv'
  BY <1>1, QuietHand DEF Start, Finish, OpOf, InHand
<1>2. ASSUME NEW c \in Calls, EnterRefused(c) \/ Fails(c)
      PROVE  HandInv'
  BY <1>2, QuietHand DEF EnterRefused, Fails, LockFails, LoadFails, Raise, Finish, OpOf, InHand
<1>3. ASSUME NEW c \in Calls, WriteFails(c)
      PROVE  HandInv'
  BY <1>3, QuietHand DEF WriteFails, Finish, OpOf, InHand
<1>4. ASSUME NEW c \in Calls, Sync(c) \/ SyncFails(c)
      PROVE  HandInv'
  BY <1>4, QuietHand DEF Sync, SyncFails, Finish, OpOf, InHand
<1>5. ASSUME NEW p \in Procs, Boot(p) \/ BootFails(p)
      PROVE  HandInv'
  <2>1. CASE UNCHANGED file
    BY <1>5, <2>1, QuietHand DEF Boot, BootFails, OpOf, InHand
  <2>2. CASE Boot(p) /\ holder = None
    BY <2>2 DEF Boot, HandInv, InHand
  <2> QED
    BY <1>5, <2>1, <2>2 DEF Boot, BootFails
<1>6. ASSUME NEW p \in Procs, CrashProcess(p)
      PROVE  HandInv'
  BY <1>6, QuietHand DEF CrashProcess, Kill, OpOf, InHand
<1>7. CASE PowerLoss
  <2>1. \A c \in Calls : ~InHand(c)'
    BY <1>7 DEF PowerLoss, Kill, Running, CallSteps, ProcOf, InHand
  <2> QED
    BY <2>1 DEF HandInv, InHand
<1>8. CASE UNCHANGED vars
  BY <1>8, QuietHand DEF vars, OpOf, InHand
<1> QED
  BY <1>1, <1>2, <1>3, <1>4, <1>5, <1>6, <1>7, <1>8, EnterHand, WriteHand DEF Next, Step, Fails

LEMMA NextA == AInv /\ [Next]_vars => AInv'
  BY NextInv, NextHand DEF AInv

LEMMA InitA == Init => AInv
  BY InitTypes, InitFile, InitHand DEF AInv, IInv

(* Where an answer comes from: a decision that writes nothing, the end of  *)
(* the critical section, or a failure.                                     *)
LEMMA AnswerSteps ==
  ASSUME AInv, Next, NEW c \in Calls, Answers(c)
  PROVE  /\ UNCHANGED <<file, OpOf(c)>> \/ pc[c] = "idle"
         /\ \/ reply'[c] \in {"STORAGE_UNAVAILABLE", "NOT_FOUND", "PERSISTENCE_FAILURE"}
            \/ /\ Enter(c)
               /\ Decide(OpOf(c), file).file = None
               /\ reply'[c] = Decide(OpOf(c), file).status
               /\ found'[c] = Decide(OpOf(c), file).found
            \/ /\ pc[c] = "sync"
               /\ reply'[c] = reply[c] \/ (reply'[c] = "DURABILITY_UNCERTAIN" /\ OpOf(c) \in IngestCall)
<1> USE DEF Answers, Answered, AInv, IInv, TypeInv, TypeOK
<1>1. ASSUME NEW b \in Calls, NEW p \in Procs, NEW o \in Offered, Start(b, p, o)
      PROVE  b = c /\ reply'[c] = "STORAGE_UNAVAILABLE"
  BY <1>1 DEF Start, Finish
<1>2. ASSUME NEW b \in Calls, Step(b)
      PROVE  b = c
  BY <1>2 DEF Step, Enter, EnterRefused, LockFails, LoadFails, Write, WriteFails, Raise, Sync, SyncFails,
     Finish
<1>3. ASSUME NEW p \in Procs, Boot(p) \/ BootFails(p) \/ CrashProcess(p)
      PROVE  FALSE
  BY <1>3 DEF Boot, BootFails, CrashProcess, Kill
<1>4. CASE PowerLoss
  BY <1>4 DEF PowerLoss, Kill
<1>5. CASE Enter(c)
  <2> DEFINE d == Decide(OpOf(c), file)
  <2>1. d.file = None
    <3>1. CASE d.file # None
      <4>1. pc' = [pc EXCEPT ![c] = "write"]
        BY <1>5, <3>1 DEF Enter
      <4> QED
        BY <4>1
    <3> QED
      BY <3>1
  <2>2. Finish(c, d.status, d.found)
    BY <1>5, <2>1 DEF Enter
  <2> HIDE DEF d
  <2>3. reply'[c] = d.status /\ found'[c] = d.found
    BY <2>2 DEF Finish
  <2> QED
    BY <1>5, <2>1, <2>3 DEF d, Enter, OpOf
<1>6. CASE EnterRefused(c) \/ Fails(c)
  BY <1>6 DEF EnterRefused, Fails, LockFails, LoadFails, Raise, Finish, Unavailable, OpOf
<1>7. CASE Write(c)
  BY <1>7 DEF Write
<1>8. CASE WriteFails(c)
  BY <1>8 DEF WriteFails, Finish, OpOf
<1>9. CASE Sync(c)
  BY <1>9 DEF Sync, Finish, OpOf
<1>10. CASE SyncFails(c)
  <2>1. OpOf(c).op = "ingest" => OpOf(c) \in IngestCall
    <3>1. OpOf(c) \in Operation
      BY <1>10, Asked DEF SyncFails, CallSteps
    <3> QED
      BY <3>1 DEF Operation, IngestCall, UpdateCall, SaveCall, ResolveCall
  <2> QED
    BY <1>10, <2>1 DEF SyncFails, Finish, OpOf
<1> QED
  BY <1>1, <1>2, <1>3, <1>4, <1>5, <1>6, <1>7, <1>8, <1>9, <1>10 DEF Next, Step, Fails, Start

(* An ingestion is accepted only when the file holds what was sent, and no *)
(* record of the tenant with another content shares an id with it: neither *)
(* a late answer nor a failing sync tells of a file that has changed.      *)
THEOREM AcceptedStored == Spec => AcceptedIsStored
<1> DEFINE Accepted(c) ==
      Answers(c) /\ reply'[c] \in {"CREATED", "DUPLICATE_ACCEPTED", "DURABILITY_UNCERTAIN"} =>
        LET o == OpOf(c)
            sent == Scoped(o)
        IN  /\ Contains(file', sent)
            /\ \A n \in 1..Len(file') :
                 file'[n].user = o.user
                 /\ (\E s \in Spaces : o.ids[s] # None /\ file'[n].ids[s] = o.ids[s])
                 => file'[n].ids = o.ids /\ file'[n].content = o.content
<1>1. AInv /\ [Next]_vars => [\A c \in Calls : Accepted(c)]_vars
  <2> SUFFICES ASSUME AInv, Next, NEW c \in Calls, Answers(c), reply'[c] \in Accepting
               PROVE  Stored(file', OpOf(c))
    BY DEF Accepting, Stored
  <2>1. pc[c] # "idle"
    BY DEF Next, Start, Step, Enter, EnterRefused, LockFails, LoadFails, Write, WriteFails, Raise, Sync, SyncFails,
       Boot, BootFails, CrashProcess, PowerLoss, Kill, Finish, Answers, Answered, Accepting,
       AInv, IInv, TypeInv, TypeOK, CallSteps
  <2>2. UNCHANGED <<file, OpOf(c)>>
    BY <2>1, AnswerSteps
  <2>3. CASE /\ Enter(c)
             /\ Decide(OpOf(c), file).file = None
             /\ reply'[c] = Decide(OpOf(c), file).status
    <3>1. OpOf(c) \in Operation /\ file \in Seq(Record)
      BY <2>3, Asked, EnterFile DEF Enter, AInv, IInv, TypeInv, TypeOK, CallSteps
    <3> QED
      BY <2>2, <2>3, <3>1, DuplicateStored
  <2>4. CASE /\ pc[c] = "sync"
             /\ reply'[c] = reply[c] \/ (reply'[c] = "DURABILITY_UNCERTAIN" /\ OpOf(c) \in IngestCall)
    <3>1. reply[c] \in Writing /\ (reply[c] = "CREATED" <=> OpOf(c) \in IngestCall)
      BY <2>4 DEF AInv, HandInv, InHand
    <3>2. reply[c] = "CREATED"
      BY <2>4, <3>1 DEF Accepting, Writing
    <3> QED
      BY <2>2, <2>4, <3>2 DEF AInv, HandInv
  <2> QED
    BY <2>3, <2>4, AnswerSteps DEF Accepting
<1> QED
  BY <1>1, InitA, NextA, PTL DEF Spec, AcceptedIsStored

(* A resolved publication is the only one: whatever else of the caller's   *)
(* scope has its publication id is the same in all that is authoritative.  *)
THEOREM ResolvedUnique == Spec => ResolvedIsUnique
<1> DEFINE Resolved(c) ==
      Answers(c) /\ reply'[c] = "RESOLVED" =>
        LET o == OpOf(c)
        IN  \A n \in 1..Len(file) :
              o.user \in {None, file[n].user} /\ file[n].ids.pub = o.pub =>
                file[n].ids = found'[c].ids /\ file[n].content = found'[c].content
<1>1. AInv /\ [Next]_vars => [\A c \in Calls : Resolved(c)]_vars
  <2> SUFFICES ASSUME AInv, Next, NEW c \in Calls, Answers(c), reply'[c] = "RESOLVED",
                      NEW n \in 1..Len(file),
                      OpOf(c).user \in {None, file[n].user}, file[n].ids.pub = OpOf(c).pub
               PROVE  file[n].ids = found'[c].ids /\ file[n].content = found'[c].content
    OBVIOUS
  <2>1. ~(pc[c] = "sync" /\ reply'[c] = reply[c])
    BY DEF AInv, HandInv, InHand, Writing
  <2> DEFINE o == OpOf(c)
             ids == [pub |-> o.pub, event |-> None, sig |-> None]
             res == Lookup(file, o.user, o.user, ids)
  <2>2. /\ Enter(c)
        /\ Decide(o, file).status = "RESOLVED"
        /\ found'[c] = Decide(o, file).found
    BY <2>1, AnswerSteps
  <2>3. o \in Operation /\ file \in Seq(Record)
    BY <2>2, Asked, EnterFile DEF Enter, AInv, IInv, TypeInv, TypeOK, CallSteps
  <2>4. o \in ResolveCall
    <3>1. CASE o \in IngestCall
      <4>1. Lookup(file, o.user, o.user, o.ids).status # "RESOLVED"
        BY <2>3, LookupFinds
      <4> QED
        BY <2>2, <3>1, <4>1 DEF Decide, IngestCall, Ingest, Refuse, Answer, Commit
    <3>2. CASE o \in UpdateCall
      BY <2>2, <3>2 DEF Decide, UpdateCall, Update, Refuse, Commit
    <3>3. CASE o \in SaveCall
      BY <2>2, <3>3 DEF Decide, SaveCall, Save, Refuse, Commit
    <3> QED
      BY <2>3, <3>1, <3>2, <3>3 DEF Operation
  <2>5. res.status = "FOUND" /\ found'[c] = file[res.at]
    BY <2>2, <2>4 DEF Decide, ResolveCall, Resolve, Answer, Refuse
  <2>6. res.at \in Hits(file, o.user, ids)
    BY <2>3, <2>5, LookupFinds
  <2>7. \A m \in Hits(file, o.user, ids) : Identical(file[m], file[res.at])
    BY <2>3, <2>5, LookupIdentical
  <2> HIDE DEF res
  <2>8. ids.pub = o.pub /\ o.pub # None
    BY <2>6 DEF Hits, Meets, Spaces
  <2>9. n \in Hits(file, o.user, ids)
    <3>1. UserMatches(file[n], o.user)
      BY DEF UserMatches
    <3>2. Meets(file[n].ids, ids)
      BY <2>8 DEF Meets, Spaces
    <3> QED
      BY <3>1, <3>2 DEF Hits
  <2> QED
    BY <2>5, <2>7, <2>9 DEF Identical
<1> QED
  BY <1>1, InitA, NextA, PTL DEF Spec, ResolvedIsUnique

-----------------------------------------------------------------------------
(***************************************************************************)
(* Storage that was found unavailable.                                     *)
(***************************************************************************)

(* What a step can do to a call and to the mark of its process.            *)
Out(c) ==
  LET p == ProcOf(c)'
  IN  /\ Answers(c) /\ reply'[c] = "STORAGE_UNAVAILABLE" => p \in unavailable'
      /\ p \in unavailable /\ p \in up' => p \in unavailable'
      /\ p \in unavailable /\ pc[c] \notin {"write", "sync"} =>
           /\ pc'[c] \notin {"write", "sync"}
           /\ Answers(c) => reply'[c] \in {"STORAGE_UNAVAILABLE", "NOT_FOUND"}

(* The mark stays as long as the process runs.                             *)
LEMMA MarkStays ==
  ASSUME IInv, Next, NEW p \in unavailable, p \in up'
  PROVE  p \in unavailable'
<1>1. p \in up
  BY DEF IInv, TypeInv, TypeOK
<1>2. ASSUME NEW c \in Calls, NEW q \in Procs, NEW o \in Offered, Start(c, q, o)
      PROVE  p \in unavailable'
  BY <1>2 DEF Start
<1>3. ASSUME NEW c \in Calls, Step(c)
      PROVE  p \in unavailable'
  BY <1>3 DEF Step, Enter, EnterRefused, LockFails, LoadFails, Write, WriteFails, Raise, Sync, SyncFails
<1>4. ASSUME NEW q \in Procs, Boot(q) \/ BootFails(q)
      PROVE  p \in unavailable'
  BY <1>1, <1>4 DEF Boot, BootFails
<1>5. ASSUME NEW P \in SUBSET Procs, Kill(P)
      PROVE  p \in unavailable'
  BY <1>5 DEF Kill
<1> QED
  BY <1>2, <1>3, <1>4, <1>5 DEF Next, CrashProcess, PowerLoss

LEMMA DecideStatus ==
  ASSUME NEW o \in Operation, NEW f \in Seq(Record)
  PROVE  Decide(o, f).status # "STORAGE_UNAVAILABLE"
<1>1. CASE o \in IngestCall
  <2> DEFINE res == Lookup(f, o.user, o.user, o.ids)
  <2>1. res.status # "STORAGE_UNAVAILABLE"
    BY DEF Lookup
  <2> HIDE DEF res
  <2>2. Ingest(o, f).status # "STORAGE_UNAVAILABLE"
    BY <2>1 DEF Ingest, Refuse, Answer, Commit, res
  <2> QED
    BY <1>1, <2>2 DEF Decide, IngestCall
<1>2. CASE o \in UpdateCall
  BY <1>2 DEF Decide, UpdateCall, Update, Refuse, Commit
<1>3. CASE o \in SaveCall
  BY <1>3 DEF Decide, SaveCall, Save, Refuse, Commit
<1>4. CASE o \in ResolveCall
  BY <1>4 DEF Decide, ResolveCall, Resolve, Refuse, Answer
<1> QED
  BY <1>1, <1>2, <1>3, <1>4 DEF Operation

(* Whoever is told that the storage is unavailable was a call that began   *)
(* with the mark, found it under the lock, or sets it.                     *)
LEMMA ToldIsMarked ==
  ASSUME AInv, Next, NEW c \in Calls, Answers(c), reply'[c] = "STORAGE_UNAVAILABLE"
  PROVE  ProcOf(c)' \in unavailable'
<1> USE DEF Answers, Answered, AInv, IInv, TypeInv, TypeOK
<1>1. ASSUME NEW b \in Calls, NEW p \in Procs, NEW o \in Offered, Start(b, p, o)
      PROVE  ProcOf(c)' \in unavailable'
  <2>1. CASE p \notin unavailable
    BY <1>1, <2>1 DEF Start
  <2>2. CASE p \in unavailable
    <3>1. b = c
      BY <1>1, <2>2 DEF Start, Finish
    <3> QED
      BY <1>1, <2>2, <3>1 DEF Start, ProcOf
  <2> QED
    BY <2>1, <2>2
<1>2. ASSUME NEW b \in Calls, Step(b)
      PROVE  b = c
  BY <1>2 DEF Step, Enter, EnterRefused, LockFails, LoadFails, Write, WriteFails, Raise, Sync, SyncFails,
     Finish
<1>3. ASSUME NEW p \in Procs, Boot(p) \/ BootFails(p) \/ CrashProcess(p)
      PROVE  FALSE
  BY <1>3 DEF Boot, BootFails, CrashProcess, Kill
<1>4. ~PowerLoss
  BY DEF PowerLoss, Kill
<1>5. ASSUME EnterRefused(c) \/ LoadFails(c) \/ Raise(c)
      PROVE  ProcOf(c)' \in unavailable'
  BY <1>5 DEF EnterRefused, LoadFails, Raise, StillAvailable, ProcOf
<1>6. ASSUME Enter(c)
      PROVE  FALSE
  <2> DEFINE d == Decide(OpOf(c), file)
  <2>1. OpOf(c) \in Operation /\ file \in Seq(Record)
    BY <1>6, Asked, EnterFile DEF Enter, CallSteps
  <2>2. d.status # "STORAGE_UNAVAILABLE"
    BY <2>1, DecideStatus
  <2>3. reply' = [reply EXCEPT ![c] = d.status]
    BY <1>6 DEF Enter, Finish
  <2> QED
    BY <2>2, <2>3
<1>7. ASSUME WriteFails(c)
      PROVE  FALSE
  BY <1>7 DEF WriteFails, Finish
<1>8. ASSUME Sync(c) \/ SyncFails(c)
      PROVE  FALSE
  BY <1>8 DEF Sync, SyncFails, Finish, HandInv, InHand, Writing
<1>9. ~LockFails(c) /\ ~Write(c)
  BY DEF LockFails, Write
<1> QED
  BY <1>1, <1>2, <1>3, <1>4, <1>5, <1>6, <1>7, <1>8, <1>9 DEF Next, Step, Fails

(* A call of a marked process that has not the file gets none.             *)
LEMMA MarkedIsRefused ==
  ASSUME IInv, Next, NEW c \in Calls, pc[c] # "done", pc'[c] # "idle",
         ProcOf(c)' \in unavailable, pc[c] \notin {"write", "sync"}
  PROVE  /\ pc'[c] \notin {"write", "sync"}
         /\ Answers(c) => reply'[c] \in {"STORAGE_UNAVAILABLE", "NOT_FOUND"}
<1> USE DEF Answers, Answered, IInv, TypeInv, TypeOK
<1>1. ASSUME NEW b \in Calls, NEW p \in Procs, NEW o \in Offered, Start(b, p, o), b = c
      PROVE  pc'[c] = "done" /\ reply'[c] = "STORAGE_UNAVAILABLE"
  <2>1. p \in unavailable
    BY <1>1 DEF Start, ProcOf
  <2> QED
    BY <1>1, <2>1 DEF Start, Finish
<1>2. ASSUME NEW b \in Calls, NEW p \in Procs, NEW o \in Offered, Start(b, p, o), b # c
      PROVE  pc'[c] = pc[c]
  BY <1>2 DEF Start, Finish
<1>3. ASSUME NEW b \in Calls, Step(b), b # c
      PROVE  pc'[c] = pc[c]
  BY <1>3 DEF Step, Enter, EnterRefused, LockFails, LoadFails, Write, WriteFails, Raise, Sync, SyncFails,
     Finish
<1>4. ASSUME Step(c)
      PROVE  /\ pc'[c] \in {"raised", "done"}
             /\ pc'[c] = "done" => reply'[c] \in {"STORAGE_UNAVAILABLE", "NOT_FOUND"}
  <2>1. EnterRefused(c) \/ LockFails(c) \/ LoadFails(c) \/ Raise(c)
    BY <1>4 DEF Step, Enter, StillAvailable, ProcOf, Write, WriteFails, Sync, SyncFails
  <2> QED
    BY <2>1 DEF EnterRefused, LockFails, LoadFails, Raise, Finish, Unavailable
<1>5. ASSUME NEW p \in Procs, Boot(p) \/ BootFails(p)
      PROVE  pc'[c] = pc[c]
  BY <1>5 DEF Boot, BootFails
<1>6. ASSUME NEW P \in SUBSET Procs, Kill(P)
      PROVE  pc'[c] \in {pc[c], "dead"}
  BY <1>6 DEF Kill
<1> QED
  BY <1>1, <1>2, <1>3, <1>4, <1>5, <1>6 DEF Next, CrashProcess, PowerLoss

(* Once a repository is marked unavailable it stays so until its process   *)
(* ends: later calls and those that waited for the lock neither write nor  *)
(* answer from the file, and who is told so leaves the mark behind.        *)
THEOREM UnavailableKept == Spec => UnavailableStaysOut
<1>1. AInv /\ [Next]_vars => [\A c \in Calls : pc'[c] # "idle" => Out(c)]_vars
  <2> SUFFICES ASSUME AInv, Next, NEW c \in Calls, pc'[c] # "idle" PROVE Out(c)
    OBVIOUS
  <2>1. IInv
    BY DEF AInv
  <2>2. pc[c] = "done" => pc'[c] = "done"
    BY <2>1 DEF Next, Start, Step, Enter, EnterRefused, LockFails, LoadFails, Write, WriteFails, Raise,
       Sync, SyncFails, Boot, BootFails, CrashProcess, PowerLoss, Kill, Finish, CallSteps,
       IInv, TypeInv, TypeOK
  <2>3. CASE pc[c] = "done"
    BY <2>1, <2>2, <2>3, MarkStays DEF Out, Answers, Answered
  <2>4. CASE pc[c] # "done"
    BY <2>1, <2>4, MarkStays, ToldIsMarked, MarkedIsRefused DEF Out
  <2> QED
    BY <2>3, <2>4
<1>2. [\A c \in Calls : pc'[c] # "idle" => Out(c)]_vars
        => [\A c \in Calls :
              pc'[c] # "idle" =>
                LET p == ProcOf(c)'
                IN  /\ Answers(c) /\ reply'[c] = "STORAGE_UNAVAILABLE" => p \in unavailable'
                    /\ p \in unavailable /\ p \in up' => p \in unavailable'
                    /\ p \in unavailable /\ pc[c] \notin {"write", "sync"} =>
                         /\ pc'[c] \notin {"write", "sync"}
                         /\ Answers(c) => reply'[c] \in {"STORAGE_UNAVAILABLE", "NOT_FOUND"}]_vars
  BY DEF Out
<1> QED
  BY <1>1, <1>2, InitA, NextA, PTL DEF Spec, UnavailableStaysOut

-----------------------------------------------------------------------------
(***************************************************************************)
(* What is created, and what an update changes.                            *)
(***************************************************************************)

(* Positions and contents last: only states change, at places an update    *)
(* names.                                                                  *)
LEMMA WriteKeeps ==
  ASSUME SavesAgree, NEW o \in Operation, o \in Offered, NEW f \in Seq(Record), Known(f),
         Decide(o, f).file # None, NEW n \in 1..Len(f)
  PROVE  LET g == Decide(o, f).file
         IN  /\ n \in 1..Len(g)
             /\ g[n].user = f[n].user /\ g[n].ids = f[n].ids /\ g[n].content = f[n].content
             /\ g[n].state # f[n].state =>
                  /\ o.op = "update"
                  /\ o.user \in {None, f[n].user}
                  /\ \E s \in Spaces : f[n].ids[s] = o.name
<1> DEFINE g == Decide(o, f).file
<1>1. CASE o \in IngestCall
  <2>1. g = Append(f, Scoped(o))
    BY <1>1, IngestArrives DEF Decide, IngestCall
  <2>2. Scoped(o) \in Record
    BY <1>1, ScopedType
  <2> HIDE DEF g
  <2>3. n \in 1..Len(g) /\ g[n] = f[n]
    BY <2>1, <2>2
  <2> QED
    BY <2>3 DEF g
<1>2. CASE o \in UpdateCall
  <2> DEFINE hits == {m \in 1..Len(f) :
                        UserMatches(f[m], o.user) /\ \E s \in Spaces : f[m].ids[s] = o.name}
  <2>1. g = [m \in 1..Len(f) |-> IF m \in hits THEN [f[m] EXCEPT !.state = o.state] ELSE f[m]]
    BY <1>2 DEF Decide, UpdateCall, Update, Refuse, Commit
  <2>2. f[n] \in Record /\ Len(f) \in Nat
    OBVIOUS
  <2> HIDE DEF g
  <2>3. Len(g) = Len(f)
    BY <2>1, <2>2
  <2>4. g[n] = IF n \in hits THEN [f[n] EXCEPT !.state = o.state] ELSE f[n]
    BY <2>1
  <2>5. /\ g[n].user = f[n].user /\ g[n].ids = f[n].ids /\ g[n].content = f[n].content
        /\ n \notin hits => g[n].state = f[n].state
    BY <2>2, <2>4 DEF Record
  <2>6. n \in hits => o.user \in {None, f[n].user} /\ \E s \in Spaces : f[n].ids[s] = o.name
    BY DEF UserMatches
  <2>7. o.op = "update"
    BY <1>2 DEF UpdateCall
  <2> QED
    BY <2>3, <2>5, <2>6, <2>7 DEF g
<1>3. CASE o \in ResolveCall
  BY <1>3 DEF Decide, ResolveCall, Resolve, Refuse, Answer
<1>4. CASE o \in SaveCall
  <2>1. Decide(o, f) = Save(o, f) /\ o.record \in Record
    BY <1>4 DEF Decide, SaveCall
  <2>2. g = f \/ g = Append(f, o.record)
    BY <1>4, <2>1, SaveArrives
  <2> HIDE DEF g
  <2>3. n \in 1..Len(g) /\ g[n] = f[n]
    BY <2>1, <2>2
  <2> QED
    BY <2>3 DEF g
<1> QED
  BY <1>1, <1>2, <1>3, <1>4 DEF Operation

(* Power failures apart, a lifecycle state changes only by an update that  *)
(* names the record, by its tenant or by an admin: no other operation and  *)
(* no failure relabels a record.                                           *)
THEOREM LabelsKept ==
  ASSUME SavesAgree
  PROVE  Spec => LabelsOwn
<1> DEFINE Own ==
      crashes' = crashes /\ file # None =>
        \A n \in 1..Len(file) :
          file'[n].state # file[n].state =>
            \E c \in Calls :
              /\ pc[c] = "write"
              /\ OpOf(c).op = "update"
              /\ OpOf(c).user \in {None, file[n].user}
              /\ \E s \in Spaces : file[n].ids[s] = OpOf(c).name
<1>1. SInv /\ [Next]_vars => [Own]_vars
  <2> SUFFICES ASSUME SInv, [Next]_vars, crashes' = crashes, file # None,
                      NEW n \in 1..Len(file), file'[n].state # file[n].state
               PROVE  \E c \in Calls :
                        /\ pc[c] = "write"
                        /\ OpOf(c).op = "update"
                        /\ OpOf(c).user \in {None, file[n].user}
                        /\ \E s \in Spaces : file[n].ids[s] = OpOf(c).name
    OBVIOUS
  <2>0. IInv /\ Known(file)
    BY DEF SInv, IInv, OriginInv, FileInv, KeptInv
  <2>1. ~PowerLoss
    BY <2>0 DEF PowerLoss, Kill, IInv, TypeInv, TypeOK
  <2>2. PICK c \in Calls : Write(c)
    BY <2>0, <2>1, FileSteps DEF Sync, Boot
  <2>3. pc[c] = "write"
    BY <2>2 DEF Write
  <2> QED
    BY <2>0, <2>2, <2>3, Written, WriteKeeps
<1>2. Init => SInv
  BY InitTypes, InitFile, InitOrigin DEF IInv, SInv
<1> QED
  BY <1>1, <1>2, NextSInv, PTL DEF Spec, LabelsOwn

-----------------------------------------------------------------------------
(***************************************************************************)
(* Creation is durable, and happens once.                                  *)
(***************************************************************************)

(* c has created its record, or is about to.                               *)
Creates(c) == reply[c] = "CREATED" /\ (Answered(c) \/ InHand(c))

Created(c) == reply[c] = "CREATED" /\ Answered(c)

(* x and y are of one tenant and share an id.                              *)
Related(x, y) ==
  x.user = y.user /\ \E s \in Spaces : x.ids[s] # None /\ x.ids[s] = y.ids[s]

DurableInv == \A c \in Calls : Created(c) => \A f \in stable : f # None /\ Contains(f, found[c])

OnceInv == \A c, d \in Calls : c # d /\ Creates(c) /\ Creates(d) => ~Related(found[c], found[d])

CInv == AInv /\ OriginInv /\ DurableInv /\ OnceInv

LEMMA InitCreated == Init => DurableInv /\ OnceInv
  BY DEF Init, DurableInv, OnceInv, Creates, Created, Answered, InHand

(* Steps that create nothing and make no other file possible.              *)
LEMMA QuietCreated ==
  ASSUME CInv, stable' \subseteq stable,
         \A c \in Calls : Creates(c)' => Creates(c) /\ UNCHANGED found[c],
         \A c \in Calls : Created(c)' => Created(c)
  PROVE  DurableInv' /\ OnceInv'
<1>1. DurableInv'
  <2> SUFFICES ASSUME NEW c \in Calls, Created(c)', NEW f \in stable'
               PROVE  f # None /\ Contains(f, found[c]')
    BY DEF DurableInv, Contains
  <2>1. Creates(c)'
    BY DEF Creates, Created
  <2> QED
    BY <2>1 DEF CInv, DurableInv
<1>2. OnceInv'
  BY DEF CInv, OnceInv, Related
<1> QED
  BY <1>1, <1>2

(* A record is created under ids that no created record of its tenant has: *)
(* nobody else holds the lock, and what was created before is in the file. *)
LEMMA EnterCreated ==
  ASSUME CInv, NEW c \in Calls, Enter(c)
  PROVE  DurableInv' /\ OnceInv'
<1> DEFINE o == OpOf(c)
           d == Decide(o, file)
<1>1. o \in Operation /\ file \in Seq(Record)
  BY Asked, EnterFile DEF Enter, CInv, AInv, IInv, TypeInv, TypeOK, CallSteps
<1>2. UNCHANGED stable
  BY DEF Enter
<1>3. CASE d.file = None
  <2>1. Finish(c, d.status, d.found)
    BY <1>3 DEF Enter
  <2>2. d.status # "CREATED"
    <3>1. d.status = "CREATED" => Decide(o, file).file # None
      <4>1. CASE o \in IngestCall
        <5>1. /\ Scoped(o) \in Record
              /\ Append(file, Scoped(o)) \in Seq(Record)
          BY <1>1, <4>1, ScopedType
        <5>2. Lookup(file, o.user, o.user, o.ids).status # "CREATED"
          BY <1>1, LookupFinds
        <5> QED
          BY <4>1, <5>1, <5>2 DEF Decide, IngestCall, Ingest, Refuse, Answer, Commit
      <4>2. CASE o \in UpdateCall
        BY <4>2 DEF Decide, UpdateCall, Update, Refuse, Commit
      <4>3. CASE o \in SaveCall
        BY <4>3 DEF Decide, SaveCall, Save, Refuse, Commit
      <4>4. CASE o \in ResolveCall
        BY <4>4 DEF Decide, ResolveCall, Resolve, Refuse, Answer
      <4> QED
        BY <1>1, <4>1, <4>2, <4>3, <4>4 DEF Operation
    <3> QED
      BY <1>3, <3>1
  <2> HIDE DEF d, o
  <2> QED
    BY <1>2, <2>1, <2>2, QuietCreated
       DEF Finish, Creates, Created, Answered, InHand, CInv, AInv, IInv, TypeInv, TypeOK
<1>4. CASE d.file # None
  <2>1. /\ pc' = [pc EXCEPT ![c] = "write"]
        /\ reply' = [reply EXCEPT ![c] = d.status]
        /\ found' = [found EXCEPT ![c] = d.found]
    BY <1>4 DEF Enter
  <2>2. d.status = "CREATED" => o \in IngestCall
    BY <1>1, <1>4, WritingStatus
  <2>3. o \in IngestCall =>
          /\ d.found = Scoped(o)
          /\ \A n \in 1..Len(file) : file[n].user = o.user => ~Log!Meet(file[n].ids, o.ids)
    BY <1>1, <1>4, CreatedStored, IngestArrives DEF Decide, IngestCall
  <2> HIDE DEF d
  <2>4. ASSUME NEW b \in Calls, b # c
        PROVE  UNCHANGED <<pc[b], reply[b], found[b]>>
    BY <2>1, <2>4 DEF CInv, AInv, IInv, TypeInv, TypeOK
  <2>5. pc'[c] = "write" /\ reply'[c] = d.status /\ found'[c] = d.found
    BY <2>1 DEF CInv, AInv, IInv, TypeInv, TypeOK
  <2>6. \A b \in Calls : Created(b)' => Created(b) /\ UNCHANGED found[b]
    BY <2>4, <2>5 DEF Created, Answered
  <2>7. DurableInv'
    BY <1>2, <2>6 DEF CInv, DurableInv, Contains
  <2>8. \A b \in Calls : ~InHand(b)
    BY DEF Enter, Free, CInv, AInv, IInv, TypeInv, TypeOK, InHand
  <2>9. ASSUME NEW b \in Calls, b # c, Creates(b)', Creates(c)'
        PROVE  ~Related(found[b]', found[c]') /\ ~Related(found[c]', found[b]')
    <3>1. Created(b)
      BY <2>4, <2>8, <2>9 DEF Creates, Created, InHand, Answered
    <3>2. Contains(file, found[b])
      BY <3>1 DEF CInv, AInv, IInv, FileInv, KeptInv, DurableInv
    <3>3. o \in IngestCall
      BY <2>2, <2>5, <2>9 DEF Creates
    <3>4. PICK n \in 1..Len(file) : file[n].user = found[b].user /\ file[n].ids = found[b].ids
      BY <3>2 DEF Contains
    <3>5. found[b].user = o.user => ~Log!Meet(found[b].ids, o.ids)
      BY <2>3, <3>3, <3>4
    <3>6. found'[c].user = o.user /\ found'[c].ids = o.ids
      BY <2>3, <2>5, <3>3 DEF Scoped
    <3>7. found'[b] = found[b]
      BY <2>4, <2>9
    <3> QED
      BY <3>5, <3>6, <3>7 DEF Related, Log!Meet, Spaces, Log!Spaces
  <2>10. ASSUME NEW a \in Calls, NEW b \in Calls, a # b, a # c, b # c, Creates(a)', Creates(b)'
         PROVE  ~Related(found[a]', found[b]')
    BY <2>4, <2>10 DEF Creates, Answered, InHand, CInv, OnceInv
  <2>11. OnceInv'
    BY <2>9, <2>10 DEF OnceInv
  <2> QED
    BY <2>7, <2>11
<1> QED
  BY <1>3, <1>4

(* What was created is in every file that a write makes possible.          *)
LEMMA WriteCreated ==
  ASSUME CInv, SavesAgree, NEW c \in Calls, Write(c)
  PROVE  DurableInv' /\ OnceInv'
<1>0. Known(file)
  BY Written DEF CInv, AInv, OriginInv, IInv, FileInv, KeptInv, DecidedInv, Write
<1>1. file' # None /\ file \in Seq(Record)
  BY Written DEF CInv, AInv
<1>2. ASSUME NEW x, Contains(file, x)
      PROVE  Contains(file', x)
  <2>1. PICK n \in 1..Len(file) :
          file[n].user = x.user /\ file[n].ids = x.ids /\ file[n].content = x.content
    BY <1>2 DEF Contains
  <2>2. /\ n \in 1..Len(file')
        /\ file'[n].user = file[n].user /\ file'[n].ids = file[n].ids
        /\ file'[n].content = file[n].content
    BY <1>0, Written, WriteKeeps DEF CInv, AInv
  <2> QED
    BY <2>1, <2>2 DEF Contains
<1>3. stable' = stable \cup {file'} /\ UNCHANGED <<reply, found>>
  BY DEF Write
<1>4. \A b \in Calls : (Created(b)' => Created(b)) /\ (Creates(b)' => Creates(b))
  BY DEF Write, Created, Creates, Answered, InHand, CInv, AInv, IInv, TypeInv, TypeOK
<1>5. DurableInv'
  <2> SUFFICES ASSUME NEW b \in Calls, Created(b)', NEW f \in stable'
               PROVE  f # None /\ Contains(f, found[b]')
    BY DEF DurableInv, Contains
  <2>1. Created(b)
    BY <1>4
  <2>2. Contains(file, found[b])
    BY <2>1 DEF CInv, AInv, IInv, FileInv, KeptInv, DurableInv
  <2>3. CASE f = file'
    BY <1>1, <1>2, <1>3, <2>2, <2>3
  <2>4. CASE f \in stable
    BY <1>3, <2>1, <2>4 DEF CInv, DurableInv
  <2> QED
    BY <1>3, <2>3, <2>4
<1>6. OnceInv'
  BY <1>3, <1>4 DEF CInv, OnceInv, Related
<1> QED
  BY <1>5, <1>6

(* Once the directory is synced, the file is the only one possible.        *)
LEMMA SyncCreated ==
  ASSUME CInv, NEW c \in Calls, Sync(c)
  PROVE  DurableInv' /\ OnceInv'
<1> USE DEF CInv, AInv
<1>1. stable' = {file} /\ UNCHANGED <<reply[c], found[c]>> /\ pc[c] = "sync"
  BY DEF Sync, Finish, IInv, TypeInv, TypeOK
<1>2. \A b \in Calls : b # c => UNCHANGED <<pc[b], reply[b], found[b]>>
  BY DEF Sync, Finish, IInv, TypeInv, TypeOK
<1>3. DurableInv'
  <2> SUFFICES ASSUME NEW b \in Calls, Created(b)'
               PROVE  file # None /\ Contains(file, found[b]')
    BY <1>1 DEF DurableInv, Contains
  <2>1. CASE b = c
    <3>1. reply[c] = "CREATED"
      BY <1>1, <2>1 DEF Created
    <3> QED
      BY <1>1, <2>1, <3>1 DEF HandInv, InHand, Stored
  <2>2. CASE b # c
    BY <1>2, <2>2 DEF Created, Answered, IInv, FileInv, KeptInv, DurableInv
  <2> QED
    BY <2>1, <2>2
<1>4. \A b \in Calls : Creates(b)' => Creates(b) /\ UNCHANGED found[b]
  BY <1>1, <1>2 DEF Creates, Answered, InHand
<1>5. OnceInv'
  BY <1>4 DEF OnceInv, Related
<1> QED
  BY <1>3, <1>5

LEMMA NextCreated == SavesAgree /\ CInv /\ [Next]_vars => DurableInv' /\ OnceInv'
<1> SUFFICES ASSUME SavesAgree, CInv, [Next]_vars PROVE DurableInv' /\ OnceInv'
  OBVIOUS
<1> USE DEF Creates, Created, Answered, InHand, IInv, TypeInv, TypeOK
<1>0. IInv
  BY DEF CInv, AInv
<1>1. ASSUME NEW c \in Calls, NEW p \in Procs, NEW o \in Offered, Start(c, p, o)
      PROVE  DurableInv' /\ OnceInv'
  BY <1>0, <1>1, QuietCreated DEF Start, Finish
<1>2. ASSUME NEW c \in Calls, EnterRefused(c) \/ Fails(c)
      PROVE  DurableInv' /\ OnceInv'
  BY <1>0, <1>2, QuietCreated DEF EnterRefused, Fails, LockFails, LoadFails, Raise, Finish, Unavailable
<1>3. ASSUME NEW c \in Calls, WriteFails(c)
      PROVE  DurableInv' /\ OnceInv'
  BY <1>0, <1>3, QuietCreated DEF WriteFails, Finish
<1>4. ASSUME NEW c \in Calls, SyncFails(c)
      PROVE  DurableInv' /\ OnceInv'
  <2>1. OpOf(c).op # "ingest" => reply[c] # "CREATED"
    BY <1>4 DEF SyncFails, CInv, AInv, HandInv, IngestCall
  <2> QED
    BY <1>0, <1>4, <2>1, QuietCreated DEF SyncFails, Finish
<1>5. ASSUME NEW p \in Procs, Boot(p) \/ BootFails(p)
      PROVE  DurableInv' /\ OnceInv'
  <2>1. CASE UNCHANGED stable
    BY <1>5, <2>1, QuietCreated DEF Boot, BootFails
  <2>2. CASE Boot(p) /\ file = None
    <3>1. None \in stable
      BY <1>0, <2>2 DEF FileInv, KeptInv
    <3>2. \A c \in Calls : ~Created(c)
      BY <3>1 DEF CInv, DurableInv
    <3>3. \A c \in Calls : ~Creates(c)
      BY <1>0, <2>2, <3>2 DEF Boot
    <3> QED
      BY <2>2, <3>2, <3>3 DEF Boot, DurableInv, OnceInv
  <2> QED
    BY <1>5, <2>1, <2>2 DEF Boot, BootFails
<1>6. ASSUME NEW P \in SUBSET Procs, Kill(P), stable' \subseteq stable
      PROVE  DurableInv' /\ OnceInv'
  BY <1>0, <1>6, QuietCreated DEF Kill
<1>7. CASE UNCHANGED vars
  BY <1>7, QuietCreated DEF vars
<1> QED
  BY <1>1, <1>2, <1>3, <1>4, <1>5, <1>6, <1>7, EnterCreated, WriteCreated, SyncCreated
     DEF Next, Step, Fails, CrashProcess, PowerLoss

LEMMA CreatedCorrect ==
  ASSUME SavesAgree
  PROVE  Spec => [](DurableInv /\ OnceInv)
<1>1. Init => CInv
  BY InitA, InitOrigin, InitCreated DEF CInv
<1>2. CInv /\ [Next]_vars => CInv'
  BY NextA, NextOrigin, NextCreated DEF CInv, SInv, AInv
<1>3. CInv => DurableInv /\ OnceInv
  BY DEF CInv
<1> QED
  BY <1>1, <1>2, <1>3, PTL DEF Spec

(* What an ingestion answered CREATED survives every power failure, in     *)
(* whatever state an update has brought it to.                             *)
THEOREM CreatedSurvives ==
  ASSUME SavesAgree
  PROVE  Spec => []CreatedIsDurable
<1>1. DurableInv => CreatedIsDurable
  BY DEF DurableInv, CreatedIsDurable, DurablyAnswered, Created
<1> QED
  BY <1>1, CreatedCorrect, PTL

(* A tenant's publication, event or signal is answered CREATED only once,  *)
(* in whatever processes it is sent, before and after power failures: a    *)
(* second creation would have to miss a record that is durable.            *)
THEOREM CreationOnce ==
  ASSUME SavesAgree
  PROVE  Spec => []CreatedOnce
<1>1. OnceInv => CreatedOnce
  BY DEF OnceInv, CreatedOnce, Creates, Related
<1> QED
  BY <1>1, CreatedCorrect, PTL
=============================================================================
