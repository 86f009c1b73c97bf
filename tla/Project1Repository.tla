------------------------- MODULE Project1Repository -------------------------
(***************************************************************************)
(* The repository of authoritative Project 1 records:                      *)
(* src/platform/adapters/project1_repository.py, as the gateway service    *)
(* src/platform/services/project1_gateway.py calls it.                     *)
(*                                                                         *)
(* Several processes share one JSON file.  Every operation takes the       *)
(* process's lock and the file lock, reads the file, decides, and, when it *)
(* changes something, writes a whole new file: a temporary file that is    *)
(* synced, a rename, and a sync of the directory.  What a process has in   *)
(* memory is read anew by each operation, so only its file counts here.    *)
(***************************************************************************)
EXTENDS Naturals, Sequences, FiniteSets

CONSTANTS
  Users,
  Names,            \* publication, event and signal ids
  IntegrationIds,
  Contents,         \* the authoritative content apart from the three ids
  States,           \* lifecycle states
  Procs,            \* the processes that open the repository
  Calls,            \* the calls, one thread each
  Offered,          \* what a call can be, a set of Operation
  InitialFiles,     \* what the file can be at first: sequences of records, None
  IntId,            \* IntId[u][n]: f"{user_id}:{n}", or n if it begins so
  MaxCrashes,       \* bound: process crashes and power failures
  MaxFaults,        \* bound: failing system calls
  None

Spaces == {"pub", "event", "sig"}

Lineage == [pub: Names \cup {None}, event: Names \cup {None}, sig: Names]

(* user is None in a record of an old file without a tenant.               *)
Record ==
  [user: Users \cup {None}, int: IntegrationIds, ids: Lineage, content: Contents, state: States]

IngestCall == [op: {"ingest"}, user: Users, ids: Lineage, content: Contents, state: States]
UpdateCall == [op: {"update"}, user: Users \cup {None}, name: Names, state: States]
SaveCall == [op: {"save"}, record: {x \in Record : x.user # None}]
ResolveCall == [op: {"resolve"}, user: Users \cup {None}, pub: Names]
Operation == IngestCall \cup UpdateCall \cup SaveCall \cup ResolveCall

ASSUME RepositoryAssumption ==
  /\ Offered \subseteq Operation
  /\ InitialFiles \subseteq Seq(Record) \cup {None}
  /\ IntId \in [Users -> [Names -> IntegrationIds]]
  /\ MaxCrashes \in Nat
  /\ MaxFaults \in Nat

ASSUME NoneAssumption ==
  /\ None \notin Users
  /\ None \notin Calls
  /\ None \notin Record
  /\ None \notin Seq(Record)
  /\ None \notin [o: Offered, p: Procs]

VARIABLES
  file,         \* the JSON file as it is read, or None while there is none
  stable,       \* the contents a power failure can leave in its place
  up,           \* the processes that run
  unavailable,  \* the processes whose repository has _is_unavailable
  holder,       \* the call that holds the file lock, or None
  pc,           \* the next step of each call
  call,         \* what it is asked to do, and in which process
  todo,         \* the file it is about to write
  found,        \* the record it answers with
  reply,        \* its status
  crashes, faults

vars == <<file, stable, up, unavailable, holder, pc, call, todo, found, reply, crashes, faults>>

CallSteps == {"enter", "write", "sync", "raised"}

-----------------------------------------------------------------------------
(***************************************************************************)
(* The lookup in a file.                                                   *)
(***************************************************************************)

(* _are_contents_identical: the three ids are part of the content.         *)
Identical(x, y) == x.ids = y.ids /\ x.content = y.content

(* Mutant: records of other tenants match, too.                            *)
MatchesAnyUser(x, u) == TRUE

(* _user_matches                                                           *)
UserMatches(x, u) == u = None \/ x.user = u

(* The tenants and ids that the index finds twice with different contents. *)
AmbiguousKeys(f) ==
  {k \in (Users \cup {None}) \X Names :
     \E s \in Spaces, m, n \in 1..Len(f) :
       /\ f[m].user = k[1] /\ f[m].ids[s] = k[2]
       /\ f[n].user = k[1] /\ f[n].ids[s] = k[2]
       /\ ~Identical(f[m], f[n])}

(* Mutant: only the publication id identifies a record.                    *)
MeetsByPublication(a, b) == a.pub # None /\ a.pub = b.pub

Meets(a, b) == \E s \in Spaces : a[s] # None /\ a[s] = b[s]

(* The pairwise checks: one id is shared and another one differs.          *)
Clashes(a, b) ==
  Meets(a, b) /\ \E s \in Spaces : a[s] # None /\ b[s] # None /\ a[s] # b[s]

Hits(f, u, ids) == {n \in 1..Len(f) : UserMatches(f[n], u) /\ Meets(f[n].ids, ids)}

FirstOf(S) == CHOOSE n \in S : \A m \in S : n <= m

(* Mutant: nothing is ambiguous or collides.                               *)
LookupFirst(f, u, owner, ids) ==
  LET hits == Hits(f, u, ids)
  IN  IF hits = {} THEN [status |-> "ABSENT", at |-> None]
      ELSE [status |-> "FOUND", at |-> FirstOf(hits)]

(* find_authoritative_lookup_unlocked; owner is the effective user of the  *)
(* keys, u the user whose records may match (None: everybody's).           *)
Lookup(f, u, owner, ids) ==
  LET hits == Hits(f, u, ids)
  IN  IF \E s \in Spaces : <<owner, ids[s]>> \in AmbiguousKeys(f)
        THEN [status |-> "IDENTITY_AMBIGUOUS", at |-> None]
      ELSE IF \E n \in hits : Clashes(f[n].ids, ids)
        THEN [status |-> "IDENTITY_COLLISION", at |-> None]
      ELSE IF hits = {}
        THEN [status |-> "ABSENT", at |-> None]
      ELSE IF \E m, n \in hits : ~Identical(f[m], f[n])
        THEN [status |-> "IDENTITY_AMBIGUOUS", at |-> None]
      ELSE [status |-> "FOUND", at |-> FirstOf(hits)]

-----------------------------------------------------------------------------
(***************************************************************************)
(* What each operation decides on the file it has read: a status, and the  *)
(* file to write, or None.                                                 *)
(***************************************************************************)
Refuse(status) == [status |-> status, found |-> None, file |-> None]
Answer(status, x) == [status |-> status, found |-> x, file |-> None]
Commit(status, x, f) == [status |-> status, found |-> x, file |-> f]

FirstId(ids) == IF ids.pub # None THEN ids.pub ELSE IF ids.event # None THEN ids.event ELSE ids.sig

(* The gateway scopes a payload to its caller.                             *)
Scoped(c) ==
  [user |-> c.user, int |-> IntId[c.user][FirstId(c.ids)], ids |-> c.ids,
   content |-> c.content, state |-> c.state]

(* Mutant: the content of the existing record is not compared.             *)
IngestAnyContent(c, f) ==
  LET x == Scoped(c)
      res == Lookup(f, c.user, c.user, c.ids)
  IN  IF res.status \notin {"FOUND", "ABSENT"} THEN Refuse(res.status)
      ELSE IF res.status = "FOUND" THEN Answer("DUPLICATE_ACCEPTED", f[res.at])
      ELSE IF \E n \in 1..Len(f) : f[n].int = x.int THEN Refuse("IDENTITY_COLLISION")
      ELSE Commit("CREATED", x, Append(f, x))

(* ingest_authoritative_record                                             *)
Ingest(c, f) ==
  LET x == Scoped(c)
      res == Lookup(f, c.user, c.user, c.ids)
  IN  IF res.status \notin {"FOUND", "ABSENT"} THEN Refuse(res.status)
      ELSE IF res.status = "FOUND"
        THEN IF Identical(x, f[res.at]) THEN Answer("DUPLICATE_ACCEPTED", f[res.at])
             ELSE Answer("INTEGRITY_CONFLICT", f[res.at])
      ELSE IF \E n \in 1..Len(f) : f[n].int = x.int THEN Refuse("IDENTITY_COLLISION")
      ELSE Commit("CREATED", x, Append(f, x))

(* Mutant: a name may select several lineages.                             *)
UpdateAllLineages(c, f) ==
  LET hits == {n \in 1..Len(f) :
                 UserMatches(f[n], c.user) /\ \E s \in Spaces : f[n].ids[s] = c.name}
  IN  IF hits = {} THEN Refuse("NOT_FOUND")
      ELSE Commit("UPDATED", None,
             [n \in 1..Len(f) |-> IF n \in hits THEN [f[n] EXCEPT !.state = c.state] ELSE f[n]])

(* update_lifecycle_state: the name may be any of the three ids, and must  *)
(* select records of one lineage.                                          *)
Update(c, f) ==
  LET hits == {n \in 1..Len(f) :
                 UserMatches(f[n], c.user) /\ \E s \in Spaces : f[n].ids[s] = c.name}
  IN  IF hits = {} \/ \E m, n \in hits : f[m].ids # f[n].ids THEN Refuse("NOT_FOUND")
      ELSE Commit("UPDATED", None,
             [n \in 1..Len(f) |-> IF n \in hits THEN [f[n] EXCEPT !.state = c.state] ELSE f[n]])

(* save_record: a record that its ids find must be the same in all that is *)
(* authoritative; otherwise the integration id decides what is replaced.   *)
Save(c, f) ==
  LET x == c.record
      res == Lookup(f, x.user, x.user, x.ids)
      own == {n \in 1..Len(f) : f[n].int = x.int /\ UserMatches(f[n], x.user)}
  IN  IF \E n \in 1..Len(f) : f[n].int = x.int /\ ~UserMatches(f[n], x.user)
        THEN Refuse("REJECTED")
      ELSE IF res.status \notin {"FOUND", "ABSENT"} THEN Refuse("REJECTED")
      ELSE IF res.status = "FOUND" /\ f[res.at] # x THEN Refuse("REJECTED")
      ELSE IF own = {} THEN Commit("SAVED", x, Append(f, x))
      ELSE Commit("SAVED", x, [f EXCEPT ![FirstOf(own)] = x])

(* resolve_authoritative_publication; the keys of an admin are "global".   *)
Resolve(c, f) ==
  LET ids == [pub |-> c.pub, event |-> None, sig |-> None]
      res == Lookup(f, c.user, c.user, ids)
  IN  IF res.status = "FOUND" THEN Answer("RESOLVED", f[res.at]) ELSE Refuse("NOT_FOUND")

Decide(c, f) ==
  CASE c.op = "ingest" -> Ingest(c, f)
    [] c.op = "update" -> Update(c, f)
    [] c.op = "save" -> Save(c, f)
    [] c.op = "resolve" -> Resolve(c, f)

-----------------------------------------------------------------------------
(***************************************************************************)
(* The calls.                                                              *)
(***************************************************************************)

OpOf(c) == call[c].o

ProcOf(c) == call[c].p

(* A failing system call, as long as the bound allows one.                 *)
Fault == faults < MaxFaults /\ faults' = faults + 1

Finish(c, status, x) ==
  /\ pc' = [pc EXCEPT ![c] = "done"]
  /\ reply' = [reply EXCEPT ![c] = status]
  /\ found' = [found EXCEPT ![c] = x]

(* The check of _is_unavailable that needs no lock.                        *)
Start(c, p, o) ==
  /\ pc[c] = "idle"
  /\ p \in up
  /\ call' = [call EXCEPT ![c] = [o |-> o, p |-> p]]
  /\ IF p \in unavailable
       THEN Finish(c, "STORAGE_UNAVAILABLE", None)
       ELSE pc' = [pc EXCEPT ![c] = "enter"] /\ UNCHANGED <<found, reply>>
  /\ UNCHANGED <<file, stable, up, unavailable, holder, todo, crashes, faults>>

(* The answer when storage turns out to be unavailable under the lock:     *)
(* find_authoritative_record returns what it returns for no record.        *)
Unavailable(c) == IF OpOf(c).op = "resolve" THEN "NOT_FOUND" ELSE "STORAGE_UNAVAILABLE"

(* Mutant: _is_unavailable is not looked at again under the lock.          *)
StillAvailableUnchecked(c) == TRUE

(* The check after _load_from_storage_unlocked, which reads nothing when   *)
(* the repository is unavailable. The lookup looks once more: a flag set   *)
(* in between by another thread refuses the call in the same way.          *)
StillAvailable(c) == ProcOf(c) \notin unavailable

(* The process's own lock is free.                                         *)
FreeOfOwnThreads(c) == holder # None => ProcOf(holder) # ProcOf(c)

(* with self._lock, _ProcessLock(...): the file lock is free, too. Mutant: *)
(* FreeOfOwnThreads, where the file lock keeps no process out.             *)
Free(c) == holder = None

EnterRefused(c) ==
  /\ pc[c] = "enter"
  /\ Free(c)
  /\ ~StillAvailable(c)
  /\ Finish(c, Unavailable(c), None)
  /\ UNCHANGED <<file, stable, up, unavailable, holder, call, todo, crashes, faults>>

(* The lock file cannot be opened or locked, which may happen while        *)
(* another process holds it.                                               *)
LockFails(c) ==
  /\ pc[c] = "enter"
  /\ FreeOfOwnThreads(c)
  /\ Fault
  /\ pc' = [pc EXCEPT ![c] = "raised"]
  /\ UNCHANGED <<file, stable, up, unavailable, holder, call, todo, found, reply, crashes>>

(* The data file cannot be read.                                           *)
LoadFails(c) ==
  /\ pc[c] = "enter"
  /\ Free(c)
  /\ StillAvailable(c)
  /\ Fault
  /\ unavailable' = unavailable \cup {ProcOf(c)}
  /\ Finish(c, Unavailable(c), None)
  /\ UNCHANGED <<file, stable, up, holder, call, todo, crashes>>

(* The lock is taken, the file read and the decision made.                 *)
Enter(c) ==
  /\ pc[c] = "enter"
  /\ Free(c)
  /\ StillAvailable(c)
  /\ LET d == Decide(OpOf(c), file)
     IN  IF d.file = None
           THEN /\ Finish(c, d.status, d.found)
                /\ UNCHANGED <<holder, todo>>
           ELSE /\ pc' = [pc EXCEPT ![c] = "write"]
                /\ holder' = c
                /\ todo' = [todo EXCEPT ![c] = d.file]
                /\ reply' = [reply EXCEPT ![c] = d.status]
                /\ found' = [found EXCEPT ![c] = d.found]
  /\ UNCHANGED <<file, stable, up, unavailable, call, crashes, faults>>

(* os.replace: the whole new file takes the place of the old one.          *)
Write(c) ==
  /\ pc[c] = "write"
  /\ file' = todo[c]
  /\ stable' = stable \cup {todo[c]}
  /\ todo' = [todo EXCEPT ![c] = None]
  /\ pc' = [pc EXCEPT ![c] = "sync"]
  /\ UNCHANGED <<up, unavailable, holder, call, found, reply, crashes, faults>>

(* Writing or renaming the temporary file fails: an ingestion is taken     *)
(* back and answered; the other operations let the exception out.          *)
WriteFails(c) ==
  /\ pc[c] = "write"
  /\ Fault
  /\ todo' = [todo EXCEPT ![c] = None]
  /\ holder' = None
  /\ IF OpOf(c).op = "ingest"
       THEN Finish(c, "PERSISTENCE_FAILURE", None)
       ELSE pc' = [pc EXCEPT ![c] = "raised"] /\ UNCHANGED <<found, reply>>
  /\ UNCHANGED <<file, stable, up, unavailable, call, crashes>>

(* The except clause, outside both locks: other calls of the process may   *)
(* have taken them since.                                                  *)
Raise(c) ==
  /\ pc[c] = "raised"
  /\ unavailable' = unavailable \cup {ProcOf(c)}
  /\ Finish(c, "STORAGE_UNAVAILABLE", None)
  /\ UNCHANGED <<file, stable, up, holder, call, todo, crashes, faults>>

(* The directory is synced, the lock released and the answer given.        *)
Sync(c) ==
  /\ pc[c] = "sync"
  /\ stable' = {file}
  /\ holder' = None
  /\ Finish(c, reply[c], found[c])
  /\ UNCHANGED <<file, up, unavailable, call, todo, crashes, faults>>

(* Mutant: the lock is not given back.                                     *)
SyncFailsHolding(c) ==
  /\ pc[c] = "sync"
  /\ Fault
  /\ Finish(c, reply[c], found[c])
  /\ UNCHANGED <<file, stable, up, unavailable, holder, call, todo, crashes>>

(* Mutant: the result of the directory's sync is ignored.                  *)
SyncFailsUnnoticed(c) ==
  /\ pc[c] = "sync"
  /\ Fault
  /\ holder' = None
  /\ Finish(c, reply[c], found[c])
  /\ UNCHANGED <<file, stable, up, unavailable, call, todo, crashes>>

(* The directory is not synced: only an ingestion says so.                 *)
SyncFails(c) ==
  /\ pc[c] = "sync"
  /\ Fault
  /\ holder' = None
  /\ Finish(c, IF OpOf(c).op = "ingest" THEN "DURABILITY_UNCERTAIN" ELSE reply[c], found[c])
  /\ UNCHANGED <<file, stable, up, unavailable, call, todo, crashes>>

-----------------------------------------------------------------------------
(***************************************************************************)
(* Processes.                                                              *)
(***************************************************************************)

(* The constructor takes the lock and reads the file; where there is none  *)
(* it writes an empty one, and ignores whether the directory was synced.   *)
Boot(p) ==
  /\ p \notin up
  /\ holder = None
  /\ up' = up \cup {p}
  /\ unavailable' = unavailable \ {p}
  /\ IF file = None
       THEN file' = <<>> /\ stable' \in {{<<>>}, stable \cup {<<>>}}
       ELSE UNCHANGED <<file, stable>>
  /\ UNCHANGED <<holder, pc, call, todo, found, reply, crashes, faults>>

(* The lock, the file or the flush of the empty file fails: the process    *)
(* runs with a repository that is unavailable.                             *)
BootFails(p) ==
  /\ p \notin up
  /\ Fault
  /\ up' = up \cup {p}
  /\ unavailable' = unavailable \cup {p}
  /\ UNCHANGED <<file, stable, holder, pc, call, todo, found, reply, crashes>>

(* The calls of the processes in P die; an answer given is given.          *)
Kill(P) ==
  LET dead == {c \in Calls : pc[c] \in CallSteps /\ ProcOf(c) \in P}
  IN  /\ crashes < MaxCrashes
      /\ crashes' = crashes + 1
      /\ up' = up \ P
      /\ unavailable' = unavailable \ P
      /\ pc' = [c \in Calls |-> IF c \in dead THEN "dead" ELSE pc[c]]
      /\ todo' = [c \in Calls |-> IF c \in dead THEN None ELSE todo[c]]
      /\ reply' = [c \in Calls |-> IF c \in dead THEN None ELSE reply[c]]
      /\ found' = [c \in Calls |-> IF c \in dead THEN None ELSE found[c]]
      /\ holder' = IF holder \in dead THEN None ELSE holder
      /\ UNCHANGED <<call, faults>>

CrashProcess(p) ==
  /\ p \in up
  /\ Kill({p})
  /\ UNCHANGED <<file, stable>>

PowerLoss ==
  /\ up # {}
  /\ Kill(Procs)
  /\ file' \in stable
  /\ stable' = {file'}

Init ==
  /\ file \in InitialFiles
  /\ stable = {file}
  /\ up = {}
  /\ unavailable = {}
  /\ holder = None
  /\ pc = [c \in Calls |-> "idle"]
  /\ call = [c \in Calls |-> None]
  /\ todo = [c \in Calls |-> None]
  /\ found = [c \in Calls |-> None]
  /\ reply = [c \in Calls |-> None]
  /\ crashes = 0
  /\ faults = 0

Step(c) ==
  \/ Enter(c) \/ EnterRefused(c) \/ LockFails(c) \/ LoadFails(c)
  \/ Write(c) \/ WriteFails(c) \/ Raise(c)
  \/ Sync(c) \/ SyncFails(c)

Next ==
  \/ \E c \in Calls, p \in Procs, o \in Offered : Start(c, p, o)
  \/ \E c \in Calls : Step(c)
  \/ \E p \in Procs : Boot(p) \/ BootFails(p) \/ CrashProcess(p)
  \/ PowerLoss

Spec == Init /\ [][Next]_vars

(* Threads and processes that run are scheduled, and a waiter gets the     *)
(* lock once nobody else wants it: each call of the model is made once.    *)
FairSpec == Spec /\ \A c \in Calls : WF_vars(Step(c))

-----------------------------------------------------------------------------
(***************************************************************************)
(* Properties.                                                             *)
(***************************************************************************)

Answered(c) == pc[c] = "done"

(* c is answered in this step.                                             *)
Answers(c) == ~Answered(c) /\ Answered(c)'

Statuses ==
  {"CREATED", "DUPLICATE_ACCEPTED", "INTEGRITY_CONFLICT", "IDENTITY_AMBIGUOUS",
   "IDENTITY_COLLISION", "PERSISTENCE_FAILURE", "DURABILITY_UNCERTAIN",
   "STORAGE_UNAVAILABLE", "UPDATED", "SAVED", "REJECTED", "RESOLVED", "NOT_FOUND"}

(* Every variable has its type; the one call between reading and releasing *)
(* the file is the holder of the lock, and it holds a file to write until  *)
(* it has written it.                                                      *)
TypeOK ==
  /\ file \in Seq(Record) \cup {None}
  /\ stable \subseteq Seq(Record) \cup {None}
  /\ up \subseteq Procs
  /\ unavailable \subseteq up
  /\ holder \in Calls \cup {None}
  /\ pc \in [Calls -> {"idle", "done", "dead"} \cup CallSteps]
  /\ call \in [Calls -> [o: Offered, p: Procs] \cup {None}]
  /\ todo \in [Calls -> Seq(Record) \cup {None}]
  /\ found \in [Calls -> Record \cup {None}]
  /\ reply \in [Calls -> Statuses \cup {None}]
  /\ crashes \in 0..MaxCrashes
  /\ faults \in 0..MaxFaults
  /\ \A c \in Calls :
       /\ pc[c] \in {"write", "sync"} <=> holder = c
       /\ pc[c] = "write" <=> todo[c] # None

AsLog(f) == IF f = None THEN <<>> ELSE f

Arriving ==
  {Scoped(o) : o \in {x \in Offered : x.op = "ingest"}}
    \cup {o.record : o \in {x \in Offered : x.op = "save"}}

(* What the records of every file are in all but their states.             *)
Origins == Arriving \cup UNION {{f[n] : n \in 1..Len(f)} : f \in InitialFiles \ {None}}

(* A hypothesis on the calls: who saves a record under an integration id   *)
(* that its tenant has in use shares one of the three ids with its user.   *)
(* Without it save_record replaces a record by an unrelated one.  The      *)
(* gateway makes the integration id of the first of the three ids.         *)
SavesAgree ==
  \A o \in {p \in Offered : p.op = "save"}, y \in Origins :
    y.user = o.record.user /\ y.int = o.record.int =>
      \E s \in Spaces : y.ids[s] # None /\ y.ids[s] = o.record.ids[s]

(* The file implements the abstract log: whatever processes, crashes,      *)
(* power failures and failing system calls do, a record arrives once under *)
(* ids that are new to its tenant, keeps its content for good, and only    *)
(* the records of one lineage change state together.                       *)
Log ==
  INSTANCE AuthoritativeLog WITH
    Arrivals <- Arriving,
    InitialLogs <- {AsLog(f) : f \in InitialFiles},
    log <- AsLog(file),
    kept <- {AsLog(f) : f \in stable}

ImplementsLog == Log!LogSpec

(* A tenant's publication, event or signal is answered CREATED only once,  *)
(* in whatever processes it is sent, before and after power failures.      *)
CreatedOnce ==
  \A c, d \in Calls :
    /\ c # d
    /\ Answered(c) /\ reply[c] = "CREATED"
    /\ Answered(d) /\ reply[d] = "CREATED"
    /\ found[c].user = found[d].user
    => ~\E s \in Spaces : found[c].ids[s] # None /\ found[c].ids[s] = found[d].ids[s]

(* x is in f, in whatever lifecycle state it is by now.                    *)
Contains(f, x) ==
  \E n \in 1..Len(f) :
    f[n].user = x.user /\ f[n].ids = x.ids /\ f[n].content = x.content

DurablyAnswered(statuses) ==
  \A c \in Calls :
    Answered(c) /\ reply[c] \in statuses => \A f \in stable : f # None /\ Contains(f, found[c])

(* What an ingestion answered CREATED survives every power failure.        *)
CreatedIsDurable == DurablyAnswered({"CREATED"})

(* When an ingestion is accepted, its tenant's record is in the file with  *)
(* the content that was sent, and no record with another content shares an *)
(* id with it.                                                             *)
AcceptedIsStored ==
  [][\A c \in Calls :
       Answers(c) /\ reply'[c] \in {"CREATED", "DUPLICATE_ACCEPTED", "DURABILITY_UNCERTAIN"} =>
         LET o == OpOf(c)
             sent == Scoped(o)
         IN  /\ Contains(file', sent)
             /\ \A n \in 1..Len(file') :
                  file'[n].user = o.user
                  /\ (\E s \in Spaces : o.ids[s] # None /\ file'[n].ids[s] = o.ids[s])
                  => file'[n].ids = o.ids /\ file'[n].content = o.content]_vars

(* A resolved publication has one content: for a tenant among its own      *)
(* records, for an admin among those of all tenants.                       *)
ResolvedIsUnique ==
  [][\A c \in Calls :
       Answers(c) /\ reply'[c] = "RESOLVED" =>
         LET o == OpOf(c)
         IN  \A n \in 1..Len(file) :
               o.user \in {None, file[n].user} /\ file[n].ids.pub = o.pub =>
                 file[n].ids = found'[c].ids /\ file[n].content = found'[c].content]_vars

(* Outside power failures a lifecycle state changes only by an update that *)
(* names the record, by its tenant or by an admin.                         *)
LabelsOwn ==
  [][crashes' = crashes /\ file # None =>
       \A n \in 1..Len(file) :
         file'[n].state # file[n].state =>
           \E c \in Calls :
             /\ pc[c] = "write"
             /\ OpOf(c).op = "update"
             /\ OpOf(c).user \in {None, file[n].user}
             /\ \E s \in Spaces : file[n].ids[s] = OpOf(c).name]_vars

(* Once a repository is marked unavailable it stays so until its process   *)
(* ends, and no later call, and none that was waiting for the lock, writes *)
(* the file or answers from it; a call past its last check may finish.     *)
(* Who is told that the storage is unavailable leaves the mark behind.     *)
UnavailableStaysOut ==
  [][\A c \in Calls :
       pc'[c] # "idle" =>
         LET p == ProcOf(c)'
         IN  /\ Answers(c) /\ reply'[c] = "STORAGE_UNAVAILABLE" => p \in unavailable'
             /\ p \in unavailable /\ p \in up' => p \in unavailable'
             /\ p \in unavailable /\ pc[c] \notin {"write", "sync"} =>
                  /\ pc'[c] \notin {"write", "sync"}
                  /\ Answers(c) => reply'[c] \in {"STORAGE_UNAVAILABLE", "NOT_FOUND"}]_vars

(* A call that has started is answered or dies with its process.           *)
CallsAnswered ==
  \A c \in Calls : (pc[c] \in CallSteps) ~> (pc[c] \in {"done", "dead"})

-----------------------------------------------------------------------------
(***************************************************************************)
(* What the sources say and the code does not do.                          *)
(***************************************************************************)

(* The port's ingest_authoritative_record: "durably persist record".       *)
(* DUPLICATE_ACCEPTED is the other success an ingestion is answered.       *)
AcceptedIsDurable == DurablyAnswered({"CREATED", "DUPLICATE_ACCEPTED"})
=============================================================================
