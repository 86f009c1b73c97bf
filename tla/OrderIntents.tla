---------------------------- MODULE OrderIntents ----------------------------
(***************************************************************************)
(* Order intents: the service of src/platform/services/order_intent.py on  *)
(* top of the file backed repository of                                    *)
(* src/platform/adapters/order_intent_repository.py, as the threads of the *)
(* HTTP server run them.                                                   *)
(*                                                                         *)
(* Every request is a thread of its own (ThreadingHTTPServer).  A request  *)
(* is cut where another thread can run: the service lock guards only the   *)
(* canonical creation, so create_order_intent and                          *)
(* transition_order_intent_state read and write the repository in separate *)
(* steps.  One repository call is one step: it holds the repository lock.  *)
(***************************************************************************)
EXTENDS Naturals, Sequences, FiniteSets

CONSTANTS
  Users,            \* user ids
  Admins,           \* the users for whom user.is_admin holds
  Permitted,        \* the users the security boundary lets create and update intents
  Pubs,             \* publication ids of Project 1
  Contents,         \* authoritative contents a publication record can carry
  Usable,           \* the contents with a complete lineage and a buy or sell direction
  Sound,            \* the usable contents that OrderIntent's constructor accepts
  Keys,             \* idempotency keys
  JoinedKeys,       \* the strings f"{user_id}:{idempotency_key}"
  Ids,              \* order intent ids (uuid4)
  Requests,         \* the requests, one handler thread each
  Offered,          \* the calls a request can make, a set of Call
  InitialFile,      \* the intents file when the server is first started
  AuditWired,       \* is audit_control handed to the repository (server.py does)
  MaxCrashes,       \* bound: process crashes
  MaxFaults,        \* bound: flushes that fail
  DefaultKey,       \* DefaultKey[u][p]: f"idemp_pub_{user_id}_{pub_id}"
  Join,             \* Join[u][k]: the string that indexes the repository
  None

Terminal == {"REJECTED", "CANCELLED", "EXPIRED"}

LifecycleStates == {"STAGED"} \cup Terminal

(* A canonical intent carries a publication and its content, of complete   *)
(* lineage, and has no authorization_id; any other intent carries neither  *)
(* and has one.                                                            *)
Intent ==
  {x \in [user: Users, key: Keys, pub: Pubs \cup {None},
          content: Sound \cup {None}, state: LifecycleStates] :
     x.pub = None <=> x.content = None}

IntentTable == [Ids -> Intent \cup {None}]

(* The JSON file: the intents and their order in the list.                 *)
File == [intents: IntentTable, order: Seq(Ids)]

CanonicalCall == [op: {"canonical"}, user: Users, pub: Pubs, key: Keys \cup {None}]
(* granted: the AutonomousAuthorization is granted and complete.           *)
CreateCall == [op: {"create"}, user: Users, key: Keys, granted: BOOLEAN]
TransitionCall == [op: {"transition"}, user: Users, id: Ids, target: LifecycleStates]
Call == CanonicalCall \cup CreateCall \cup TransitionCall

(***************************************************************************)
(* What the configuration must provide.  A file may be left by an earlier  *)
(* build, so it is not assumed to hold one intent per publication.         *)
(***************************************************************************)
ASSUME ConstantsAssumption ==
  /\ Admins \subseteq Users
  /\ Permitted \subseteq Users
  /\ Usable \subseteq Contents
  /\ Sound \subseteq Usable
  /\ Offered \subseteq Call
  /\ InitialFile \in File \cup {None}
  /\ AuditWired \in BOOLEAN
  /\ MaxCrashes \in Nat
  /\ MaxFaults \in Nat
  /\ DefaultKey \in [Users -> [Pubs -> Keys]]
  /\ Join \in [Users -> [Keys -> JoinedKeys]]

ASSUME NoneAssumption ==
  /\ None \notin Intent
  /\ None \notin File
  /\ None \notin Ids
  /\ None \notin Users
  /\ None \notin Pubs
  /\ None \notin Contents
  /\ None \notin Keys
  /\ None \notin Call

ASSUME ReplyAssumption == None # "ok"

VARIABLES
  proc,       \* the server process: "down", "up", or "failed" (it exited on start)
  p1,         \* p1[u][p]: the content Project 1's record resolves to, or None
  mem,        \* repository _intents_by_id
  memOrder,   \* its insertion order
  idem,       \* repository _idempotency_map
  pubs,       \* repository _publication_map
  ambiguous,  \* repository _ambiguous_publication_keys
  svc,        \* service _intents_by_id
  svcIdem,    \* service _idempotency_map
  svcLock,    \* the request that holds the service lock, or None
  disk,       \* the intents file, or None while there is none
  used,       \* the uuids drawn so far
  pc,         \* the next step of each request
  call,       \* the call of each request
  record,     \* the Project 1 content a request resolved
  hid, hand,  \* the intent id and the intent a request carries between steps
  reply,      \* the outcome reported to the client
  crashes, faults

serviceVars == <<svc, svcIdem>>
repoVars == <<mem, memOrder, idem, pubs, ambiguous, disk>>
handVars == <<call, record, hid, hand>>
bounds == <<crashes, faults>>
vars == <<proc, p1, repoVars, serviceVars, svcLock, used, pc, handVars, reply, bounds>>

Steps == {"resolve", "lookup", "check", "record", "save", "read", "write"}

NoIntents == [i \in Ids |-> None]

-----------------------------------------------------------------------------
(***************************************************************************)
(* The repository.                                                         *)
(***************************************************************************)

KeyedAt(f, n, jk) ==
  LET x == f.intents[f.order[n]]
  IN  x # None /\ Join[x.user][x.key] = jk

LastKeyedAt(f, n, jk) ==
  KeyedAt(f, n, jk) /\ \A m \in (n + 1)..Len(f.order) : ~KeyedAt(f, m, jk)

(* Mutant: the idempotency index is not rebuilt.                           *)
LoadedIdemEmpty(f) == [jk \in JoinedKeys |-> None]

(* _load_from_storage: a later intent with the same key replaces the       *)
(* earlier one in the idempotency index.                                   *)
LoadedIdem(f) ==
  [jk \in JoinedKeys |->
     IF \E n \in 1..Len(f.order) : LastKeyedAt(f, n, jk)
       THEN f.order[CHOOSE n \in 1..Len(f.order) : LastKeyedAt(f, n, jk)]
       ELSE None]

Holders(table, u, p) ==
  {i \in Ids : table[i] # None /\ table[i].user = u /\ table[i].pub = p}

(* Two intents for one publication make its key ambiguous.                 *)
LoadedAmbiguous(f) ==
  {up \in Users \X Pubs :
     \E i, j \in Holders(f.intents, up[1], up[2]) : i # j}

(* Mutant: the publication index is not rebuilt.                           *)
LoadedPubsEmpty(f) == [up \in Users \X Pubs |-> None]

LoadedPubs(f) ==
  [up \in Users \X Pubs |->
     IF up \in LoadedAmbiguous(f) \/ Holders(f.intents, up[1], up[2]) = {} THEN None
     ELSE CHOOSE i \in Ids : i \in Holders(f.intents, up[1], up[2])]

(* Mutant: the user filter is missing.                                     *)
VisibleToAll(u, i) == mem[i] # None

(* get_order_intent with the caller's user filter.                         *)
Visible(u, i) == mem[i] # None /\ (u \in Admins \/ mem[i].user = u)

(* get_by_publication_id                                                   *)
ByPublication(u, p) ==
  IF <<u, p>> \in ambiguous THEN None ELSE pubs[<<u, p>>]

(* Mutant: an ambiguous publication is not refused.                        *)
RefusedIfOther(i, x) == x.pub # None /\ pubs[<<x.user, x.pub>>] \notin {None, i}

(* save_order_intent refuses an intent whose publication is ambiguous or   *)
(* belongs to another intent.                                              *)
Refused(i, x) ==
  /\ x.pub # None
  /\ \/ <<x.user, x.pub>> \in ambiguous
     \/ pubs[<<x.user, x.pub>>] \notin {None, i}

(* Mutant: the table is written before the maps change.                    *)
StoreWriteFirst(i, x, flushed) ==
  /\ mem' = [mem EXCEPT ![i] = x]
  /\ memOrder' = IF mem[i] = None THEN Append(memOrder, i) ELSE memOrder
  /\ idem' = [idem EXCEPT ![Join[x.user][x.key]] = i]
  /\ pubs' = IF x.pub = None THEN pubs ELSE [pubs EXCEPT ![<<x.user, x.pub>>] = i]
  /\ disk' = IF flushed THEN [intents |-> mem, order |-> memOrder] ELSE disk
  /\ UNCHANGED ambiguous

(* Mutant: the publication index is not kept up.                           *)
StoreNoIndex(i, x, flushed) ==
  /\ mem' = [mem EXCEPT ![i] = x]
  /\ memOrder' = IF mem[i] = None THEN Append(memOrder, i) ELSE memOrder
  /\ idem' = [idem EXCEPT ![Join[x.user][x.key]] = i]
  /\ disk' = IF flushed THEN [intents |-> mem', order |-> memOrder'] ELSE disk
  /\ UNCHANGED <<pubs, ambiguous>>

(* save_order_intent past its checks: the maps change first, then the      *)
(* whole table is written; a flush that fails leaves the maps changed.     *)
Store(i, x, flushed) ==
  /\ mem' = [mem EXCEPT ![i] = x]
  /\ memOrder' = IF mem[i] = None THEN Append(memOrder, i) ELSE memOrder
  /\ idem' = [idem EXCEPT ![Join[x.user][x.key]] = i]
  /\ pubs' = IF x.pub = None THEN pubs ELSE [pubs EXCEPT ![<<x.user, x.pub>>] = i]
  /\ disk' = IF flushed THEN [intents |-> mem', order |-> memOrder'] ELSE disk
  /\ UNCHANGED ambiguous

-----------------------------------------------------------------------------
(***************************************************************************)
(* Requests.                                                               *)
(***************************************************************************)
Goto(r, step) == pc' = [pc EXCEPT ![r] = step]

Answer(r, outcome) ==
  /\ Goto(r, "done")
  /\ reply' = [reply EXCEPT ![r] = outcome]

FirstStep(c) ==
  CASE c.op = "canonical" -> "resolve"
    [] c.op = "create" -> "check"
    [] c.op = "transition" -> "read"

(* Every handler asks the security boundary before anything else.          *)
Start(r, c) ==
  /\ proc = "up"
  /\ pc[r] = "idle"
  /\ IF c.user \in Permitted
       THEN Goto(r, FirstStep(c)) /\ UNCHANGED reply
       ELSE Answer(r, "refused")
  /\ call' = [call EXCEPT ![r] = c]
  /\ UNCHANGED <<proc, p1, repoVars, serviceVars, svcLock, used, record, hid, hand, bounds>>

Hold(r, i, x) ==
  /\ hid' = [hid EXCEPT ![r] = i]
  /\ hand' = [hand EXCEPT ![r] = x]

(* The tail of both creations: the intent goes into the service's maps ... *)
Record(r) ==
  LET x == hand[r]
  IN  /\ pc[r] = "record"
      /\ Goto(r, "save")
      /\ svc' = [svc EXCEPT ![hid[r]] = x]
      /\ svcIdem' = [svcIdem EXCEPT ![x.user][x.key] = hid[r]]
      /\ UNCHANGED <<proc, p1, repoVars, svcLock, used, handVars, reply, bounds>>

(* ... and then, by save_order_intent, into the repository.  A refusal and  *)
(* a failed flush raise out of the service: the client gets a 500.         *)
Persist(r) ==
  \/ /\ ~Refused(hid[r], hand[r])
     /\ Store(hid[r], hand[r], TRUE)
     /\ Answer(r, "ok")
     /\ UNCHANGED faults
  \/ /\ ~Refused(hid[r], hand[r])
     /\ faults < MaxFaults
     /\ Store(hid[r], hand[r], FALSE)
     /\ Answer(r, "error")
     /\ faults' = faults + 1
  \/ /\ Refused(hid[r], hand[r])
     /\ Answer(r, "error")
     /\ UNCHANGED <<repoVars, faults>>

Release(r) == svcLock' = IF svcLock = r THEN None ELSE svcLock

(* Mutant: the lock is not given back.                                     *)
SaveKeepsLock(r) ==
  /\ pc[r] = "save"
  /\ Persist(r)
  /\ UNCHANGED <<proc, p1, serviceVars, svcLock, used, handVars, crashes>>

Save(r) ==
  /\ pc[r] = "save"
  /\ Persist(r)
  /\ Release(r)
  /\ UNCHANGED <<proc, p1, serviceVars, used, handVars, crashes>>

-----------------------------------------------------------------------------
(***************************************************************************)
(* create_canonical_order_intent_from_publication: the service lock is     *)
(* held from the resolution to the answer.                                 *)
(***************************************************************************)
Resolve(r) ==
  LET found == p1[call[r].user][call[r].pub]
  IN  /\ pc[r] = "resolve"
      /\ svcLock = None
      /\ IF found \in Usable
           THEN /\ Goto(r, "lookup")
                /\ svcLock' = r
                /\ record' = [record EXCEPT ![r] = found]
                /\ UNCHANGED reply
           ELSE /\ Answer(r, "refused")
                /\ UNCHANGED <<svcLock, record>>
      /\ UNCHANGED <<proc, p1, repoVars, serviceVars, used, call, hid, hand, bounds>>

RequestKey(c) == IF c.key = None THEN DefaultKey[c.user][c.pub] ELSE c.key

(* Mutant: the content of the existing intent is not compared.             *)
LookupAnyContent(r) ==
  LET i == ByPublication(call[r].user, call[r].pub)
  IN  /\ pc[r] = "lookup"
      /\ i # None
      /\ Answer(r, "ok")
      /\ hid' = [hid EXCEPT ![r] = i]
      /\ Release(r)
      /\ UNCHANGED <<proc, p1, repoVars, serviceVars, used, call, record, hand, bounds>>

(* An intent for the publication exists: it is the answer if it has the    *)
(* content of the record, and an integrity conflict otherwise.             *)
LookupExisting(r) ==
  LET c == call[r]
      i == ByPublication(c.user, c.pub)
  IN  /\ pc[r] = "lookup"
      /\ i # None
      /\ Answer(r, IF mem[i].content = record[r] THEN "ok" ELSE "conflict")
      /\ hid' = [hid EXCEPT ![r] = i]
      /\ Release(r)
      /\ UNCHANGED <<proc, p1, repoVars, serviceVars, used, call, record, hand, bounds>>

(* The key belongs to an intent of another publication, as far as the      *)
(* service's own maps know.                                                *)
KeyTaken(u, k, p) ==
  LET i == svcIdem[u][k]
  IN  i # None /\ svc[i] # None /\ svc[i].pub # p

LookupKeyTaken(r) ==
  LET c == call[r]
  IN  /\ pc[r] = "lookup"
      /\ ByPublication(c.user, c.pub) = None
      /\ KeyTaken(c.user, RequestKey(c), c.pub)
      /\ Answer(r, "conflict")
      /\ Release(r)
      /\ UNCHANGED <<proc, p1, repoVars, serviceVars, used, handVars, bounds>>

(* The constructor refuses the content, a price that is not positive say.  *)
LookupUnsound(r) ==
  LET c == call[r]
  IN  /\ pc[r] = "lookup"
      /\ ByPublication(c.user, c.pub) = None
      /\ ~KeyTaken(c.user, RequestKey(c), c.pub)
      /\ record[r] \notin Sound
      /\ Answer(r, "refused")
      /\ Release(r)
      /\ UNCHANGED <<proc, p1, repoVars, serviceVars, used, handVars, bounds>>

(* Mutant: the constructor accepts every content.                          *)
LookupNewUnsound(r, i) ==
  LET c == call[r]
  IN  /\ pc[r] = "lookup"
      /\ ByPublication(c.user, c.pub) = None
      /\ ~KeyTaken(c.user, RequestKey(c), c.pub)
      /\ i \notin used
      /\ Goto(r, "record")
      /\ used' = used \cup {i}
      /\ Hold(r, i, [user |-> c.user, key |-> RequestKey(c), pub |-> c.pub,
                     content |-> record[r], state |-> "STAGED"])
      /\ UNCHANGED <<proc, p1, repoVars, serviceVars, svcLock, call, record, reply, bounds>>

LookupNew(r, i) ==
  LET c == call[r]
  IN  /\ pc[r] = "lookup"
      /\ ByPublication(c.user, c.pub) = None
      /\ ~KeyTaken(c.user, RequestKey(c), c.pub)
      /\ record[r] \in Sound
      /\ i \notin used
      /\ Goto(r, "record")
      /\ used' = used \cup {i}
      /\ Hold(r, i, [user |-> c.user, key |-> RequestKey(c), pub |-> c.pub,
                     content |-> record[r], state |-> "STAGED"])
      /\ UNCHANGED <<proc, p1, repoVars, serviceVars, svcLock, call, record, reply, bounds>>

-----------------------------------------------------------------------------
(***************************************************************************)
(* create_order_intent: no lock.                                           *)
(***************************************************************************)
CheckExisting(r) ==
  LET i == idem[Join[call[r].user][call[r].key]]
  IN  /\ pc[r] = "check"
      /\ i # None
      /\ Answer(r, "ok")
      /\ hid' = [hid EXCEPT ![r] = i]
      /\ UNCHANGED <<proc, p1, repoVars, serviceVars, svcLock, used, call, record, hand, bounds>>

(* The authorization is looked at only once no intent has the key.         *)
CheckNotGranted(r) ==
  LET c == call[r]
  IN  /\ pc[r] = "check"
      /\ idem[Join[c.user][c.key]] = None
      /\ ~c.granted
      /\ Answer(r, "refused")
      /\ UNCHANGED <<proc, p1, repoVars, serviceVars, svcLock, used, handVars, bounds>>

CheckNew(r, i) ==
  LET c == call[r]
  IN  /\ pc[r] = "check"
      /\ idem[Join[c.user][c.key]] = None
      /\ c.granted
      /\ i \notin used
      /\ Goto(r, "record")
      /\ used' = used \cup {i}
      /\ Hold(r, i, [user |-> c.user, key |-> c.key, pub |-> None,
                     content |-> None, state |-> "STAGED"])
      /\ UNCHANGED <<proc, p1, repoVars, serviceVars, svcLock, call, record, reply, bounds>>

-----------------------------------------------------------------------------
(***************************************************************************)
(* transition_order_intent_state: no lock.                                 *)
(***************************************************************************)

(* Mutant: only a transition to the same state is refused.                 *)
LegalUnlessSame(from, to) == from # to

(* validate_lifecycle_transition                                           *)
Legal(from, to) == from = "STAGED" /\ to \in Terminal

(* Mutant: with_lifecycle_state does not copy the lineage.                 *)
ReadDropsLineage(r) ==
  LET c == call[r]
      x == mem[c.id]
  IN  /\ pc[r] = "read"
      /\ IF Visible(c.user, c.id) /\ Legal(x.state, c.target)
           THEN /\ Goto(r, "write")
                /\ Hold(r, c.id, [x EXCEPT !.state = c.target, !.pub = None, !.content = None])
                /\ UNCHANGED reply
           ELSE /\ Answer(r, "refused")
                /\ UNCHANGED <<hid, hand>>
      /\ UNCHANGED <<proc, p1, repoVars, serviceVars, svcLock, used, call, record, bounds>>

Read(r) ==
  LET c == call[r]
      x == mem[c.id]
  IN  /\ pc[r] = "read"
      /\ IF Visible(c.user, c.id) /\ Legal(x.state, c.target)
           THEN /\ Goto(r, "write")
                /\ Hold(r, c.id, [x EXCEPT !.state = c.target])
                /\ UNCHANGED reply
           ELSE /\ Answer(r, "refused")
                /\ UNCHANGED <<hid, hand>>
      /\ UNCHANGED <<proc, p1, repoVars, serviceVars, svcLock, used, call, record, bounds>>

(* The intent goes into the service's map and into the repository; nothing *)
(* reads between the two what the first changes.                           *)
Write(r) ==
  /\ pc[r] = "write"
  /\ svc' = [svc EXCEPT ![hid[r]] = hand[r]]
  /\ Persist(r)
  /\ UNCHANGED <<proc, p1, svcIdem, svcLock, used, handVars, crashes>>

-----------------------------------------------------------------------------
(***************************************************************************)
(* The environment and the process.                                        *)
(***************************************************************************)

(* The record of a publication is ingested, or replaced by a restore.      *)
Publish(u, p, c) ==
  /\ proc = "up"
  /\ p1[u][p] # c
  /\ p1' = [p1 EXCEPT ![u][p] = c]
  /\ UNCHANGED <<proc, repoVars, serviceVars, svcLock, used, pc, handVars, reply, bounds>>

EmptyMemory ==
  /\ mem' = NoIntents
  /\ memOrder' = <<>>
  /\ idem' = [jk \in JoinedKeys |-> None]
  /\ pubs' = [up \in Users \X Pubs |-> None]
  /\ ambiguous' = {}

(* The process starts: the service's maps are empty and the repository     *)
(* loads the file.  With a file to load and audit_control present the      *)
(* constructor raises (it formats a report with variables that only its    *)
(* error path binds), and main() exits.                                    *)
Boot ==
  /\ proc = "down"
  /\ IF disk = None
       THEN /\ proc' = "up"
            /\ EmptyMemory
     ELSE IF AuditWired
       THEN /\ proc' = "failed"
            /\ EmptyMemory
       ELSE /\ proc' = "up"
            /\ mem' = disk.intents
            /\ memOrder' = disk.order
            /\ idem' = LoadedIdem(disk)
            /\ pubs' = LoadedPubs(disk)
            /\ ambiguous' = LoadedAmbiguous(disk)
  /\ UNCHANGED <<p1, serviceVars, svcLock, disk, used, pc, handVars, reply, bounds>>

(* Everything in memory is lost, and with it the requests under way.       *)
Crash ==
  /\ proc = "up"
  /\ crashes < MaxCrashes
  /\ crashes' = crashes + 1
  /\ proc' = "down"
  /\ EmptyMemory
  /\ svc' = NoIntents
  /\ svcIdem' = [u \in Users |-> [k \in Keys |-> None]]
  /\ svcLock' = None
  /\ pc' = [r \in Requests |-> IF pc[r] \in Steps THEN "dead" ELSE pc[r]]
  /\ UNCHANGED <<p1, disk, used, handVars, reply, faults>>

-----------------------------------------------------------------------------
Init ==
  /\ proc = "down"
  /\ p1 = [u \in Users |-> [p \in Pubs |-> None]]
  /\ mem = NoIntents
  /\ memOrder = <<>>
  /\ idem = [jk \in JoinedKeys |-> None]
  /\ pubs = [up \in Users \X Pubs |-> None]
  /\ ambiguous = {}
  /\ svc = NoIntents
  /\ svcIdem = [u \in Users |-> [k \in Keys |-> None]]
  /\ svcLock = None
  /\ disk = InitialFile
  /\ used = IF InitialFile = None THEN {}
            ELSE {i \in Ids : InitialFile.intents[i] # None}
  /\ pc = [r \in Requests |-> "idle"]
  /\ call = [r \in Requests |-> None]
  /\ record = [r \in Requests |-> None]
  /\ hid = [r \in Requests |-> None]
  /\ hand = [r \in Requests |-> None]
  /\ reply = [r \in Requests |-> None]
  /\ crashes = 0
  /\ faults = 0

(* The steps of a request once it has started.                             *)
Canonical(r) ==
  \/ Resolve(r)
  \/ LookupExisting(r)
  \/ LookupKeyTaken(r)
  \/ LookupUnsound(r)
  \/ \E i \in Ids : LookupNew(r, i)

Create(r) ==
  \/ CheckExisting(r)
  \/ CheckNotGranted(r)
  \/ \E i \in Ids : CheckNew(r, i)

Finish(r) == Record(r) \/ Save(r)

Transition(r) == Read(r) \/ Write(r)

Step(r) == Canonical(r) \/ Create(r) \/ Finish(r) \/ Transition(r)

Next ==
  \/ \E r \in Requests, c \in Offered : Start(r, c)
  \/ \E r \in Requests : Step(r)
  \/ \E u \in Users, p \in Pubs, c \in Contents : Publish(u, p, c)
  \/ Boot
  \/ Crash

Spec == Init /\ [][Next]_vars

(* The handler threads are scheduled; nothing but the service lock keeps a *)
(* started request from its next step.                                     *)
FairSpec == Spec /\ \A r \in Requests : WF_vars(Step(r))

-----------------------------------------------------------------------------
(***************************************************************************)
(* Properties.                                                             *)
(***************************************************************************)

(* Every variable has its type.                                            *)
TypeOK ==
  /\ proc \in {"down", "up", "failed"}
  /\ p1 \in [Users -> [Pubs -> Contents \cup {None}]]
  /\ mem \in IntentTable
  /\ memOrder \in Seq(Ids)
  /\ idem \in [JoinedKeys -> Ids \cup {None}]
  /\ pubs \in [Users \X Pubs -> Ids \cup {None}]
  /\ ambiguous \subseteq Users \X Pubs
  /\ svc \in IntentTable
  /\ svcIdem \in [Users -> [Keys -> Ids \cup {None}]]
  /\ svcLock \in Requests \cup {None}
  /\ disk \in File \cup {None}
  /\ used \subseteq Ids
  /\ pc \in [Requests -> {"idle", "done", "dead"} \cup Steps]
  /\ call \in [Requests -> Call \cup {None}]
  /\ record \in [Requests -> Contents \cup {None}]
  /\ hid \in [Requests -> Ids \cup {None}]
  /\ hand \in [Requests -> Intent \cup {None}]
  /\ reply \in [Requests -> {"ok", "refused", "conflict", "error", None}]
  /\ crashes \in Nat
  /\ faults \in Nat

Persisted == IF disk = None THEN NoIntents ELSE disk.intents

(* The publications that the first file already holds twice.               *)
Legacy == IF InitialFile = None THEN {} ELSE LoadedAmbiguous(InitialFile)

(* A publication has at most one order intent of a user, in the repository *)
(* and in its file, however canonical creations, crashes, restarts and     *)
(* failed flushes interleave (unless the file already held two at first).  *)
OnePerPublication ==
  \A u \in Users, p \in Pubs :
    \/ <<u, p>> \in Legacy
    \/ /\ \A i, j \in Holders(mem, u, p) : i = j
       /\ \A i, j \in Holders(Persisted, u, p) : i = j

(* A publication that a file holds twice fails closed: no request for it   *)
(* succeeds, and no further intent is created for it.                      *)
AmbiguousFailsClosed ==
  \A u \in Users, p \in Pubs :
    <<u, p>> \in Legacy =>
      /\ Holders(mem, u, p) \subseteq Holders(InitialFile.intents, u, p)
      /\ Holders(Persisted, u, p) = Holders(InitialFile.intents, u, p)
      /\ \A r \in Requests :
           reply[r] = "ok" => ~(call[r].op = "canonical" /\ call[r].user = u /\ call[r].pub = p)

(* The indexes of the repository name exactly the intents they index: an   *)
(* intent is found by its key and, unless ambiguous, by its publication,   *)
(* and what is found has that key and that publication.                    *)
IndexesAgree ==
  /\ \A jk \in JoinedKeys :
       LET keyed == {i \in Ids : mem[i] # None /\ Join[mem[i].user][mem[i].key] = jk}
       IN  IF keyed = {} THEN idem[jk] = None ELSE idem[jk] \in keyed
  /\ \A u \in Users, p \in Pubs :
       IF Holders(mem, u, p) = {} \/ <<u, p>> \in ambiguous THEN pubs[<<u, p>>] = None
       ELSE pubs[<<u, p>>] \in Holders(mem, u, p)

(* A successful canonical request is answered with an intent of the caller *)
(* for the publication asked for, with the content Project 1's record had  *)
(* when the request resolved it: never a stale or a foreign one.           *)
CanonicalAnswers ==
  [][\A r \in Requests :
       (reply'[r] = "ok" /\ reply[r] # "ok" /\ call[r].op = "canonical") =>
         LET x == mem'[hid'[r]]
         IN  /\ x.user = call[r].user
             /\ x.pub = call[r].pub
             /\ x.content = record[r]]_vars

(* The string that a plain creation's intent is looked up and kept under.  *)
JoinedKey(x) == Join[x.user][x.key]

(* Once a plain creation has succeeded, every later one under the same     *)
(* joined key, by a retry or by a user whose id and key join to the same   *)
(* string, after a crash and a restart too, succeeds with an intent kept   *)
(* under that key and makes no further one, as long as no flush failed.    *)
RetriesCreateNothing ==
  [][\A q, r \in Requests :
       /\ faults = 0
       /\ reply[q] = "ok" /\ call[q].op = "create"
       /\ pc[r] = "check" /\ pc'[r] \notin {"check", "dead"}
       /\ JoinedKey(call[r]) = JoinedKey(call[q])
       => /\ reply'[r] = "ok"
          /\ mem'[hid'[r]] # None
          /\ JoinedKey(mem'[hid'[r]]) = JoinedKey(call[r])
          /\ used' = used]_vars

SameIdentity(x, y) == [x EXCEPT !.state = "STAGED"] = [y EXCEPT !.state = "STAGED"]

(* The same intent, and an end that is not taken back.                     *)
Continues(x, y) ==
  /\ y # None
  /\ SameIdentity(x, y)
  /\ x.state \in Terminal => y.state \in Terminal

(* What the file holds is there for good: no step, crash or restart drops  *)
(* an intent from it, changes anything but its lifecycle state, or brings  *)
(* it back from a terminal state to STAGED.                                *)
PersistedForGood ==
  [][\A i \in Ids :
       LET x == Persisted[i]
           y == Persisted'[i]
       IN  x # None => Continues(x, y)]_vars

(* Only a transition of the owner or of an admin ends an intent.           *)
EndedByOwnerOrAdmin ==
  [][\A i \in Ids :
       (proc = "up" /\ proc' = "up" /\ mem[i] # None /\ mem'[i] # mem[i]) =>
         \E r \in Requests :
           /\ call[r] # None
           /\ call[r].op = "transition"
           /\ call[r].id = i
           /\ call[r].user \in Admins \cup {mem[i].user}
           /\ mem'[i] = [mem[i] EXCEPT !.state = call[r].target]]_vars

AnswersPersisted ==
  \A r \in Requests :
    reply[r] = "ok" =>
      /\ Persisted[hid[r]] # None
      /\ call[r].op = "transition" => Persisted[hid[r]].state \in Terminal

(* While the disk works, an intent that a client was told of survives      *)
(* every crash, and one that it was told to have ended has not come back.  *)
AnsweredIsDurable == faults = 0 => AnswersPersisted

(* While the disk works, a restart at any moment finds the repository as   *)
(* it is: the intents and the publication index, rebuilt from the file.    *)
RestartIsTransparent ==
  faults = 0 /\ proc = "up" /\ disk # None =>
    /\ mem = disk.intents
    /\ memOrder = disk.order
    /\ ambiguous = LoadedAmbiguous(disk)
    /\ pubs = LoadedPubs(disk)

(* A request that is started is answered, or dies with its process: no     *)
(* outcome of a canonical creation leaves the service lock taken.          *)
RequestsAnswered ==
  \A r \in Requests : (pc[r] \in Steps) ~> (pc[r] \in {"done", "dead"})

-----------------------------------------------------------------------------
(***************************************************************************)
(* The inductive invariant behind OnePerPublication and PersistedForGood.  *)
(***************************************************************************)

PubOf(x) == <<x.user, x.pub>>

(* The publication index and the intents name one another.                 *)
IndexInv ==
  /\ ambiguous \subseteq Legacy
  /\ \A i \in Ids :
       mem[i] # None /\ mem[i].pub # None /\ PubOf(mem[i]) \notin ambiguous
         => pubs[PubOf(mem[i])] = i
  /\ \A up \in Users \X Pubs :
       pubs[up] # None => mem[pubs[up]] # None /\ PubOf(mem[pubs[up]]) = up

(* The file holds no publication twice, unless it did so at first.         *)
FileInv ==
  \A i, j \in Ids :
    (/\ Persisted[i] # None
     /\ Persisted[j] # None
     /\ Persisted[i].pub # None
     /\ PubOf(Persisted[i]) = PubOf(Persisted[j])
     /\ PubOf(Persisted[i]) \notin Legacy) => i = j

(* While the process is up, memory is never behind the file.               *)
CoverInv ==
  proc = "up" => \A i \in Ids : Persisted[i] # None => Continues(Persisted[i], mem[i])

(* A uuid is used once.                                                    *)
UsedInv ==
  \A i \in Ids : mem[i] # None \/ Persisted[i] # None => i \in used

(* What a request holds between its steps is still what the repository     *)
(* has: nothing yet for a creation, the same intent for a transition.      *)
HandInv ==
  \A r \in Requests :
    /\ pc[r] \in {"record", "save"} =>
         /\ hid[r] \in used
         /\ mem[hid[r]] = None
         /\ Persisted[hid[r]] = None
         /\ \A q \in Requests \ {r} : pc[q] \in {"record", "save"} => hid[q] # hid[r]
    /\ pc[r] = "write" => Continues(mem[hid[r]], hand[r]) /\ mem[hid[r]] # None
    /\ pc[r] = "write" => hand[r].state \in Terminal

(* No request runs while the process is down.                              *)
DownInv == proc # "up" => \A r \in Requests : pc[r] \notin Steps

RepositoryInv == IndexInv /\ FileInv /\ CoverInv /\ UsedInv /\ HandInv /\ DownInv

-----------------------------------------------------------------------------
(***************************************************************************)
(* What the sources say and the code does not do.                          *)
(***************************************************************************)

(* domain/order_intent.py: a terminal state does not transition.           *)
TerminalIsFinal ==
  [][\A i \in Ids :
       (proc = "up" /\ proc' = "up" /\ mem[i] # None /\ mem[i].state \in Terminal) =>
         mem'[i].state = mem[i].state]_vars

(* adapters/order_intent_repository.py: atomic persistence across          *)
(* restarts; what a client was told of is in the file, a failed flush or   *)
(* not.                                                                    *)
EveryAnswerIsDurable == AnswersPersisted

(* adapters/order_intent_repository.py: persistence across restarts.       *)
StartupSucceeds == proc # "failed"
=============================================================================
