------------------------- MODULE OrderIntentsProofs -------------------------
(***************************************************************************)
(* Proofs about OrderIntents, for every value of its constants.            *)
(***************************************************************************)
EXTENDS OrderIntents, TLAPS

USE NoneAssumption

(* What the loader computes from a file has the types of the repository.   *)
LEMMA LoadedTypes ==
  ASSUME NEW f \in File
  PROVE  /\ f.intents \in IntentTable
         /\ f.order \in Seq(Ids)
         /\ LoadedIdem(f) \in [JoinedKeys -> Ids \cup {None}]
         /\ LoadedPubs(f) \in [Users \X Pubs -> Ids \cup {None}]
         /\ LoadedAmbiguous(f) \subseteq Users \X Pubs
<1>1. f.intents \in IntentTable /\ f.order \in Seq(Ids)
  BY DEF File
<1>2. LoadedIdem(f) \in [JoinedKeys -> Ids \cup {None}]
  <2>1. \A n \in 1..Len(f.order) : f.order[n] \in Ids
    BY <1>1
  <2>2. ASSUME NEW jk \in JoinedKeys
        PROVE  LoadedIdem(f)[jk] \in Ids \cup {None}
    <3>1. CASE \E n \in 1..Len(f.order) : LastKeyedAt(f, n, jk)
      <4>1. (CHOOSE n \in 1..Len(f.order) : LastKeyedAt(f, n, jk)) \in 1..Len(f.order)
        BY <3>1
      <4>2. LoadedIdem(f)[jk] = f.order[CHOOSE n \in 1..Len(f.order) : LastKeyedAt(f, n, jk)]
        BY <3>1 DEF LoadedIdem
      <4> QED
        BY <2>1, <4>1, <4>2
    <3>2. CASE ~\E n \in 1..Len(f.order) : LastKeyedAt(f, n, jk)
      BY <3>2 DEF LoadedIdem
    <3> QED
      BY <3>1, <3>2
  <2>3. LoadedIdem(f) = [jk \in JoinedKeys |-> LoadedIdem(f)[jk]]
    BY DEF LoadedIdem
  <2> QED
    BY <2>2, <2>3
<1>3. LoadedPubs(f) \in [Users \X Pubs -> Ids \cup {None}]
  <2>1. ASSUME NEW up \in Users \X Pubs
        PROVE  LoadedPubs(f)[up] \in Ids \cup {None}
    <3> DEFINE H == Holders(f.intents, up[1], up[2])
    <3>1. CASE H # {}
      <4>1. (CHOOSE i \in Ids : i \in H) \in Ids
        BY <3>1 DEF Holders
      <4> QED
        BY <4>1 DEF LoadedPubs
    <3>2. CASE H = {}
      BY <3>2 DEF LoadedPubs
    <3> QED
      BY <3>1, <3>2
  <2>2. LoadedPubs(f) = [up \in Users \X Pubs |-> LoadedPubs(f)[up]]
    BY DEF LoadedPubs
  <2> QED
    BY <2>1, <2>2
<1>4. LoadedAmbiguous(f) \subseteq Users \X Pubs
  BY DEF LoadedAmbiguous
<1> QED
  BY <1>1, <1>2, <1>3, <1>4

(***************************************************************************)
(* What a request carries between its steps.                               *)
(***************************************************************************)
Carried ==
  \A r \in Requests :
    /\ pc[r] \in {"resolve", "lookup"} => call[r] \in CanonicalCall
    /\ pc[r] = "lookup" => record[r] \in Usable
    /\ pc[r] = "check" => call[r] \in CreateCall
    /\ pc[r] = "read" => call[r] \in TransitionCall
    /\ pc[r] \in {"record", "save", "write"} => hid[r] \in Ids /\ hand[r] \in Intent

TypeInv == TypeOK /\ Carried

(* save_order_intent keeps the types of the repository and of the file.    *)
LEMMA StoreTypes ==
  ASSUME TypeOK, NEW i \in Ids, NEW x \in Intent, NEW flushed \in BOOLEAN,
         Store(i, x, flushed)
  PROVE  /\ mem' \in IntentTable
         /\ memOrder' \in Seq(Ids)
         /\ idem' \in [JoinedKeys -> Ids \cup {None}]
         /\ pubs' \in [Users \X Pubs -> Ids \cup {None}]
         /\ ambiguous' \subseteq Users \X Pubs
         /\ disk' \in File \cup {None}
<1>1. mem' \in IntentTable
  BY DEF Store, TypeOK, IntentTable
<1>2. memOrder' \in Seq(Ids)
  BY DEF Store, TypeOK
<1>3. idem' \in [JoinedKeys -> Ids \cup {None}]
  BY DEF Store, TypeOK
<1>4. pubs' \in [Users \X Pubs -> Ids \cup {None}]
  BY DEF Store, TypeOK
<1>5. ambiguous' \subseteq Users \X Pubs
  BY DEF Store, TypeOK
<1>6. disk' \in File \cup {None}
  BY <1>1, <1>2 DEF Store, TypeOK, File
<1> QED
  BY <1>1, <1>2, <1>3, <1>4, <1>5, <1>6

LEMMA PersistTypes ==
  ASSUME TypeOK, NEW r \in Requests, hid[r] \in Ids, hand[r] \in Intent, Persist(r)
  PROVE  /\ mem' \in IntentTable
         /\ memOrder' \in Seq(Ids)
         /\ idem' \in [JoinedKeys -> Ids \cup {None}]
         /\ pubs' \in [Users \X Pubs -> Ids \cup {None}]
         /\ ambiguous' \subseteq Users \X Pubs
         /\ disk' \in File \cup {None}
         /\ pc' = [pc EXCEPT ![r] = "done"]
         /\ \E outcome \in {"ok", "error"} : reply' = [reply EXCEPT ![r] = outcome]
         /\ faults' \in Nat
<1>1. CASE Store(hid[r], hand[r], TRUE) /\ Answer(r, "ok") /\ UNCHANGED faults
  BY <1>1, StoreTypes DEF Answer, Goto, TypeOK
<1>2. CASE Store(hid[r], hand[r], FALSE) /\ Answer(r, "error") /\ faults' = faults + 1
  <2>1. faults' \in Nat
    BY <1>2 DEF TypeOK
  <2> QED
    BY <1>2, <2>1, StoreTypes DEF Answer, Goto
<1>3. CASE Answer(r, "error") /\ UNCHANGED <<repoVars, faults>>
  BY <1>3 DEF Answer, Goto, TypeOK, repoVars
<1> QED
  BY <1>1, <1>2, <1>3 DEF Persist

LEMMA InitTypes == Init => TypeInv
<1> SUFFICES ASSUME Init PROVE TypeInv
  OBVIOUS
<1>1. NoIntents \in IntentTable
  BY DEF NoIntents, IntentTable
<1>2. disk \in File \cup {None}
  BY ConstantsAssumption DEF Init
<1>3. <<>> \in Seq(Ids)
  OBVIOUS
<1> QED
  BY <1>1, <1>2, <1>3 DEF Init, TypeInv, TypeOK, Carried

(* The parts of a call, for the step that reads them.                      *)
LEMMA StartTypes ==
  ASSUME TypeInv, NEW r \in Requests, NEW c \in Offered, Start(r, c)
  PROVE  TypeInv'
<1>1. c \in Call
  BY ConstantsAssumption
<1>2. /\ c \in CanonicalCall => FirstStep(c) = "resolve"
      /\ c \in CreateCall => FirstStep(c) = "check"
      /\ c \in TransitionCall => FirstStep(c) = "read"
  BY DEF FirstStep, CanonicalCall, CreateCall, TransitionCall
<1>3. /\ call'[r] = c /\ pc'[r] \in {FirstStep(c), "done"}
      /\ \A q \in Requests \ {r} : call'[q] = call[q] /\ pc'[q] = pc[q]
  BY DEF Start, Goto, Answer, TypeInv, TypeOK
<1>4. TypeOK'
  <2>1. pc' \in [Requests -> {"idle", "done", "dead"} \cup Steps]
    BY <1>1, <1>2 DEF Start, Goto, Answer, TypeInv, TypeOK, Call, Steps
  <2>2. reply' \in [Requests -> {"ok", "refused", "conflict", "error", None}]
    BY DEF Start, Answer, TypeInv, TypeOK
  <2> QED
    BY <1>1, <2>1, <2>2 DEF Start, TypeInv, TypeOK, repoVars, serviceVars, bounds
<1>5. Carried'
  BY <1>1, <1>2, <1>3 DEF Start, TypeInv, Carried, Call
<1> QED
  BY <1>4, <1>5 DEF TypeInv

LEMMA RecordTypes ==
  ASSUME TypeInv, NEW r \in Requests, Record(r)
  PROVE  TypeInv'
<1>1. hid[r] \in Ids /\ hand[r] \in Intent
  BY DEF Record, TypeInv, Carried
<1>2. svc' \in IntentTable /\ svcIdem' \in [Users -> [Keys -> Ids \cup {None}]]
  BY <1>1 DEF Record, TypeInv, TypeOK, IntentTable, Intent
<1>3. pc' = [pc EXCEPT ![r] = "save"]
  BY DEF Record, Goto
<1>4. TypeOK'
  BY <1>2, <1>3 DEF Record, TypeInv, TypeOK, repoVars, handVars, bounds, Steps
<1>5. Carried'
  BY <1>1, <1>3 DEF Record, TypeInv, TypeOK, Carried, handVars
<1> QED
  BY <1>4, <1>5 DEF TypeInv

LEMMA SaveTypes ==
  ASSUME TypeInv, NEW r \in Requests, Save(r)
  PROVE  TypeInv'
<1>1. hid[r] \in Ids /\ hand[r] \in Intent
  BY DEF Save, TypeInv, Carried
<1>2. PICK outcome \in {"ok", "error"} : reply' = [reply EXCEPT ![r] = outcome]
  BY <1>1, PersistTypes DEF Save, TypeInv
<1>3. pc' = [pc EXCEPT ![r] = "done"]
  BY <1>1, PersistTypes DEF Save, TypeInv
<1>4. TypeOK'
  BY <1>1, <1>2, <1>3, PersistTypes DEF Save, Release, TypeInv, TypeOK, handVars, serviceVars, bounds
<1>5. Carried'
  BY <1>3 DEF Save, TypeInv, TypeOK, Carried, handVars
<1> QED
  BY <1>4, <1>5 DEF TypeInv

LEMMA ResolveTypes ==
  ASSUME TypeInv, NEW r \in Requests, Resolve(r)
  PROVE  TypeInv'
<1>1. call[r] \in CanonicalCall
  BY DEF Resolve, TypeInv, Carried
<1>2. p1[call[r].user][call[r].pub] \in Contents \cup {None}
  BY <1>1 DEF CanonicalCall, TypeInv, TypeOK
<1>3. TypeOK'
  BY <1>2 DEF Resolve, Goto, Answer, TypeInv, TypeOK, repoVars, serviceVars, bounds, Steps
<1>4. Carried'
  BY <1>1 DEF Resolve, Goto, Answer, TypeInv, TypeOK, Carried
<1> QED
  BY <1>3, <1>4 DEF TypeInv

LEMMA LookupExistingTypes ==
  ASSUME TypeInv, NEW r \in Requests, LookupExisting(r)
  PROVE  TypeInv'
<1>1. call[r] \in CanonicalCall
  BY DEF LookupExisting, TypeInv, Carried
<1>2. ByPublication(call[r].user, call[r].pub) \in Ids
  BY <1>1 DEF LookupExisting, ByPublication, CanonicalCall, TypeInv, TypeOK
<1>3. TypeOK'
  BY <1>2 DEF LookupExisting, Goto, Answer, Release, TypeInv, TypeOK, repoVars, serviceVars, bounds
<1>4. Carried'
  BY <1>2 DEF LookupExisting, Goto, Answer, TypeInv, TypeOK, Carried
<1> QED
  BY <1>3, <1>4 DEF TypeInv

LEMMA LookupRefusedTypes ==
  ASSUME TypeInv, NEW r \in Requests,
         LookupKeyTaken(r) \/ LookupUnsound(r) \/ CheckNotGranted(r)
  PROVE  TypeInv'
<1>1. TypeOK'
  BY DEF LookupKeyTaken, LookupUnsound, CheckNotGranted, Goto, Answer, Release, TypeInv, TypeOK,
         repoVars, serviceVars, handVars, bounds
<1>2. Carried'
  BY DEF LookupKeyTaken, LookupUnsound, CheckNotGranted, Goto, Answer, TypeInv, TypeOK, Carried, handVars
<1> QED
  BY <1>1, <1>2 DEF TypeInv

LEMMA LookupNewTypes ==
  ASSUME TypeInv, NEW r \in Requests, NEW i \in Ids, LookupNew(r, i)
  PROVE  TypeInv'
<1> DEFINE c == call[r]
<1> DEFINE x == [user |-> c.user, key |-> RequestKey(c), pub |-> c.pub,
                 content |-> record[r], state |-> "STAGED"]
<1>1. c \in CanonicalCall
  BY DEF LookupNew, TypeInv, Carried
<1>2. c.user \in Users /\ c.pub \in Pubs /\ c.key \in Keys \cup {None}
  BY <1>1 DEF CanonicalCall
<1>3. RequestKey(c) \in Keys
  BY <1>2, ConstantsAssumption DEF RequestKey
<1>4. x \in Intent
  <2>1. record[r] \in Sound
    BY DEF LookupNew
  <2>2. c.pub # None /\ record[r] # None
    BY <1>2, <2>1, ConstantsAssumption, NoneAssumption
  <2> QED
    BY <1>2, <1>3, <2>1, <2>2 DEF Intent, LifecycleStates
<1>5. /\ hid' = [hid EXCEPT ![r] = i]
      /\ hand' = [hand EXCEPT ![r] = x]
      /\ pc' = [pc EXCEPT ![r] = "record"]
  BY DEF LookupNew, Hold, Goto
<1> HIDE DEF x
<1>6. TypeOK'
  BY <1>4, <1>5 DEF LookupNew, TypeInv, TypeOK, repoVars, serviceVars, bounds, Steps
<1>7. Carried'
  BY <1>4, <1>5 DEF LookupNew, TypeInv, TypeOK, Carried
<1> QED
  BY <1>6, <1>7 DEF TypeInv

LEMMA CheckExistingTypes ==
  ASSUME TypeInv, NEW r \in Requests, CheckExisting(r)
  PROVE  TypeInv'
<1> DEFINE i == idem[Join[call[r].user][call[r].key]]
<1>1. call[r] \in CreateCall
  BY DEF CheckExisting, TypeInv, Carried
<1>2. Join[call[r].user][call[r].key] \in JoinedKeys
  BY <1>1, ConstantsAssumption DEF CreateCall
<1>3. i \in Ids \cup {None}
  BY <1>2 DEF TypeInv, TypeOK
<1>4. hid' = [hid EXCEPT ![r] = i] /\ pc' = [pc EXCEPT ![r] = "done"]
  BY DEF CheckExisting, Answer, Goto
<1> HIDE DEF i
<1>5. TypeOK'
  BY <1>3, <1>4 DEF CheckExisting, Answer, TypeInv, TypeOK, repoVars, serviceVars, bounds
<1>6. Carried'
  BY <1>3, <1>4 DEF CheckExisting, TypeInv, TypeOK, Carried
<1> QED
  BY <1>5, <1>6 DEF TypeInv

LEMMA CheckNewTypes ==
  ASSUME TypeInv, NEW r \in Requests, NEW i \in Ids, CheckNew(r, i)
  PROVE  TypeInv'
<1> DEFINE c == call[r]
<1> DEFINE x == [user |-> c.user, key |-> c.key, pub |-> None, content |-> None,
                 state |-> "STAGED"]
<1>1. c \in CreateCall
  BY DEF CheckNew, TypeInv, Carried
<1>2. x \in Intent
  BY <1>1 DEF CreateCall, Intent, LifecycleStates
<1>3. /\ hid' = [hid EXCEPT ![r] = i]
      /\ hand' = [hand EXCEPT ![r] = x]
      /\ pc' = [pc EXCEPT ![r] = "record"]
  BY DEF CheckNew, Hold, Goto
<1> HIDE DEF x
<1>4. TypeOK'
  BY <1>2, <1>3 DEF CheckNew, TypeInv, TypeOK, repoVars, serviceVars, bounds, Steps
<1>5. Carried'
  BY <1>2, <1>3 DEF CheckNew, TypeInv, TypeOK, Carried
<1> QED
  BY <1>4, <1>5 DEF TypeInv

LEMMA ReadTypes ==
  ASSUME TypeInv, NEW r \in Requests, Read(r)
  PROVE  TypeInv'
<1> DEFINE c == call[r]
<1> DEFINE x == [mem[c.id] EXCEPT !.state = c.target]
<1>1. c \in TransitionCall
  BY DEF Read, TypeInv, Carried
<1>2. CASE Visible(c.user, c.id) /\ Legal(mem[c.id].state, c.target)
  <2>1. x \in Intent /\ c.id \in Ids
    <3>1. c.id \in Ids /\ c.target \in LifecycleStates
      BY <1>1 DEF TransitionCall
    <3>2. mem[c.id] \in Intent
      BY <1>2, <3>1 DEF Visible, TypeInv, TypeOK, IntentTable
    <3> QED
      BY <3>1, <3>2 DEF Intent
  <2>2. /\ hid' = [hid EXCEPT ![r] = c.id]
        /\ hand' = [hand EXCEPT ![r] = x]
        /\ pc' = [pc EXCEPT ![r] = "write"]
        /\ UNCHANGED reply
    BY <1>2 DEF Read, Hold, Goto
  <2> HIDE DEF x
  <2>3. TypeOK'
    BY <2>1, <2>2 DEF Read, TypeInv, TypeOK, repoVars, serviceVars, bounds, Steps
  <2>4. Carried'
    BY <2>1, <2>2 DEF Read, TypeInv, TypeOK, Carried
  <2> QED
    BY <2>3, <2>4 DEF TypeInv
<1>3. CASE ~(Visible(c.user, c.id) /\ Legal(mem[c.id].state, c.target))
  <2>1. Answer(r, "refused") /\ UNCHANGED <<hid, hand>>
    BY <1>3 DEF Read
  <2>2. TypeOK'
    BY <2>1 DEF Read, Answer, Goto, TypeInv, TypeOK, repoVars, serviceVars, bounds
  <2>3. Carried'
    BY <2>1 DEF Read, Answer, Goto, TypeInv, TypeOK, Carried
  <2> QED
    BY <2>2, <2>3 DEF TypeInv
<1> QED
  BY <1>2, <1>3

LEMMA WriteTypes ==
  ASSUME TypeInv, NEW r \in Requests, Write(r)
  PROVE  TypeInv'
<1>1. hid[r] \in Ids /\ hand[r] \in Intent
  BY DEF Write, TypeInv, Carried
<1>2. svc' \in IntentTable
  BY <1>1 DEF Write, TypeInv, TypeOK, IntentTable
<1>3. PICK outcome \in {"ok", "error"} : reply' = [reply EXCEPT ![r] = outcome]
  BY <1>1, PersistTypes DEF Write, TypeInv
<1>4. pc' = [pc EXCEPT ![r] = "done"]
  BY <1>1, PersistTypes DEF Write, TypeInv
<1>5. TypeOK'
  BY <1>1, <1>2, <1>3, <1>4, PersistTypes DEF Write, TypeInv, TypeOK, handVars, bounds
<1>6. Carried'
  BY <1>4 DEF Write, TypeInv, TypeOK, Carried, handVars
<1> QED
  BY <1>5, <1>6 DEF TypeInv

LEMMA PublishTypes ==
  ASSUME TypeInv, NEW u \in Users, NEW p \in Pubs, NEW c \in Contents, Publish(u, p, c)
  PROVE  TypeInv'
<1>1. p1' \in [Users -> [Pubs -> Contents \cup {None}]]
  BY DEF Publish, TypeInv, TypeOK
<1>2. TypeOK'
  BY <1>1 DEF Publish, TypeInv, TypeOK, repoVars, serviceVars, handVars, bounds
<1>3. Carried'
  BY DEF Publish, TypeInv, Carried, handVars
<1> QED
  BY <1>2, <1>3 DEF TypeInv

LEMMA EmptyMemoryTypes ==
  ASSUME EmptyMemory
  PROVE  /\ mem' \in IntentTable
         /\ memOrder' \in Seq(Ids)
         /\ idem' \in [JoinedKeys -> Ids \cup {None}]
         /\ pubs' \in [Users \X Pubs -> Ids \cup {None}]
         /\ ambiguous' \subseteq Users \X Pubs
BY DEF EmptyMemory, NoIntents, IntentTable

LEMMA BootTypes ==
  ASSUME TypeInv, Boot
  PROVE  TypeInv'
<1>1. /\ mem' \in IntentTable
      /\ memOrder' \in Seq(Ids)
      /\ idem' \in [JoinedKeys -> Ids \cup {None}]
      /\ pubs' \in [Users \X Pubs -> Ids \cup {None}]
      /\ ambiguous' \subseteq Users \X Pubs
      /\ proc' \in {"up", "failed"}
  <2>1. CASE disk = None \/ AuditWired
    BY <2>1, EmptyMemoryTypes DEF Boot
  <2>2. CASE disk # None /\ ~AuditWired
    <3>1. disk \in File
      BY <2>2 DEF TypeInv, TypeOK
    <3> QED
      BY <2>2, <3>1, LoadedTypes DEF Boot
  <2> QED
    BY <2>1, <2>2
<1>2. TypeOK'
  BY <1>1 DEF Boot, TypeInv, TypeOK, serviceVars, handVars, bounds
<1>3. Carried'
  BY DEF Boot, TypeInv, Carried, handVars
<1> QED
  BY <1>2, <1>3 DEF TypeInv

LEMMA CrashTypes ==
  ASSUME TypeInv, Crash
  PROVE  TypeInv'
<1>1. svc' \in IntentTable
  BY DEF Crash, NoIntents, IntentTable
<1>2. pc' \in [Requests -> {"idle", "done", "dead"} \cup Steps]
  BY DEF Crash, TypeInv, TypeOK
<1>3. TypeOK'
  BY <1>1, <1>2, EmptyMemoryTypes DEF Crash, TypeInv, TypeOK, handVars
<1>4. \A r \in Requests : pc'[r] \notin Steps
  BY DEF Crash, TypeInv, TypeOK, Steps
<1>5. Carried'
  BY <1>4 DEF Carried, Steps
<1> QED
  BY <1>3, <1>5 DEF TypeInv

LEMMA NextTypes == TypeInv /\ [Next]_vars => TypeInv'
<1> SUFFICES ASSUME TypeInv, [Next]_vars PROVE TypeInv'
  OBVIOUS
<1>1. ASSUME NEW r \in Requests, Step(r) PROVE TypeInv'
  BY <1>1, RecordTypes, SaveTypes, ResolveTypes, LookupExistingTypes, LookupRefusedTypes,
     LookupNewTypes, CheckExistingTypes, CheckNewTypes, ReadTypes, WriteTypes
     DEF Step, Canonical, Create, Finish, Transition
<1>2. CASE UNCHANGED vars
  BY <1>2 DEF vars, repoVars, serviceVars, handVars, bounds, TypeInv, TypeOK, Carried
<1> QED
  BY <1>1, <1>2, StartTypes, PublishTypes, BootTypes, CrashTypes DEF Next

(* Every variable of the order intent system keeps its type, and a request *)
(* carries what its next step reads.                                       *)
THEOREM TypeCorrect == Spec => []TypeOK
<1>1. TypeInv => TypeOK
  BY DEF TypeInv
<1> QED
  BY <1>1, InitTypes, NextTypes, PTL DEF Spec

-----------------------------------------------------------------------------
(***************************************************************************)
(* The repository invariant.                                               *)
(***************************************************************************)

LEMMA Identity ==
  ASSUME NEW x \in Intent, NEW y \in Intent
  PROVE  SameIdentity(x, y) <=>
           x.user = y.user /\ x.key = y.key /\ x.pub = y.pub /\ x.content = y.content
<1>1. x = [user |-> x.user, key |-> x.key, pub |-> x.pub, content |-> x.content, state |-> x.state]
  BY DEF Intent
<1>2. y = [user |-> y.user, key |-> y.key, pub |-> y.pub, content |-> y.content, state |-> y.state]
  BY DEF Intent
<1> QED
  BY <1>1, <1>2 DEF SameIdentity

LEMMA ContinuesParts ==
  ASSUME NEW x \in Intent, NEW y \in Intent \cup {None}
  PROVE  Continues(x, y) <=>
           /\ y # None
           /\ x.user = y.user /\ x.key = y.key /\ x.pub = y.pub /\ x.content = y.content
           /\ x.state \in Terminal => y.state \in Terminal
BY Identity DEF Continues

LEMMA PersistedTypes == TypeOK => Persisted \in IntentTable
<1>1. NoIntents \in IntentTable
  BY DEF NoIntents, IntentTable
<1> QED
  BY <1>1 DEF TypeOK, Persisted, File

(* Holders, read as the intents of a publication.                          *)
LEMMA HoldersOf ==
  ASSUME NEW table \in IntentTable, NEW u \in Users, NEW p \in Pubs
  PROVE  \A i \in Ids : i \in Holders(table, u, p) <=>
           table[i] # None /\ table[i].pub # None /\ PubOf(table[i]) = <<u, p>>
BY DEF Holders, PubOf

(* save_order_intent keeps index, file and memory in step, for an intent   *)
(* that is new or that continues the one it replaces.                      *)
LEMMA StoreKeeps ==
  ASSUME TypeOK, IndexInv, FileInv, CoverInv, UsedInv, proc = "up",
         NEW i \in Ids, NEW x \in Intent, NEW flushed \in BOOLEAN,
         Store(i, x, flushed), ~Refused(i, x),
         i \in used, used' = used, proc' = proc,
         \/ mem[i] = None /\ Persisted[i] = None
         \/ mem[i] # None /\ Continues(mem[i], x)
  PROVE  /\ IndexInv' /\ FileInv' /\ CoverInv' /\ UsedInv'
         /\ mem' = [mem EXCEPT ![i] = x]
         /\ Persisted' = IF flushed THEN mem' ELSE Persisted
<1>1. mem \in IntentTable /\ Persisted \in IntentTable
  BY PersistedTypes DEF TypeOK
<1>2. mem' = [mem EXCEPT ![i] = x] /\ mem' \in IntentTable
  BY StoreTypes DEF Store
<1>3. Persisted' = IF flushed THEN mem' ELSE Persisted
  <2>1. [intents |-> mem', order |-> memOrder'] \in File
    BY StoreTypes DEF File
  <2>2. flushed => disk' \in File /\ disk'.intents = mem'
    BY <2>1 DEF Store
  <2>3. ~flushed => disk' = disk
    BY DEF Store
  <2> QED
    BY <2>2, <2>3 DEF Persisted
<1>4. mem'[i] = x /\ \A j \in Ids \ {i} : mem'[j] = mem[j]
  BY <1>1, <1>2 DEF IntentTable
<1>5. mem[i] # None => PubOf(mem[i]) = PubOf(x) /\ mem[i].pub = x.pub
  BY <1>1, ContinuesParts DEF PubOf, IntentTable
<1>6. x.pub # None => /\ PubOf(x) \notin ambiguous
                      /\ pubs[PubOf(x)] \in {None, i}
                      /\ PubOf(x) \in Users \X Pubs
  BY DEF Refused, PubOf, Intent
<1>7. pubs' = IF x.pub = None THEN pubs ELSE [pubs EXCEPT ![PubOf(x)] = i]
  BY DEF Store, PubOf
<1>8. ambiguous' = ambiguous
  BY DEF Store
<1>9. IndexInv'
  <2>1. ambiguous' \subseteq Legacy
    BY <1>8 DEF IndexInv
  <2>2. ASSUME NEW j \in Ids, mem'[j] # None, mem'[j].pub # None, PubOf(mem'[j]) \notin ambiguous'
        PROVE  pubs'[PubOf(mem'[j])] = j
    <3>1. CASE j = i
      BY <1>4, <1>6, <1>7, <2>2, <3>1 DEF TypeOK
    <3>2. CASE j # i
      <4>1. mem[j] # None /\ mem'[j] = mem[j] /\ pubs[PubOf(mem[j])] = j
        BY <1>4, <1>8, <2>2, <3>2 DEF IndexInv
      <4>2. mem[j] \in Intent /\ PubOf(mem[j]) \in Users \X Pubs
        BY <1>1, <2>2, <4>1 DEF IntentTable, Intent, PubOf
      <4>3. x.pub # None => PubOf(x) # PubOf(mem[j])
        BY <1>6, <3>2, <4>1
      <4> QED
        BY <1>7, <4>1, <4>2, <4>3 DEF TypeOK
    <3> QED
      BY <3>1, <3>2
  <2>3. ASSUME NEW up \in Users \X Pubs, pubs'[up] # None
        PROVE  mem'[pubs'[up]] # None /\ PubOf(mem'[pubs'[up]]) = up
    <3>1. CASE x.pub # None /\ up = PubOf(x)
      <4>1. pubs'[up] = i
        BY <1>6, <1>7, <3>1 DEF TypeOK
      <4> QED
        BY <1>4, <3>1, <4>1
    <3>2. CASE ~(x.pub # None /\ up = PubOf(x))
      <4>1. pubs'[up] = pubs[up] /\ pubs[up] \in Ids
        BY <1>7, <2>3, <3>2 DEF TypeOK
      <4>2. mem[pubs[up]] # None /\ PubOf(mem[pubs[up]]) = up
        BY <2>3, <4>1 DEF IndexInv
      <4>3. CASE pubs[up] = i
        BY <1>4, <1>5, <4>1, <4>2, <4>3
      <4>4. CASE pubs[up] # i
        BY <1>4, <4>1, <4>2, <4>4
      <4> QED
        BY <4>3, <4>4
    <3> QED
      BY <3>1, <3>2
  <2> QED
    BY <2>1, <2>2, <2>3 DEF IndexInv
<1>10. FileInv'
  <2>1. CASE flushed
    <3> SUFFICES ASSUME NEW j \in Ids, NEW k \in Ids,
                        mem'[j] # None, mem'[k] # None, mem'[j].pub # None,
                        PubOf(mem'[j]) = PubOf(mem'[k]), PubOf(mem'[j]) \notin Legacy
                 PROVE  j = k
      BY <1>3, <2>1 DEF FileInv
    <3>1. mem'[k].pub # None /\ PubOf(mem'[j]) \notin ambiguous'
      BY <1>9 DEF IndexInv, PubOf
    <3> QED
      BY <1>9, <3>1 DEF IndexInv
  <2>2. CASE ~flushed
    BY <1>3, <2>2 DEF FileInv
  <2> QED
    BY <2>1, <2>2
<1>11. CoverInv'
  <2> SUFFICES ASSUME NEW j \in Ids, Persisted'[j] # None
               PROVE  Continues(Persisted'[j], mem'[j])
    BY DEF CoverInv
  <2>1. CASE flushed
    BY <1>2, <1>3, <2>1, ContinuesParts DEF IntentTable
  <2>2. CASE ~flushed /\ j # i
    BY <1>3, <1>4, <2>2 DEF CoverInv
  <2>3. CASE ~flushed /\ j = i
    <3>1. Persisted[i] # None /\ Continues(Persisted[i], mem[i])
      BY <1>3, <2>3 DEF CoverInv
    <3>2. mem[i] # None /\ Continues(mem[i], x)
      BY <3>1
    <3>3. Persisted[i] \in Intent /\ mem[i] \in Intent
      BY <1>1, <3>1, <3>2 DEF IntentTable
    <3>4. Continues(Persisted[i], x)
      BY <3>1, <3>2, <3>3, ContinuesParts
    <3> QED
      BY <1>3, <1>4, <2>3, <3>4
  <2> QED
    BY <2>1, <2>2, <2>3
<1>12. UsedInv'
  BY <1>3, <1>4 DEF UsedInv
<1> QED
  BY <1>2, <1>3, <1>9, <1>10, <1>11, <1>12

(* A refused save leaves the repository and its file alone.                *)
LEMMA PersistKeeps ==
  ASSUME TypeInv, IndexInv, FileInv, CoverInv, UsedInv, proc = "up",
         NEW r \in Requests, hid[r] \in Ids, hand[r] \in Intent, Persist(r),
         hid[r] \in used, used' = used, proc' = proc,
         \/ mem[hid[r]] = None /\ Persisted[hid[r]] = None
         \/ mem[hid[r]] # None /\ Continues(mem[hid[r]], hand[r])
  PROVE  /\ IndexInv' /\ FileInv' /\ CoverInv' /\ UsedInv'
         /\ mem' \in {mem, [mem EXCEPT ![hid[r]] = hand[r]]}
         /\ Persisted' \in {Persisted, mem'}
         /\ pc' = [pc EXCEPT ![r] = "done"]
<1> USE DEF TypeInv
<1>1. pc' = [pc EXCEPT ![r] = "done"]
  BY PersistTypes
<1>2. CASE ~Refused(hid[r], hand[r]) /\ Store(hid[r], hand[r], TRUE)
  BY <1>1, <1>2, StoreKeeps
<1>3. CASE ~Refused(hid[r], hand[r]) /\ Store(hid[r], hand[r], FALSE)
  BY <1>1, <1>3, StoreKeeps
<1>4. CASE UNCHANGED repoVars
  BY <1>1, <1>4 DEF repoVars, IndexInv, FileInv, CoverInv, UsedInv, Persisted
<1> QED
  BY <1>2, <1>3, <1>4 DEF Persist

(* Steps that leave the repository, the process and the uuids alone, and   *)
(* take one request out of its creation or transition, keep the invariant. *)
LEMMA QuietKeeps ==
  ASSUME RepositoryInv, UNCHANGED <<repoVars, proc, used>>,
         \A q \in Requests :
           pc'[q] \in {"record", "save", "write"} =>
             /\ pc[q] \in {"record", "save", "write"}
             /\ pc'[q] = "write" <=> pc[q] = "write"
             /\ hid'[q] = hid[q]
             /\ hand'[q] = hand[q],
         proc # "up" => \A q \in Requests : pc'[q] \notin Steps
  PROVE  RepositoryInv'
<1>1. IndexInv' /\ FileInv' /\ CoverInv' /\ UsedInv'
  BY DEF RepositoryInv, repoVars, IndexInv, FileInv, CoverInv, UsedInv, Persisted
<1>2. HandInv'
  BY DEF RepositoryInv, repoVars, HandInv, Persisted
<1>3. DownInv'
  BY DEF DownInv
<1> QED
  BY <1>1, <1>2, <1>3 DEF RepositoryInv

LEMMA InitRepository == Init => RepositoryInv
<1> SUFFICES ASSUME Init PROVE RepositoryInv
  OBVIOUS
<1>1. \A i \in Ids : mem[i] = None
  BY DEF Init, NoIntents
<1>2. IndexInv
  BY <1>1 DEF Init, IndexInv
<1>3. FileInv
  <2> SUFFICES ASSUME NEW i \in Ids, NEW j \in Ids, Persisted[i] # None, Persisted[j] # None,
                      Persisted[i].pub # None, PubOf(Persisted[i]) = PubOf(Persisted[j]),
                      PubOf(Persisted[i]) \notin Legacy, i # j
               PROVE  FALSE
    BY DEF FileInv
  <2>1. InitialFile # None /\ disk = InitialFile /\ Persisted = InitialFile.intents
    BY DEF Init, Persisted, NoIntents
  <2>2. InitialFile \in File /\ Persisted \in IntentTable
    BY <2>1, ConstantsAssumption DEF File
  <2>3. Persisted[i] \in Intent /\ Persisted[j] \in Intent
    BY <2>2 DEF IntentTable
  <2> DEFINE u == Persisted[i].user
             p == Persisted[i].pub
  <2>4. u \in Users /\ p \in Pubs
    BY <2>3 DEF Intent
  <2>5. i \in Holders(InitialFile.intents, u, p) /\ j \in Holders(InitialFile.intents, u, p)
    BY <2>1, <2>3 DEF Holders, PubOf
  <2>6. <<u, p>> \in LoadedAmbiguous(InitialFile)
    BY <2>4, <2>5 DEF LoadedAmbiguous
  <2> QED
    BY <2>1, <2>6 DEF Legacy, PubOf
<1>4. CoverInv
  BY DEF Init, CoverInv
<1>5. UsedInv
  BY <1>1 DEF Init, UsedInv, Persisted, NoIntents
<1>6. HandInv /\ DownInv
  BY DEF Init, HandInv, DownInv, Steps
<1> QED
  BY <1>2, <1>3, <1>4, <1>5, <1>6 DEF RepositoryInv

LEMMA StartKeeps ==
  ASSUME TypeInv, RepositoryInv, NEW r \in Requests, NEW c \in Offered, Start(r, c)
  PROVE  RepositoryInv'
<1>1. c \in Call
  BY ConstantsAssumption
<1>2. FirstStep(c) \in {"resolve", "check", "read"}
  BY <1>1 DEF FirstStep, Call, CanonicalCall, CreateCall, TransitionCall
<1>3. pc' \in {[pc EXCEPT ![r] = FirstStep(c)], [pc EXCEPT ![r] = "done"]} /\ proc = "up"
  BY DEF Start, Goto, Answer
<1>4. UNCHANGED <<repoVars, proc, used, hid, hand>>
  BY DEF Start
<1> QED
  BY <1>2, <1>3, <1>4, QuietKeeps DEF TypeInv, TypeOK

(* A request that runs does so in a process that is up.                    *)
LEMMA RunningIsUp ==
  ASSUME RepositoryInv, NEW r \in Requests, pc[r] \in Steps
  PROVE  proc = "up"
BY DEF RepositoryInv, DownInv

LEMMA RecordKeeps ==
  ASSUME TypeInv, RepositoryInv, NEW r \in Requests, Record(r)
  PROVE  RepositoryInv'
<1>1. pc' = [pc EXCEPT ![r] = "save"] /\ pc[r] = "record" /\ proc = "up"
  BY RunningIsUp DEF Record, Goto, Steps
<1>2. UNCHANGED <<repoVars, proc, used, hid, hand>>
  BY DEF Record, handVars
<1> QED
  BY <1>1, <1>2, QuietKeeps DEF TypeInv, TypeOK

LEMMA ResolveKeeps ==
  ASSUME TypeInv, RepositoryInv, NEW r \in Requests, Resolve(r)
  PROVE  RepositoryInv'
<1>1. pc' \in {[pc EXCEPT ![r] = "lookup"], [pc EXCEPT ![r] = "done"]} /\ proc = "up"
  BY RunningIsUp DEF Resolve, Answer, Goto, Steps
<1>2. UNCHANGED <<repoVars, proc, used, hid, hand>>
  BY DEF Resolve
<1> QED
  BY <1>1, <1>2, QuietKeeps DEF TypeInv, TypeOK

LEMMA LookupKeeps ==
  ASSUME TypeInv, RepositoryInv, NEW r \in Requests,
         \/ LookupExisting(r) \/ LookupKeyTaken(r) \/ LookupUnsound(r)
         \/ CheckExisting(r) \/ CheckNotGranted(r)
  PROVE  RepositoryInv'
<1>1. pc' = [pc EXCEPT ![r] = "done"] /\ proc = "up"
  BY RunningIsUp DEF LookupExisting, LookupKeyTaken, LookupUnsound, CheckExisting,
         CheckNotGranted, Answer, Goto, Steps
<1>2. UNCHANGED <<repoVars, proc, used, hand>>
  BY DEF LookupExisting, LookupKeyTaken, LookupUnsound, CheckExisting,
         CheckNotGranted, handVars
<1>3. \A q \in Requests \ {r} : hid'[q] = hid[q]
  BY DEF LookupExisting, LookupKeyTaken, LookupUnsound, CheckExisting,
         CheckNotGranted, handVars, TypeInv, TypeOK
<1> QED
  BY <1>1, <1>2, <1>3, QuietKeeps DEF TypeInv, TypeOK

LEMMA PublishKeeps ==
  ASSUME TypeInv, RepositoryInv, NEW u \in Users, NEW p \in Pubs, NEW c \in Contents,
         Publish(u, p, c)
  PROVE  RepositoryInv'
<1>1. UNCHANGED <<repoVars, proc, used, pc, hid, hand>> /\ proc = "up"
  BY DEF Publish, handVars
<1> QED
  BY <1>1, QuietKeeps

(* A creation draws a uuid that is new to every table.                     *)
LEMMA NewKeeps ==
  ASSUME TypeInv, RepositoryInv, NEW r \in Requests, NEW i \in Ids,
         LookupNew(r, i) \/ CheckNew(r, i)
  PROVE  RepositoryInv'
<1>1. /\ pc' = [pc EXCEPT ![r] = "record"]
      /\ hid' = [hid EXCEPT ![r] = i]
      /\ used' = used \cup {i}
      /\ i \notin used
      /\ proc = "up"
  BY RunningIsUp DEF LookupNew, CheckNew, Hold, Goto, Steps
<1>2. \A q \in Requests \ {r} : hand'[q] = hand[q] /\ hid'[q] = hid[q] /\ pc'[q] = pc[q]
  BY DEF LookupNew, CheckNew, Hold, Goto, TypeInv, TypeOK
<1>3. UNCHANGED <<repoVars, proc>>
  BY DEF LookupNew, CheckNew
<1>4. Persisted' = Persisted /\ mem' = mem
  BY <1>3 DEF repoVars, Persisted
<1>5. IndexInv' /\ FileInv' /\ CoverInv' /\ UsedInv'
  BY <1>1, <1>3, <1>4 DEF RepositoryInv, repoVars, IndexInv, FileInv, CoverInv, UsedInv
<1>6. mem[i] = None /\ Persisted[i] = None
  BY <1>1 DEF RepositoryInv, UsedInv
<1>7. HandInv'
  BY <1>1, <1>2, <1>4, <1>6 DEF RepositoryInv, HandInv, TypeInv, TypeOK
<1>8. DownInv'
  BY <1>1, <1>3 DEF DownInv
<1> QED
  BY <1>5, <1>7, <1>8 DEF RepositoryInv

LEMMA ReadKeeps ==
  ASSUME TypeInv, RepositoryInv, NEW r \in Requests, Read(r)
  PROVE  RepositoryInv'
<1> DEFINE c == call[r]
           x == [mem[c.id] EXCEPT !.state = c.target]
<1>1. proc = "up" /\ UNCHANGED <<repoVars, proc, used>>
  BY RunningIsUp DEF Read, Steps
<1>2. CASE Visible(c.user, c.id) /\ Legal(mem[c.id].state, c.target)
  <2>1. c.id \in Ids
    BY DEF Read, TypeInv, Carried, TransitionCall
  <2>2. mem[c.id] \in Intent /\ x \in Intent /\ x.state \in Terminal
    <3>1. mem[c.id] \in Intent
      BY <1>2, <2>1 DEF Visible, TypeInv, TypeOK, IntentTable
    <3>2. c.target \in Terminal
      BY <1>2 DEF Legal
    <3> QED
      BY <3>1, <3>2 DEF Intent, LifecycleStates
  <2>3. mem[c.id].state \notin Terminal
    BY <1>2 DEF Legal, Terminal
  <2>4. Continues(mem[c.id], x)
    BY <2>2, <2>3, ContinuesParts DEF Intent
  <2>5. /\ pc' = [pc EXCEPT ![r] = "write"]
        /\ hid' = [hid EXCEPT ![r] = c.id]
        /\ hand' = [hand EXCEPT ![r] = x]
    BY <1>2 DEF Read, Hold, Goto
  <2>6. mem' = mem /\ Persisted' = Persisted
    BY <1>1 DEF repoVars, Persisted
  <2>7. IndexInv' /\ FileInv' /\ CoverInv' /\ UsedInv' /\ DownInv'
    BY <1>1, <2>6 DEF RepositoryInv, repoVars, IndexInv, FileInv, CoverInv, UsedInv, DownInv
  <2>8. mem[c.id] # None
    BY <1>2 DEF Visible
  <2> HIDE DEF x
  <2>9. HandInv'
    BY <1>1, <2>2, <2>4, <2>5, <2>6, <2>8 DEF RepositoryInv, HandInv, TypeInv, TypeOK
  <2> QED
    BY <2>7, <2>9 DEF RepositoryInv
<1>3. CASE ~(Visible(c.user, c.id) /\ Legal(mem[c.id].state, c.target))
  <2>1. pc' = [pc EXCEPT ![r] = "done"] /\ UNCHANGED <<hid, hand>>
    BY <1>3 DEF Read, Answer, Goto
  <2> QED
    BY <1>1, <2>1, QuietKeeps DEF TypeInv, TypeOK
<1> QED
  BY <1>2, <1>3

LEMMA SaveKeeps ==
  ASSUME TypeInv, RepositoryInv, NEW r \in Requests, Save(r)
  PROVE  RepositoryInv'
<1>1. proc = "up" /\ pc[r] = "save" /\ Persist(r) /\ UNCHANGED <<proc, used, hid, hand>>
  BY RunningIsUp DEF Save, handVars, Steps
<1>2. hid[r] \in Ids /\ hand[r] \in Intent
  BY <1>1 DEF TypeInv, Carried
<1>3. /\ hid[r] \in used
      /\ mem[hid[r]] = None
      /\ Persisted[hid[r]] = None
      /\ \A q \in Requests \ {r} : pc[q] \in {"record", "save"} => hid[q] # hid[r]
  BY <1>1 DEF RepositoryInv, HandInv
<1>4. /\ IndexInv' /\ FileInv' /\ CoverInv' /\ UsedInv'
      /\ mem' \in {mem, [mem EXCEPT ![hid[r]] = hand[r]]}
      /\ Persisted' \in {Persisted, mem'}
      /\ pc' = [pc EXCEPT ![r] = "done"]
  BY <1>1, <1>2, <1>3, PersistKeeps DEF RepositoryInv
<1>5. mem \in IntentTable /\ Persisted \in IntentTable
  BY PersistedTypes DEF TypeInv, TypeOK
<1>6. \A j \in Ids \ {hid[r]} : mem'[j] = mem[j]
  BY <1>4, <1>5 DEF IntentTable
<1>7. HandInv'
  <2>1. ASSUME NEW q \in Requests, pc'[q] \in {"record", "save"}
        PROVE  /\ hid'[q] \in used'
               /\ mem'[hid'[q]] = None
               /\ Persisted'[hid'[q]] = None
               /\ \A s \in Requests \ {q} : pc'[s] \in {"record", "save"} => hid'[s] # hid'[q]
    <3>1. q # r /\ pc[q] \in {"record", "save"}
      BY <1>4, <2>1 DEF TypeInv, TypeOK
    <3>2. hid[q] \in Ids /\ hid[q] # hid[r]
      BY <1>3, <3>1 DEF TypeInv, Carried
    <3>3. mem[hid[q]] = None /\ Persisted[hid[q]] = None /\ hid[q] \in used
      BY <3>1 DEF RepositoryInv, HandInv
    <3>4. mem'[hid[q]] = None /\ Persisted'[hid[q]] = None
      BY <1>4, <1>6, <3>2, <3>3
    <3>5. \A s \in Requests : pc'[s] \in {"record", "save"} => pc[s] \in {"record", "save"}
      BY <1>4 DEF TypeInv, TypeOK
    <3> QED
      BY <1>1, <3>1, <3>3, <3>4, <3>5 DEF RepositoryInv, HandInv
  <2>2. ASSUME NEW q \in Requests, pc'[q] = "write"
        PROVE  /\ Continues(mem'[hid'[q]], hand'[q]) /\ mem'[hid'[q]] # None
               /\ hand'[q].state \in Terminal
    <3>1. pc[q] = "write"
      BY <1>4, <2>2 DEF TypeInv, TypeOK
    <3>2. /\ hid[q] \in Ids
          /\ Continues(mem[hid[q]], hand[q]) /\ mem[hid[q]] # None
          /\ hand[q].state \in Terminal
      BY <3>1 DEF RepositoryInv, HandInv, TypeInv, Carried
    <3>3. mem'[hid[q]] = mem[hid[q]]
      BY <1>3, <1>6, <3>2
    <3> QED
      BY <1>1, <3>2, <3>3
  <2> QED
    BY <2>1, <2>2 DEF HandInv
<1>8. DownInv'
  BY <1>1 DEF DownInv
<1> QED
  BY <1>4, <1>7, <1>8 DEF RepositoryInv

LEMMA WriteKeeps ==
  ASSUME TypeInv, RepositoryInv, NEW r \in Requests, Write(r)
  PROVE  RepositoryInv'
<1>1. proc = "up" /\ pc[r] = "write" /\ Persist(r) /\ UNCHANGED <<proc, used, hid, hand>>
  BY RunningIsUp DEF Write, handVars, Steps
<1>2. hid[r] \in Ids /\ hand[r] \in Intent
  BY <1>1 DEF TypeInv, Carried
<1>3. /\ mem[hid[r]] # None /\ Continues(mem[hid[r]], hand[r])
      /\ hand[r].state \in Terminal
      /\ hid[r] \in used
  BY <1>1, <1>2 DEF RepositoryInv, HandInv, UsedInv
<1>4. /\ IndexInv' /\ FileInv' /\ CoverInv' /\ UsedInv'
      /\ mem' \in {mem, [mem EXCEPT ![hid[r]] = hand[r]]}
      /\ Persisted' \in {Persisted, mem'}
      /\ pc' = [pc EXCEPT ![r] = "done"]
  BY <1>1, <1>2, <1>3, PersistKeeps DEF RepositoryInv
<1>5. mem \in IntentTable /\ Persisted \in IntentTable
  BY PersistedTypes DEF TypeInv, TypeOK
<1>6. /\ \A j \in Ids \ {hid[r]} : mem'[j] = mem[j]
      /\ mem'[hid[r]] \in {mem[hid[r]], hand[r]}
  BY <1>2, <1>4, <1>5 DEF IntentTable
<1>7. HandInv'
  <2>1. ASSUME NEW q \in Requests, pc'[q] \in {"record", "save"}
        PROVE  /\ hid'[q] \in used'
               /\ mem'[hid'[q]] = None
               /\ Persisted'[hid'[q]] = None
               /\ \A s \in Requests \ {q} : pc'[s] \in {"record", "save"} => hid'[s] # hid'[q]
    <3>1. pc[q] \in {"record", "save"}
      BY <1>4, <2>1 DEF TypeInv, TypeOK
    <3>2. mem[hid[q]] = None /\ Persisted[hid[q]] = None /\ hid[q] \in used /\ hid[q] \in Ids
      BY <3>1 DEF RepositoryInv, HandInv, TypeInv, Carried
    <3>3. hid[q] # hid[r]
      BY <1>3, <3>2
    <3>4. mem'[hid[q]] = None /\ Persisted'[hid[q]] = None
      BY <1>4, <1>6, <3>2, <3>3
    <3>5. \A s \in Requests : pc'[s] \in {"record", "save"} => pc[s] \in {"record", "save"}
      BY <1>4 DEF TypeInv, TypeOK
    <3> QED
      BY <1>1, <3>1, <3>2, <3>4, <3>5 DEF RepositoryInv, HandInv
  <2>2. ASSUME NEW q \in Requests, pc'[q] = "write"
        PROVE  /\ Continues(mem'[hid'[q]], hand'[q]) /\ mem'[hid'[q]] # None
               /\ hand'[q].state \in Terminal
    <3>1. pc[q] = "write"
      BY <1>4, <2>2 DEF TypeInv, TypeOK
    <3>2. /\ hid[q] \in Ids /\ hand[q] \in Intent
          /\ Continues(mem[hid[q]], hand[q]) /\ mem[hid[q]] # None
          /\ hand[q].state \in Terminal
      BY <3>1 DEF RepositoryInv, HandInv, TypeInv, Carried
    <3>3. CASE mem'[hid[q]] = mem[hid[q]]
      BY <1>1, <3>2, <3>3
    <3>4. CASE hid[q] = hid[r] /\ mem'[hid[q]] = hand[r]
      <4>1. mem[hid[r]] \in Intent
        BY <1>2, <1>3, <1>5 DEF IntentTable
      <4>2. Continues(hand[r], hand[q])
        BY <1>2, <1>3, <3>2, <3>4, <4>1, ContinuesParts
      <4> QED
        BY <1>1, <1>2, <3>2, <3>4, <4>2
    <3> QED
      BY <1>6, <3>2, <3>3, <3>4
  <2> QED
    BY <2>1, <2>2 DEF HandInv
<1>8. DownInv'
  BY <1>1 DEF DownInv
<1> QED
  BY <1>4, <1>7, <1>8 DEF RepositoryInv

LEMMA EmptyKeeps ==
  ASSUME RepositoryInv, EmptyMemory, UNCHANGED <<disk, used>>
  PROVE  IndexInv' /\ FileInv' /\ UsedInv'
<1>1. \A i \in Ids : mem'[i] = None
  BY DEF EmptyMemory, NoIntents
<1>2. Persisted' = Persisted
  BY DEF Persisted
<1>3. IndexInv'
  BY <1>1 DEF EmptyMemory, IndexInv
<1> QED
  BY <1>1, <1>2, <1>3 DEF RepositoryInv, FileInv, UsedInv

(* The loader rebuilds the index: it names the only holder of each         *)
(* publication that is not ambiguous.                                      *)
LEMMA LoadedIndex ==
  ASSUME NEW f \in File
  PROVE  /\ \A i \in Ids :
              f.intents[i] # None /\ f.intents[i].pub # None
                /\ PubOf(f.intents[i]) \notin LoadedAmbiguous(f)
                => LoadedPubs(f)[PubOf(f.intents[i])] = i
         /\ \A up \in Users \X Pubs :
              LoadedPubs(f)[up] # None =>
                f.intents[LoadedPubs(f)[up]] # None /\ PubOf(f.intents[LoadedPubs(f)[up]]) = up
<1>1. f.intents \in IntentTable
  BY DEF File
<1>2. ASSUME NEW i \in Ids, f.intents[i] # None, f.intents[i].pub # None,
             PubOf(f.intents[i]) \notin LoadedAmbiguous(f)
      PROVE  LoadedPubs(f)[PubOf(f.intents[i])] = i
  <2> DEFINE u == f.intents[i].user
             p == f.intents[i].pub
  <2>1. u \in Users /\ p \in Pubs
    BY <1>1, <1>2 DEF IntentTable, Intent
  <2>2. i \in Holders(f.intents, u, p)
    BY <1>2 DEF Holders
  <2>3. \A j \in Holders(f.intents, u, p) : j = i
    BY <1>2, <2>1, <2>2 DEF LoadedAmbiguous, PubOf
  <2>4. (CHOOSE j \in Ids : j \in Holders(f.intents, u, p)) = i
    BY <2>2, <2>3
  <2> QED
    BY <1>2, <2>1, <2>2, <2>4 DEF LoadedPubs, PubOf
<1>3. ASSUME NEW up \in Users \X Pubs, LoadedPubs(f)[up] # None
      PROVE  f.intents[LoadedPubs(f)[up]] # None /\ PubOf(f.intents[LoadedPubs(f)[up]]) = up
  <2> DEFINE H == Holders(f.intents, up[1], up[2])
  <2>1. H # {} /\ LoadedPubs(f)[up] = CHOOSE i \in Ids : i \in H
    BY <1>3 DEF LoadedPubs
  <2>2. LoadedPubs(f)[up] \in H
    BY <2>1 DEF Holders
  <2>3. up = <<up[1], up[2]>>
    OBVIOUS
  <2> QED
    BY <2>2, <2>3 DEF Holders, PubOf
<1> QED
  BY <1>2, <1>3

LEMMA BootKeeps ==
  ASSUME TypeInv, RepositoryInv, Boot
  PROVE  RepositoryInv'
<1>1. proc = "down" /\ UNCHANGED <<disk, used, pc, hid, hand>>
  BY DEF Boot, handVars
<1>2. \A r \in Requests : pc'[r] \notin Steps
  BY <1>1 DEF RepositoryInv, DownInv
<1>3. HandInv' /\ DownInv'
  BY <1>2 DEF HandInv, DownInv, Steps
<1>4. Persisted' = Persisted
  BY <1>1 DEF Persisted
<1>5. CASE disk = None \/ AuditWired
  <2>1. EmptyMemory /\ (proc' = "up" => disk = None)
    BY <1>5 DEF Boot
  <2>2. IndexInv' /\ FileInv' /\ UsedInv'
    BY <1>1, <2>1, EmptyKeeps
  <2>3. CoverInv'
    BY <1>1, <2>1 DEF CoverInv, Persisted, NoIntents
  <2> QED
    BY <1>3, <2>2, <2>3 DEF RepositoryInv
<1>6. CASE disk # None /\ ~AuditWired
  <2>1. /\ mem' = disk.intents
        /\ pubs' = LoadedPubs(disk)
        /\ ambiguous' = LoadedAmbiguous(disk)
    BY <1>6 DEF Boot
  <2>2. disk \in File /\ mem' \in IntentTable /\ Persisted = mem'
    BY <1>6, <2>1 DEF TypeInv, TypeOK, File, Persisted
  <2>3. ambiguous' \subseteq Legacy
    <3> SUFFICES ASSUME NEW up \in LoadedAmbiguous(disk), up \notin Legacy
                 PROVE  FALSE
      BY <2>1
    <3>1. PICK i \in Ids, j \in Ids :
            /\ i \in Holders(disk.intents, up[1], up[2])
            /\ j \in Holders(disk.intents, up[1], up[2])
            /\ i # j
      BY DEF LoadedAmbiguous, Holders
    <3>2. up \in Users \X Pubs /\ up = <<up[1], up[2]>>
      BY DEF LoadedAmbiguous
    <3>3. /\ Persisted[i] # None /\ Persisted[j] # None
          /\ Persisted[i].pub # None
          /\ PubOf(Persisted[i]) = up /\ PubOf(Persisted[j]) = up
      BY <2>1, <2>2, <3>1, <3>2 DEF Holders, PubOf
    <3> QED
      BY <3>1, <3>3 DEF RepositoryInv, FileInv
  <2>4. IndexInv'
    BY <2>1, <2>2, <2>3, LoadedIndex DEF IndexInv
  <2>5. FileInv' /\ UsedInv'
    BY <1>1, <1>4, <2>2 DEF RepositoryInv, FileInv, UsedInv
  <2>6. CoverInv'
    BY <1>4, <2>2, ContinuesParts DEF CoverInv, IntentTable
  <2> QED
    BY <1>3, <2>4, <2>5, <2>6 DEF RepositoryInv
<1> QED
  BY <1>5, <1>6

LEMMA CrashKeeps ==
  ASSUME TypeInv, RepositoryInv, Crash
  PROVE  RepositoryInv'
<1>1. proc' = "down" /\ EmptyMemory /\ UNCHANGED <<disk, used>>
  BY DEF Crash
<1>2. \A r \in Requests : pc'[r] \notin Steps
  BY DEF Crash, TypeInv, TypeOK, Steps
<1>3. HandInv' /\ DownInv'
  BY <1>2 DEF HandInv, DownInv, Steps
<1>4. CoverInv'
  BY <1>1 DEF CoverInv
<1> QED
  BY <1>1, <1>3, <1>4, EmptyKeeps DEF RepositoryInv

LEMMA NextKeeps == TypeInv /\ RepositoryInv /\ [Next]_vars => RepositoryInv'
<1> SUFFICES ASSUME TypeInv, RepositoryInv, [Next]_vars PROVE RepositoryInv'
  OBVIOUS
<1>1. ASSUME NEW r \in Requests, Step(r) PROVE RepositoryInv'
  BY <1>1, RecordKeeps, SaveKeeps, ResolveKeeps, LookupKeeps, NewKeeps, ReadKeeps, WriteKeeps
     DEF Step, Canonical, Create, Finish, Transition
<1>2. CASE UNCHANGED vars
  BY <1>2, QuietKeeps DEF vars, handVars, RepositoryInv, DownInv
<1> QED
  BY <1>1, <1>2, StartKeeps, PublishKeeps, BootKeeps, CrashKeeps DEF Next

(* The inductive invariant holds in every reachable state.                 *)
THEOREM RepositoryCorrect == Spec => []RepositoryInv
BY InitTypes, InitRepository, NextTypes, NextKeeps, PTL DEF Spec

(* One order intent for a user's publication, in memory and in the file,   *)
(* for any number of requests, crashes and failed flushes.                 *)
THEOREM PublicationUnique == Spec => []OnePerPublication
<1>1. TypeInv /\ RepositoryInv => OnePerPublication
  <2> SUFFICES ASSUME TypeInv, RepositoryInv, NEW u \in Users, NEW p \in Pubs,
                      <<u, p>> \notin Legacy
               PROVE  /\ \A i, j \in Holders(mem, u, p) : i = j
                      /\ \A i, j \in Holders(Persisted, u, p) : i = j
    BY DEF OnePerPublication
  <2>1. mem \in IntentTable /\ Persisted \in IntentTable
    BY PersistedTypes DEF TypeInv, TypeOK
  <2>2. \A i \in Holders(mem, u, p) : i \in Ids /\ pubs[<<u, p>>] = i
    BY <2>1, HoldersOf DEF Holders, RepositoryInv, IndexInv
  <2>3. \A i, j \in Holders(Persisted, u, p) : i = j
    BY <2>1, HoldersOf DEF Holders, RepositoryInv, FileInv
  <2> QED
    BY <2>2, <2>3
<1> QED
  BY <1>1, InitTypes, InitRepository, NextTypes, NextKeeps, PTL DEF Spec

(* The step keeps what the file holds.                                     *)
Kept ==
  \A i \in Ids :
    LET x == Persisted[i]
        y == Persisted'[i]
    IN  x # None => Continues(x, y)

LEMMA NextKept == TypeInv /\ RepositoryInv /\ [Next]_vars => Kept
<1>1. ASSUME TypeInv, Persisted' = Persisted
      PROVE  Kept
  BY <1>1, PersistedTypes, ContinuesParts DEF Kept, TypeInv, IntentTable
<1>2. ASSUME TypeInv, RepositoryInv, NEW r \in Requests, Save(r) \/ Write(r)
      PROVE  Kept
  <2>1. /\ pc[r] \in {"save", "write"} /\ Persist(r) /\ UNCHANGED <<proc, used>> /\ proc = "up"
        /\ hid[r] \in Ids /\ hand[r] \in Intent
    BY <1>2, RunningIsUp DEF Save, Write, TypeInv, Carried, Steps
  <2>2. RepositoryInv'
    BY <1>2, SaveKeeps, WriteKeeps
  <2>3. CASE Persisted' = Persisted
    BY <1>1, <1>2, <2>3
  <2>4. CASE Persisted' = mem'
    <3>1. \A i \in Ids : Persisted[i] # None => Continues(Persisted[i], mem[i])
      BY <1>2, <2>1 DEF RepositoryInv, CoverInv
    <3>2. mem' \in {mem, [mem EXCEPT ![hid[r]] = hand[r]]}
      BY <2>1 DEF Persist, Store, repoVars
    <3>3. mem \in IntentTable /\ Persisted \in IntentTable
      BY <1>2, PersistedTypes DEF TypeInv, TypeOK
    <3>4. \/ mem[hid[r]] = None /\ Persisted[hid[r]] = None
          \/ mem[hid[r]] # None /\ Continues(mem[hid[r]], hand[r])
      BY <1>2, <2>1 DEF RepositoryInv, HandInv
    <3> SUFFICES ASSUME NEW i \in Ids, Persisted[i] # None
                 PROVE  Continues(Persisted[i], mem'[i])
      BY <2>4 DEF Kept
    <3>5. Persisted[i] \in Intent /\ mem[i] \in Intent /\ Continues(Persisted[i], mem[i])
      BY <3>1, <3>3 DEF IntentTable, Continues
    <3>6. CASE mem'[i] = mem[i]
      BY <3>5, <3>6
    <3>7. CASE i = hid[r] /\ mem'[i] = hand[r]
      BY <2>1, <3>4, <3>5, <3>7, ContinuesParts
    <3> QED
      BY <2>1, <3>2, <3>3, <3>6, <3>7 DEF IntentTable
  <2>5. Persisted' \in {Persisted, mem'}
    <3>1. CASE UNCHANGED repoVars
      BY <3>1 DEF repoVars, Persisted
    <3>2. ASSUME NEW flushed \in BOOLEAN, Store(hid[r], hand[r], flushed)
          PROVE  Persisted' \in {Persisted, mem'}
      <4>1. [intents |-> mem', order |-> memOrder'] \in File
        BY <1>2, <2>1, <3>2, StoreTypes DEF File, TypeInv
      <4>2. disk' \in {disk, [intents |-> mem', order |-> memOrder']}
        BY <3>2 DEF Store
      <4> QED
        BY <4>1, <4>2 DEF Persisted
    <3> QED
      BY <2>1, <3>1, <3>2 DEF Persist
  <2> QED
    BY <2>3, <2>4, <2>5
<1>3. ASSUME TypeInv, RepositoryInv, Next
      PROVE  Kept
  <2>1. ASSUME NEW r \in Requests, Step(r)
        PROVE  (Save(r) \/ Write(r)) \/ UNCHANGED disk
    BY <2>1 DEF Step, Canonical, Create, Finish, Transition, Record, Resolve, LookupExisting,
       LookupKeyTaken, LookupUnsound, LookupNew, CheckExisting, CheckNotGranted, CheckNew, Read, repoVars
  <2>2. (\E r \in Requests : Save(r) \/ Write(r)) \/ UNCHANGED disk
    BY <1>3, <2>1 DEF Next, Start, Publish, Boot, Crash, repoVars
  <2> QED
    BY <1>1, <1>2, <1>3, <2>2 DEF Persisted
<1>4. TypeInv /\ UNCHANGED vars => Kept
  BY <1>1 DEF vars, repoVars, Persisted
<1> QED
  BY <1>3, <1>4

(* What the file holds stays: no step drops an intent from it, changes its *)
(* identity or content, or takes its end back.                             *)
THEOREM FileForGood == Spec => PersistedForGood
<1>1. TypeInv /\ RepositoryInv /\ [Next]_vars => [Kept]_vars
  BY NextKept
<1> QED
  BY <1>1, InitTypes, InitRepository, NextTypes, NextKeeps, PTL DEF Spec, PersistedForGood, Kept
=============================================================================
