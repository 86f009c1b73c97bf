---------------------- MODULE OrderIntentsAnswersProofs ----------------------
(***************************************************************************)
(* Proofs about the answers of the order intents service and about what is *)
(* left of them after crashes: what a client is told of is its own and is  *)
(* in the file, only those who may end an intent end it, a restart         *)
(* rebuilds the memory, a publication that a file holds twice fails        *)
(* closed, and the indexes find every intent.                              *)
(***************************************************************************)
EXTENDS OrderIntentsProofs, WellFoundedInduction

USE NoneAssumption

(***************************************************************************)
(* What a request holds is what it was asked for.                          *)
(***************************************************************************)

(* A creation holds an intent of its caller, a canonical one with the      *)
(* content it resolved; a transition an intent its caller may end.         *)
HandFits(r) ==
  /\ pc[r] \in {"record", "save"} =>
       /\ hand[r].user = call[r].user
       /\ \/ /\ call[r] \in CanonicalCall
             /\ hand[r].pub = call[r].pub
             /\ hand[r].content = record[r]
          \/ call[r] \in CreateCall /\ hand[r].key = call[r].key
  /\ pc[r] = "write" =>
       /\ call[r] \in TransitionCall
       /\ hid[r] = call[r].id
       /\ hand[r].state = call[r].target
       /\ call[r].user \in Admins \cup {hand[r].user}

CallInv == \A r \in Requests : HandFits(r)

LEMMA OneFits ==
  ASSUME CallInv, NEW r \in Requests, HandFits(r)',
         \A q \in Requests : q # r =>
           /\ pc'[q] = pc[q] /\ call'[q] = call[q] /\ record'[q] = record[q]
           /\ hid'[q] = hid[q] /\ hand'[q] = hand[q]
  PROVE  CallInv'
BY DEF CallInv, HandFits

LEMMA InitFits == Init => CallInv
  BY DEF Init, CallInv, HandFits

(* Steps that hold nothing, or let go of what they held.                   *)
LEMMA IdleFits ==
  ASSUME TypeInv, CallInv, NEW r \in Requests,
         \/ \E c \in Offered : Start(r, c)
         \/ Resolve(r) \/ LookupExisting(r) \/ LookupKeyTaken(r) \/ LookupUnsound(r)
         \/ CheckExisting(r) \/ CheckNotGranted(r) \/ Save(r) \/ Write(r)
  PROVE  CallInv'
<1> USE DEF Goto, Answer, TypeInv, TypeOK, handVars
<1>1. \A c \in Offered : FirstStep(c) \in {"resolve", "check", "read"}
  BY ConstantsAssumption DEF FirstStep, Call, CanonicalCall, CreateCall, TransitionCall
<1>2. CASE Save(r) \/ Write(r)
  <2>1. pc' = [pc EXCEPT ![r] = "done"]
    BY <1>2, PersistTypes DEF Save, Write, Carried
  <2>2. UNCHANGED <<call, record, hid, hand>>
    BY <1>2 DEF Save, Write
  <2> QED
    BY <2>1, <2>2, OneFits DEF HandFits
<1>3. CASE ~(Save(r) \/ Write(r))
  <2>1. pc'[r] \notin {"record", "save", "write"}
    BY <1>1, <1>3 DEF Start, Resolve, LookupExisting, LookupKeyTaken, LookupUnsound, CheckExisting,
       CheckNotGranted
  <2>2. \A q \in Requests : q # r =>
          /\ pc'[q] = pc[q] /\ call'[q] = call[q] /\ record'[q] = record[q]
          /\ hid'[q] = hid[q] /\ hand'[q] = hand[q]
    BY <1>3 DEF Start, Resolve, LookupExisting, LookupKeyTaken, LookupUnsound, CheckExisting,
       CheckNotGranted
  <2> QED
    BY <2>1, <2>2, OneFits DEF HandFits
<1> QED
  BY <1>2, <1>3

LEMMA CreateFits ==
  ASSUME TypeInv, CallInv, NEW r \in Requests,
         \/ \E i \in Ids : LookupNew(r, i) \/ CheckNew(r, i)
         \/ Record(r)
  PROVE  CallInv'
<1> USE DEF Goto, TypeInv, TypeOK, handVars
<1>1. ASSUME NEW i \in Ids, LookupNew(r, i) PROVE CallInv'
  <2> DEFINE x == [user |-> call[r].user, key |-> RequestKey(call[r]), pub |-> call[r].pub,
                   content |-> record[r], state |-> "STAGED"]
  <2>1. /\ call[r] \in CanonicalCall
        /\ pc' = [pc EXCEPT ![r] = "record"]
        /\ hid' = [hid EXCEPT ![r] = i] /\ hand' = [hand EXCEPT ![r] = x]
        /\ UNCHANGED <<call, record>>
    BY <1>1 DEF LookupNew, Hold, Carried
  <2>2. x.user = call[r].user /\ x.pub = call[r].pub /\ x.content = record[r]
    OBVIOUS
  <2> HIDE DEF x
  <2>3. hand'[r] = x /\ pc'[r] = "record"
    BY <2>1
  <2> QED
    BY <2>1, <2>2, <2>3, OneFits DEF HandFits
<1>2. ASSUME NEW i \in Ids, CheckNew(r, i) PROVE CallInv'
  <2> DEFINE x == [user |-> call[r].user, key |-> call[r].key, pub |-> None, content |-> None,
                   state |-> "STAGED"]
  <2>1. /\ call[r] \in CreateCall
        /\ pc' = [pc EXCEPT ![r] = "record"]
        /\ hid' = [hid EXCEPT ![r] = i] /\ hand' = [hand EXCEPT ![r] = x]
        /\ UNCHANGED <<call, record>>
    BY <1>2 DEF CheckNew, Hold, Carried
  <2>2. x.user = call[r].user /\ x.key = call[r].key
    OBVIOUS
  <2> HIDE DEF x
  <2>3. hand'[r] = x /\ pc'[r] = "record"
    BY <2>1
  <2> QED
    BY <2>1, <2>2, <2>3, OneFits DEF HandFits
<1>3. CASE Record(r)
  <2>1. /\ pc[r] = "record" /\ pc' = [pc EXCEPT ![r] = "save"]
        /\ UNCHANGED <<call, record, hid, hand>>
    BY <1>3 DEF Record
  <2> QED
    BY <2>1, OneFits DEF CallInv, HandFits
<1> QED
  BY <1>1, <1>2, <1>3

LEMMA ReadFits ==
  ASSUME TypeInv, CallInv, NEW r \in Requests, Read(r)
  PROVE  CallInv'
<1> USE DEF Goto, Answer, TypeInv, TypeOK
<1> DEFINE c == call[r]
<1> DEFINE x == [mem[c.id] EXCEPT !.state = c.target]
<1>1. c \in TransitionCall /\ c.id \in Ids
  BY DEF Read, Carried, TransitionCall
<1>2. CASE Visible(c.user, c.id) /\ Legal(mem[c.id].state, c.target)
  <2>1. /\ pc' = [pc EXCEPT ![r] = "write"]
        /\ hid' = [hid EXCEPT ![r] = c.id] /\ hand' = [hand EXCEPT ![r] = x]
        /\ UNCHANGED <<call, record>>
    BY <1>2 DEF Read, Hold
  <2>2. mem[c.id] \in Intent
    BY <1>1, <1>2 DEF Visible, IntentTable
  <2>3. x.user = mem[c.id].user /\ x.state = c.target
    BY <2>2 DEF Intent
  <2>4. c.user \in Admins \cup {x.user}
    BY <1>2, <2>3 DEF Visible
  <2> HIDE DEF x
  <2>5. hand'[r] = x /\ pc'[r] = "write" /\ hid'[r] = c.id
    BY <2>1
  <2> QED
    BY <1>1, <2>1, <2>3, <2>4, <2>5, OneFits DEF HandFits
<1>3. CASE ~(Visible(c.user, c.id) /\ Legal(mem[c.id].state, c.target))
  BY <1>3, OneFits DEF Read, HandFits
<1> QED
  BY <1>2, <1>3

LEMMA NextFits == TypeInv /\ CallInv /\ [Next]_vars => CallInv'
<1> SUFFICES ASSUME TypeInv, CallInv, [Next]_vars PROVE CallInv'
  OBVIOUS
<1>1. ASSUME NEW r \in Requests, Step(r) \/ \E c \in Offered : Start(r, c)
      PROVE  CallInv'
  BY <1>1, IdleFits, CreateFits, ReadFits DEF Step, Canonical, Create, Finish, Transition
<1>2. CASE Crash
  BY <1>2 DEF Crash, TypeInv, TypeOK, Steps, CallInv, HandFits
<1>3. CASE UNCHANGED vars \/ Boot \/ \E u \in Users, p \in Pubs, c \in Contents : Publish(u, p, c)
  BY <1>3 DEF vars, Boot, Publish, handVars, CallInv, HandFits
<1> QED
  BY <1>1, <1>2, <1>3 DEF Next

-----------------------------------------------------------------------------
(***************************************************************************)
(* The index of keys.                                                      *)
(***************************************************************************)

(* What the index names has the key it is named for.                       *)
KeyInv ==
  \A jk \in JoinedKeys :
    idem[jk] # None => LET x == mem[idem[jk]] IN x # None /\ Join[x.user][x.key] = jk

LEMMA LoadedKeys ==
  ASSUME NEW f \in File, NEW jk \in JoinedKeys, LoadedIdem(f)[jk] # None
  PROVE  LET x == f.intents[LoadedIdem(f)[jk]] IN x # None /\ Join[x.user][x.key] = jk
<1>1. \E n \in 1..Len(f.order) : LastKeyedAt(f, n, jk)
  BY DEF LoadedIdem
<1> DEFINE n == CHOOSE m \in 1..Len(f.order) : LastKeyedAt(f, m, jk)
<1>2. LastKeyedAt(f, n, jk)
  BY <1>1
<1>3. LoadedIdem(f)[jk] = f.order[n]
  BY <1>1 DEF LoadedIdem
<1> HIDE DEF n
<1> QED
  BY <1>2, <1>3 DEF LastKeyedAt, KeyedAt

LEMMA StoreKeys ==
  ASSUME TypeInv, RepositoryInv, KeyInv, NEW r \in Requests, Save(r) \/ Write(r)
  PROVE  KeyInv'
<1>1. hid[r] \in Ids /\ hand[r] \in Intent /\ hand[r] # None /\ pc[r] \in {"save", "write"}
  BY DEF Save, Write, TypeInv, Carried
<1>2. CASE UNCHANGED repoVars
  BY <1>2 DEF repoVars, KeyInv
<1>3. CASE \E flushed \in BOOLEAN : Store(hid[r], hand[r], flushed)
  <2> DEFINE key == Join[hand[r].user][hand[r].key]
  <2>1. key \in JoinedKeys
    BY <1>1, ConstantsAssumption DEF Intent
  <2>2. mem' = [mem EXCEPT ![hid[r]] = hand[r]] /\ idem' = [idem EXCEPT ![key] = hid[r]]
    BY <1>3 DEF Store
  <2>3. mem[hid[r]] # None => mem[hid[r]].user = hand[r].user /\ mem[hid[r]].key = hand[r].key
    <3>1. mem[hid[r]] # None => mem[hid[r]] \in Intent /\ Continues(mem[hid[r]], hand[r])
      BY <1>1 DEF RepositoryInv, HandInv, TypeInv, TypeOK, IntentTable
    <3> QED
      BY <1>1, <3>1, ContinuesParts
  <2> SUFFICES ASSUME NEW jk \in JoinedKeys, idem'[jk] # None
               PROVE  LET x == mem'[idem'[jk]] IN x # None /\ Join[x.user][x.key] = jk
    BY DEF KeyInv
  <2>4. /\ mem'[hid[r]] = hand[r]
        /\ \A i \in Ids : i # hid[r] => mem'[i] = mem[i]
    BY <1>1, <2>2 DEF TypeInv, TypeOK, IntentTable
  <2>5. CASE jk = key
    <3>1. idem'[jk] = hid[r]
      BY <2>1, <2>2, <2>5 DEF TypeInv, TypeOK
    <3> QED
      BY <1>1, <2>4, <2>5, <3>1
  <2>6. CASE jk # key
    <3>1. idem'[jk] = idem[jk] /\ idem[jk] \in Ids
      BY <2>2, <2>6 DEF TypeInv, TypeOK
    <3>2. LET x == mem[idem[jk]] IN x # None /\ Join[x.user][x.key] = jk
      BY <3>1 DEF KeyInv
    <3>3. idem[jk] # hid[r]
      BY <2>3, <2>6, <3>2
    <3> QED
      BY <2>4, <3>1, <3>2, <3>3
  <2> QED
    BY <2>5, <2>6
<1> QED
  BY <1>2, <1>3 DEF Save, Write, Persist, repoVars

LEMMA NextKeys == TypeInv /\ RepositoryInv /\ KeyInv /\ [Next]_vars => KeyInv'
<1> SUFFICES ASSUME TypeInv, RepositoryInv, KeyInv, [Next]_vars PROVE KeyInv'
  OBVIOUS
<1>1. ASSUME NEW r \in Requests, Step(r)
      PROVE  (Save(r) \/ Write(r)) \/ UNCHANGED <<mem, idem>>
  BY <1>1 DEF Step, Canonical, Create, Finish, Transition, Record, Resolve, LookupExisting,
     LookupKeyTaken, LookupUnsound, LookupNew, CheckExisting, CheckNotGranted, CheckNew, Read, repoVars
<1>2. CASE UNCHANGED <<mem, idem>>
  BY <1>2 DEF KeyInv
<1>3. CASE EmptyMemory
  BY <1>3 DEF EmptyMemory, KeyInv
<1>4. CASE disk \in File /\ mem' = disk.intents /\ idem' = LoadedIdem(disk)
  BY <1>4, LoadedKeys DEF KeyInv
<1>5. Boot => EmptyMemory \/ (disk \in File /\ mem' = disk.intents /\ idem' = LoadedIdem(disk))
  BY DEF Boot, TypeInv, TypeOK
<1> QED
  BY <1>1, <1>2, <1>3, <1>4, <1>5, StoreKeys DEF Next, Start, Publish, Crash, vars, repoVars

-----------------------------------------------------------------------------
(***************************************************************************)
(* The theorems.                                                           *)
(***************************************************************************)

AnswerInv == TypeInv /\ RepositoryInv /\ CallInv /\ KeyInv

LEMMA InitAnswers == Init => AnswerInv
<1>1. Init => KeyInv
  BY DEF Init, KeyInv
<1> QED
  BY <1>1, InitTypes, InitRepository, InitFits DEF AnswerInv

LEMMA NextAnswers == AnswerInv /\ [Next]_vars => AnswerInv'
  BY NextTypes, NextKeeps, NextFits, NextKeys DEF AnswerInv

(* An intent changes only by a transition that its owner or an admin asked *)
(* for, to the state asked for, though the check and the writing are steps *)
(* between which others may run.                                           *)
THEOREM EndedByRight == Spec => EndedByOwnerOrAdmin
<1> DEFINE Right ==
      \A i \in Ids :
        (proc = "up" /\ proc' = "up" /\ mem[i] # None /\ mem'[i] # mem[i]) =>
          \E r \in Requests :
            /\ call[r] # None
            /\ call[r].op = "transition"
            /\ call[r].id = i
            /\ call[r].user \in Admins \cup {mem[i].user}
            /\ mem'[i] = [mem[i] EXCEPT !.state = call[r].target]
<1>1. ASSUME AnswerInv, Next PROVE Right
  <2> SUFFICES ASSUME NEW i \in Ids, proc = "up", proc' = "up", mem[i] # None, mem'[i] # mem[i]
               PROVE  \E r \in Requests :
                        /\ call[r] # None
                        /\ call[r].op = "transition"
                        /\ call[r].id = i
                        /\ call[r].user \in Admins \cup {mem[i].user}
                        /\ mem'[i] = [mem[i] EXCEPT !.state = call[r].target]
    OBVIOUS
  <2>1. PICK r \in Requests : Save(r) \/ Write(r)
    <3>1. ASSUME NEW r \in Requests, Step(r)
          PROVE  (Save(r) \/ Write(r)) \/ mem' = mem
      BY <3>1 DEF Step, Canonical, Create, Finish, Transition, Record, Resolve, LookupExisting,
         LookupKeyTaken, LookupUnsound, LookupNew, CheckExisting, CheckNotGranted, CheckNew, Read, repoVars
    <3> QED
      BY <1>1, <3>1 DEF Next, Start, Publish, Boot, Crash, repoVars
  <2>2. hid[r] \in Ids /\ hand[r] \in Intent
    BY <1>1, <2>1 DEF Save, Write, AnswerInv, TypeInv, Carried
  <2>3. mem' \in {mem, [mem EXCEPT ![hid[r]] = hand[r]]}
    BY <2>1 DEF Save, Write, Persist, Store, repoVars
  <2>4. mem[i] \in Intent /\ i = hid[r] /\ mem'[i] = hand[r]
    BY <1>1, <2>3 DEF AnswerInv, TypeInv, TypeOK, IntentTable
  <2>5. Write(r) /\ Continues(mem[i], hand[r])
    BY <1>1, <2>1, <2>4 DEF Save, Write, AnswerInv, RepositoryInv, HandInv
  <2>6. /\ call[r] \in TransitionCall /\ call[r].id = i /\ hand[r].state = call[r].target
        /\ call[r].user \in Admins \cup {hand[r].user}
    BY <1>1, <2>4, <2>5 DEF Write, AnswerInv, CallInv, HandFits
  <2>7. /\ mem[i].user = hand[r].user /\ mem[i].key = hand[r].key /\ mem[i].pub = hand[r].pub
        /\ mem[i].content = hand[r].content
    BY <2>2, <2>4, <2>5, ContinuesParts
  <2>8. hand[r] = [mem[i] EXCEPT !.state = call[r].target]
    BY <2>2, <2>4, <2>6, <2>7 DEF Intent
  <2>9. call[r] # None /\ call[r].op = "transition"
    BY <2>6 DEF TransitionCall, Call
  <2> QED
    BY <2>4, <2>6, <2>7, <2>8, <2>9
<1>2. AnswerInv /\ [Next]_vars => [Right]_vars
  BY <1>1
<1> QED
  BY <1>2, InitAnswers, NextAnswers, PTL DEF Spec, EndedByOwnerOrAdmin

(* The steps that answer a request with success.                           *)
LEMMA SuccessSteps ==
  ASSUME TypeInv, Next, NEW r \in Requests, reply'[r] = "ok", reply[r] # "ok"
  PROVE  \/ LookupExisting(r) /\ mem[ByPublication(call[r].user, call[r].pub)].content = record[r]
         \/ CheckExisting(r)
         \/ (Save(r) \/ Write(r)) /\ Store(hid[r], hand[r], TRUE)
<1> USE DEF TypeInv, TypeOK, Goto, Answer, handVars
<1>1. ASSUME NEW q \in Requests, NEW c \in Offered, Start(q, c) PROVE FALSE
  BY <1>1 DEF Start
<1>2. ASSUME NEW q \in Requests, Resolve(q) \/ LookupKeyTaken(q) \/ LookupUnsound(q)
                                    \/ CheckNotGranted(q) \/ Read(q) \/ Record(q)
                                    \/ (\E i \in Ids : LookupNew(q, i) \/ CheckNew(q, i))
      PROVE  FALSE
  BY <1>2 DEF Resolve, LookupKeyTaken, LookupUnsound, CheckNotGranted, Read, Record, LookupNew, CheckNew
<1>3. ASSUME NEW q \in Requests, LookupExisting(q)
      PROVE  q = r /\ mem[ByPublication(call[r].user, call[r].pub)].content = record[r]
  BY <1>3 DEF LookupExisting
<1>4. ASSUME NEW q \in Requests, CheckExisting(q) PROVE q = r
  BY <1>4 DEF CheckExisting
<1>5. ASSUME NEW q \in Requests, Save(q) \/ Write(q)
      PROVE  q = r /\ Store(hid[r], hand[r], TRUE)
  <2>1. Persist(q)
    BY <1>5 DEF Save, Write
  <2> QED
    BY <2>1 DEF Persist
<1>6. PICK q \in Requests : Step(q)
  BY <1>1 DEF Next, Publish, Boot, Crash
<1> QED
  BY <1>2, <1>3, <1>4, <1>5, <1>6 DEF Step, Canonical, Create, Finish, Transition

(* A canonical request that succeeds is answered with an intent of its     *)
(* caller for the publication, with the content it resolved.               *)
THEOREM CanonicalOwn == Spec => CanonicalAnswers
<1> DEFINE Own == \A r \in Requests :
                    (reply'[r] = "ok" /\ reply[r] # "ok" /\ call[r].op = "canonical") =>
                      LET x == mem'[hid'[r]]
                      IN  /\ x.user = call[r].user
                          /\ x.pub = call[r].pub
                          /\ x.content = record[r]
<1>1. ASSUME AnswerInv, Next PROVE Own
  <2> SUFFICES ASSUME NEW r \in Requests, reply'[r] = "ok", reply[r] # "ok",
                      call[r].op = "canonical"
               PROVE  LET x == mem'[hid'[r]]
                      IN  x.user = call[r].user /\ x.pub = call[r].pub /\ x.content = record[r]
    OBVIOUS
  <2> USE <1>1 DEF AnswerInv
  <2>1. CASE /\ LookupExisting(r)
             /\ mem[ByPublication(call[r].user, call[r].pub)].content = record[r]
    <3> DEFINE i == ByPublication(call[r].user, call[r].pub)
    <3>1. call[r].user \in Users /\ call[r].pub \in Pubs
      BY <2>1 DEF LookupExisting, TypeInv, Carried, CanonicalCall
    <3>2. i # None /\ hid' = [hid EXCEPT ![r] = i] /\ mem' = mem
      BY <2>1 DEF LookupExisting, repoVars
    <3>3. i = pubs[<<call[r].user, call[r].pub>>]
      BY <3>2 DEF ByPublication
    <3>4. PubOf(mem[i]) = <<call[r].user, call[r].pub>>
      BY <3>1, <3>2, <3>3 DEF RepositoryInv, IndexInv
    <3>5. mem[i].user = call[r].user /\ mem[i].pub = call[r].pub
      BY <3>4 DEF PubOf
    <3>6. hid'[r] = i /\ mem[i].content = record[r]
      BY <2>1, <3>2 DEF TypeInv, TypeOK
    <3> HIDE DEF i
    <3> QED
      BY <3>2, <3>5, <3>6
  <2>2. CASE CheckExisting(r)
    BY <2>2 DEF CheckExisting, TypeInv, Carried, CreateCall
  <2>3. CASE (Save(r) \/ Write(r)) /\ Store(hid[r], hand[r], TRUE)
    <3>1. hid[r] \in Ids
      BY <2>3 DEF Save, Write, TypeInv, Carried
    <3>2. mem'[hid'[r]] = hand[r]
      BY <2>3, <3>1 DEF Save, Write, Store, TypeInv, TypeOK, IntentTable, handVars
    <3>3. CASE Save(r)
      BY <3>2, <3>3 DEF Save, CallInv, HandFits, CreateCall
    <3>4. CASE Write(r)
      BY <3>4 DEF Write, CallInv, HandFits, TransitionCall
    <3> QED
      BY <2>3, <3>3, <3>4
  <2> QED
    BY <2>1, <2>2, <2>3, SuccessSteps
<1>2. AnswerInv /\ [Next]_vars => [Own]_vars
  BY <1>1
<1> QED
  BY <1>2, InitAnswers, NextAnswers, PTL DEF Spec, CanonicalAnswers

(* A plain creation that succeeds is answered with an intent kept under    *)
(* the joined key of its call: the new one, or the one the index names.    *)
LEMMA CreateAnswered ==
  ASSUME AnswerInv, Next, NEW r \in Requests, reply'[r] = "ok", reply[r] # "ok",
         call[r].op = "create"
  PROVE  /\ mem'[hid'[r]] # None /\ JoinedKey(mem'[hid'[r]]) = JoinedKey(call[r])
         /\ pc[r] \in Steps
         /\ call' = call /\ proc' = proc
<1> USE DEF AnswerInv
<1>1. CASE LookupExisting(r)
  BY <1>1 DEF LookupExisting, TypeInv, Carried, CanonicalCall
<1>2. CASE CheckExisting(r)
  <2> DEFINE key == Join[call[r].user][call[r].key]
             i == idem[key]
  <2>1. key \in JoinedKeys
    BY <1>2, ConstantsAssumption DEF CheckExisting, TypeInv, Carried, CreateCall
  <2>2. i # None /\ hid' = [hid EXCEPT ![r] = i] /\ mem' = mem /\ call' = call /\ proc' = proc
    BY <1>2 DEF CheckExisting, repoVars
  <2>3. LET x == mem[i] IN x # None /\ Join[x.user][x.key] = key
    BY <2>1, <2>2 DEF KeyInv
  <2>4. hid'[r] = i
    BY <2>2 DEF TypeInv, TypeOK
  <2>5. pc[r] \in Steps
    BY <1>2 DEF CheckExisting, Steps
  <2> HIDE DEF i
  <2> QED
    BY <2>2, <2>3, <2>4, <2>5 DEF JoinedKey
<1>3. CASE (Save(r) \/ Write(r)) /\ Store(hid[r], hand[r], TRUE)
  <2>1. hid[r] \in Ids /\ hand[r] # None
    BY <1>3 DEF Save, Write, TypeInv, Carried
  <2>2. mem'[hid'[r]] = hand[r] /\ call' = call /\ proc' = proc
    BY <1>3, <2>1 DEF Save, Write, Store, TypeInv, TypeOK, IntentTable, handVars
  <2>3. CASE Save(r)
    BY <2>1, <2>2, <2>3 DEF Save, CallInv, HandFits, CanonicalCall, JoinedKey, Steps
  <2>4. CASE Write(r)
    BY <2>4 DEF Write, CallInv, HandFits, TransitionCall
  <2> QED
    BY <1>3, <2>3, <2>4
<1> QED
  BY <1>1, <1>2, <1>3, SuccessSteps

-----------------------------------------------------------------------------
(***************************************************************************)
(* While no flush fails.                                                   *)
(***************************************************************************)

(* The file as it would be loaded.                                         *)
CurrentFile ==
  IF disk = None THEN [intents |-> NoIntents, order |-> <<>>] ELSE disk

FreshInv ==
  faults = 0 /\ proc = "up" =>
    /\ mem = CurrentFile.intents
    /\ memOrder = CurrentFile.order
    /\ ambiguous = LoadedAmbiguous(CurrentFile)
    /\ pubs = LoadedPubs(CurrentFile)

(* The index of publications, read one entry at a time.                    *)
LEMMA LoadedPubsAt ==
  ASSUME NEW f, f.intents \in IntentTable, NEW u \in Users, NEW p \in Pubs
  PROVE  LET H == Holders(f.intents, u, p)
         IN  /\ <<u, p>> \in LoadedAmbiguous(f) <=> \E i, j \in H : i # j
             /\ <<u, p>> \in LoadedAmbiguous(f) \/ H = {} => LoadedPubs(f)[<<u, p>>] = None
             /\ <<u, p>> \notin LoadedAmbiguous(f) =>
                  \A i \in H : LoadedPubs(f)[<<u, p>>] = i
<1> DEFINE up == <<u, p>>
<1> DEFINE H == Holders(f.intents, up[1], up[2])
<1>1. up \in Users \X Pubs /\ H = Holders(f.intents, u, p)
  OBVIOUS
<1>2. up \in LoadedAmbiguous(f) <=> \E i, j \in H : i # j
  BY <1>1 DEF LoadedAmbiguous
<1>3. LoadedPubs(f)[up] = IF up \in LoadedAmbiguous(f) \/ H = {} THEN None
                         ELSE CHOOSE i \in Ids : i \in H
  <2> HIDE DEF up
  <2> QED
    BY <1>1 DEF LoadedPubs
<1>4. H \subseteq Ids
  BY DEF Holders
<1> HIDE DEF H, up
<1>5. ASSUME up \notin LoadedAmbiguous(f), NEW i \in H
      PROVE  LoadedPubs(f)[up] = i
  <2>1. \A j \in Ids : j \in H <=> j = i
    BY <1>2, <1>4, <1>5
  <2>2. (CHOOSE j \in Ids : j \in H) = i
    BY <1>4, <2>1
  <2> QED
    BY <1>3, <1>5, <2>2
<1>6. up \in LoadedAmbiguous(f) \/ H = {} => LoadedPubs(f)[up] = None
  BY <1>3
<1> QED
  BY <1>1, <1>2, <1>5, <1>6 DEF up

(* Two sets of pairs with the same members are one.                        *)
LEMMA SamePairs ==
  ASSUME NEW A, NEW B, NEW P, NEW Q, P \subseteq A \X B, Q \subseteq A \X B,
         \A a \in A, b \in B : <<a, b>> \in P <=> <<a, b>> \in Q
  PROVE  P = Q
<1>1. ASSUME NEW t \in A \X B
      PROVE  t \in P <=> t \in Q
  <2>1. PICK a \in A, b \in B : t = <<a, b>>
    OBVIOUS
  <2> QED
    BY <2>1
<1> QED
  BY <1>1

(* A table whose intents of each publication are those of another, but for *)
(* intent i, the only one of its publication.                              *)
LEMMA StoreFresh ==
  ASSUME TypeInv, RepositoryInv, FreshInv, faults = 0, NEW r \in Requests, Save(r) \/ Write(r),
         ~Refused(hid[r], hand[r]), Store(hid[r], hand[r], TRUE)
  PROVE  /\ disk' \in File /\ mem' = disk'.intents /\ memOrder' = disk'.order
         /\ ambiguous' = LoadedAmbiguous(disk')
         /\ pubs' = LoadedPubs(disk')
<1> DEFINE i == hid[r]
<1> DEFINE x == hand[r]
<1>1. i \in Ids /\ x \in Intent /\ pc[r] \in {"save", "write"} /\ proc = "up" /\ x # None
  BY RunningIsUp DEF Save, Write, TypeInv, Carried, Steps
<1>2. disk' = [intents |-> mem', order |-> memOrder'] /\ disk' \in File
  <2>1. mem' \in IntentTable /\ memOrder' \in Seq(Ids)
    BY <1>1, StoreTypes DEF TypeInv
  <2> QED
    BY <2>1 DEF Store, File
<1>3. disk'.intents = mem' /\ disk'.order = memOrder' /\ mem' \in IntentTable
  BY <1>2 DEF File
<1>4. /\ CurrentFile.intents = mem /\ mem \in IntentTable
      /\ ambiguous = LoadedAmbiguous(CurrentFile) /\ pubs = LoadedPubs(CurrentFile)
  BY <1>1 DEF FreshInv, TypeInv, TypeOK
<1>5. mem[i] # None => mem[i].user = x.user /\ mem[i].pub = x.pub
  <2>1. mem[i] # None => mem[i] \in Intent /\ Continues(mem[i], x)
    BY <1>1, <1>4 DEF RepositoryInv, HandInv, IntentTable
  <2> QED
    BY <1>1, <2>1, ContinuesParts
<1>6. /\ mem'[i] = x /\ \A j \in Ids : j # i => mem'[j] = mem[j]
      /\ ambiguous' = ambiguous
      /\ pubs' = IF x.pub = None THEN pubs ELSE [pubs EXCEPT ![<<x.user, x.pub>>] = i]
  BY <1>1, <1>4 DEF Store, IntentTable
<1>7. x.pub # None => <<x.user, x.pub>> \notin ambiguous /\ pubs[<<x.user, x.pub>>] \in {None, i}
  BY DEF Refused
<1>8. disk' = [intents |-> mem', order |-> memOrder'] /\ x.user \in Users /\ x.pub \in Pubs \cup {None}
  BY <1>1, <1>2 DEF Intent
<1> HIDE DEF i, x
<1>9. ASSUME NEW u \in Users, NEW p \in Pubs
      PROVE  /\ <<u, p>> \in ambiguous <=> <<u, p>> \in LoadedAmbiguous(disk')
             /\ pubs'[<<u, p>>] = LoadedPubs(disk')[<<u, p>>]
  <2> DEFINE H == Holders(mem, u, p)
  <2> DEFINE G == Holders(mem', u, p)
  <2>1. /\ <<u, p>> \in ambiguous <=> \E j, k \in H : j # k
        /\ <<u, p>> \in ambiguous \/ H = {} => pubs[<<u, p>>] = None
        /\ <<u, p>> \notin ambiguous => \A j \in H : pubs[<<u, p>>] = j
    BY <1>4, LoadedPubsAt
  <2>2. /\ <<u, p>> \in LoadedAmbiguous(disk') <=> \E j, k \in G : j # k
        /\ <<u, p>> \in LoadedAmbiguous(disk') \/ G = {} => LoadedPubs(disk')[<<u, p>>] = None
        /\ <<u, p>> \notin LoadedAmbiguous(disk') => \A j \in G : LoadedPubs(disk')[<<u, p>>] = j
    BY <1>3, LoadedPubsAt
  <2>3. \A j \in Ids : j # i => (j \in G <=> j \in H)
    BY <1>6 DEF Holders
  <2>4. H \subseteq Ids /\ G \subseteq Ids
    BY DEF Holders
  <2>5. i \in G <=> x.user = u /\ x.pub = p
    BY <1>1, <1>6 DEF Holders, i, x
  <2>6. i \in H => x.user = u /\ x.pub = p
    BY <1>5 DEF Holders
  <2> HIDE DEF H, G
  <2>7. CASE x.user = u /\ x.pub = p
    <3>1. <<u, p>> \notin ambiguous /\ pubs[<<u, p>>] \in {None, i} /\ pubs'[<<u, p>>] = i
      BY <1>6, <1>7, <2>7 DEF TypeInv, TypeOK
    <3>2. \A j \in H : j = i
      BY <2>1, <2>4, <3>1
    <3>3. \A j \in G : j = i
      BY <2>3, <2>4, <3>2
    <3> QED
      BY <2>2, <2>5, <2>7, <3>1, <3>3
  <2>8. CASE ~(x.user = u /\ x.pub = p)
    <3>1. H = G
      BY <1>1, <2>3, <2>4, <2>5, <2>6, <2>8
    <3>2. pubs'[<<u, p>>] = pubs[<<u, p>>]
      BY <1>6, <1>8, <2>8 DEF TypeInv, TypeOK
    <3> QED
      BY <2>1, <2>2, <3>1, <3>2
  <2> QED
    BY <2>7, <2>8
<1>10. ambiguous' = LoadedAmbiguous(disk')
  <2>1. ambiguous \subseteq Users \X Pubs /\ LoadedAmbiguous(disk') \subseteq Users \X Pubs
    BY <1>2, LoadedTypes DEF TypeInv, TypeOK
  <2>2. \A u \in Users, p \in Pubs : <<u, p>> \in ambiguous <=> <<u, p>> \in LoadedAmbiguous(disk')
    BY <1>9
  <2>3. ambiguous = LoadedAmbiguous(disk')
    BY <2>1, <2>2, SamePairs
  <2> QED
    BY <1>6, <2>3
<1>11. pubs' = LoadedPubs(disk')
  <2>1. pubs' \in [Users \X Pubs -> Ids \cup {None}]
    BY <1>6, <1>8, <1>1 DEF TypeInv, TypeOK, i, x
  <2>2. LoadedPubs(disk') \in [Users \X Pubs -> Ids \cup {None}]
    BY <1>2, LoadedTypes
  <2>3. \A u \in Users, p \in Pubs : pubs'[<<u, p>>] = LoadedPubs(disk')[<<u, p>>]
    BY <1>9
  <2> QED
    BY <2>1, <2>2, <2>3
<1> QED
  BY <1>2, <1>3, <1>10, <1>11

(* Steps that leave repository, file and process alone.                    *)
LEMMA OtherSteps ==
  ASSUME [Next]_vars
  PROVE  \/ \E r \in Requests : Save(r) \/ Write(r)
         \/ Boot \/ Crash
         \/ UNCHANGED <<mem, memOrder, idem, pubs, ambiguous, disk, proc, faults>>
<1>1. ASSUME NEW r \in Requests, Step(r)
      PROVE  \/ Save(r) \/ Write(r)
             \/ UNCHANGED <<mem, memOrder, idem, pubs, ambiguous, disk, proc, faults>>
  BY <1>1 DEF Step, Canonical, Create, Finish, Transition, Record, Resolve, LookupExisting,
     LookupKeyTaken, LookupUnsound, LookupNew, CheckExisting, CheckNotGranted, CheckNew, Read,
     repoVars, bounds
<1> QED
  BY <1>1 DEF Next, Start, Publish, vars, repoVars, bounds

(* A step of saving or writing stores what is in hand, or fails.           *)
LEMMA PersistCases ==
  ASSUME TypeInv, NEW r \in Requests, Save(r) \/ Write(r)
  PROVE  /\ proc' = proc /\ call' = call /\ record' = record /\ hid' = hid /\ hand' = hand
         /\ hid[r] \in Ids /\ hand[r] \in Intent
         /\ pc' = [pc EXCEPT ![r] = "done"]
         /\ \/ /\ ~Refused(hid[r], hand[r]) /\ Store(hid[r], hand[r], TRUE)
                /\ faults' = faults /\ reply' = [reply EXCEPT ![r] = "ok"]
             \/ /\ ~Refused(hid[r], hand[r]) /\ Store(hid[r], hand[r], FALSE)
                /\ faults' = faults + 1 /\ reply' = [reply EXCEPT ![r] = "error"]
             \/ /\ Refused(hid[r], hand[r])
                /\ mem' = mem /\ memOrder' = memOrder /\ idem' = idem /\ pubs' = pubs
                /\ ambiguous' = ambiguous /\ disk' = disk /\ faults' = faults
                /\ reply' = [reply EXCEPT ![r] = "error"]
<1>1. /\ proc' = proc /\ call' = call /\ record' = record /\ hid' = hid /\ hand' = hand
      /\ Persist(r) /\ pc[r] \in {"save", "write"}
  <2>1. CASE Save(r)
    BY <2>1 DEF Save, handVars
  <2>2. CASE Write(r)
    BY <2>2 DEF Write, handVars
  <2> QED
    BY <2>1, <2>2
<1>2. hid[r] \in Ids /\ hand[r] \in Intent
  BY <1>1 DEF TypeInv, Carried
<1>3. \/ /\ ~Refused(hid[r], hand[r]) /\ Store(hid[r], hand[r], TRUE)
         /\ faults' = faults /\ Answer(r, "ok")
      \/ /\ ~Refused(hid[r], hand[r]) /\ Store(hid[r], hand[r], FALSE)
         /\ faults' = faults + 1 /\ Answer(r, "error")
      \/ /\ Refused(hid[r], hand[r])
         /\ repoVars' = repoVars /\ faults' = faults /\ Answer(r, "error")
  BY <1>1, Zenon DEF Persist
<1>4. \A o : Answer(r, o) => pc' = [pc EXCEPT ![r] = "done"] /\ reply' = [reply EXCEPT ![r] = o]
  BY DEF Answer, Goto
<1>5. repoVars' = repoVars =>
        /\ mem' = mem /\ memOrder' = memOrder /\ idem' = idem /\ pubs' = pubs
        /\ ambiguous' = ambiguous /\ disk' = disk
  BY DEF repoVars
<1> QED
  BY <1>1, <1>2, <1>3, <1>4, <1>5, Zenon

LEMMA NextFresh == TypeInv /\ RepositoryInv /\ FreshInv /\ [Next]_vars => FreshInv'
<1> SUFFICES ASSUME TypeInv, RepositoryInv, FreshInv, [Next]_vars, faults' = 0, proc' = "up"
             PROVE  LET f == CurrentFile'
                    IN  /\ mem' = f.intents
                        /\ memOrder' = f.order
                        /\ ambiguous' = LoadedAmbiguous(f)
                        /\ pubs' = LoadedPubs(f)
  BY DEF FreshInv
<1>1. CASE UNCHANGED <<mem, memOrder, idem, pubs, ambiguous, disk, proc, faults>>
  BY <1>1 DEF FreshInv, CurrentFile
<1>2. ASSUME NEW r \in Requests, Save(r) \/ Write(r)
      PROVE  LET f == CurrentFile'
             IN  /\ mem' = f.intents
                 /\ memOrder' = f.order
                 /\ ambiguous' = LoadedAmbiguous(f)
                 /\ pubs' = LoadedPubs(f)
  <2>0. proc' = proc /\ (faults' = faults \/ faults' = faults + 1)
    BY <1>2, PersistCases, Zenon
  <2>1. faults \in Nat /\ faults = 0 /\ faults + 1 # 0
    <3>1. faults \in Nat
      BY DEF TypeInv, TypeOK
    <3> QED
      BY <2>0, <3>1
  <2>2. CASE Refused(hid[r], hand[r])
    <3>1. /\ mem' = mem /\ memOrder' = memOrder /\ pubs' = pubs
          /\ ambiguous' = ambiguous /\ disk' = disk
      BY <1>2, <2>2, PersistCases, Zenon
    <3> QED
      BY <2>0, <2>1, <3>1 DEF FreshInv, CurrentFile
  <2>3. CASE ~Refused(hid[r], hand[r]) /\ Store(hid[r], hand[r], TRUE)
    <3>1. /\ disk' \in File /\ mem' = disk'.intents /\ memOrder' = disk'.order
          /\ ambiguous' = LoadedAmbiguous(disk')
          /\ pubs' = LoadedPubs(disk')
      BY <1>2, <2>1, <2>3, StoreFresh
    <3>2. CurrentFile' = disk'
      BY <3>1 DEF CurrentFile
    <3> QED
      BY <3>1, <3>2
  <2>4. ~(faults' = faults + 1)
    BY <2>1
  <2> QED
    BY <1>2, <2>2, <2>3, <2>4, PersistCases, Zenon
<1>3. CASE Boot
  <2>1. CASE disk = None
    <3> DEFINE f == [intents |-> NoIntents, order |-> <<>>]
    <3>1. CurrentFile' = f /\ EmptyMemory
      BY <1>3, <2>1 DEF Boot, CurrentFile
    <3>2. f.intents = NoIntents /\ f.order = <<>>
      OBVIOUS
    <3> HIDE DEF f
    <3>3. \A u \in Users, p \in Pubs : Holders(f.intents, u, p) = {}
      BY <3>2 DEF Holders, NoIntents
    <3>4. \A up \in Users \X Pubs : Holders(f.intents, up[1], up[2]) = {}
      BY <3>3
    <3>5. LoadedAmbiguous(f) = {}
      BY <3>4 DEF LoadedAmbiguous
    <3>6. LoadedPubs(f) = [up \in Users \X Pubs |-> None]
      BY <3>4 DEF LoadedPubs
    <3> QED
      BY <3>1, <3>2, <3>5, <3>6 DEF EmptyMemory
  <2>2. CASE disk # None
    BY <1>3, <2>2 DEF Boot, CurrentFile
  <2> QED
    BY <2>1, <2>2
<1>4. ~Crash
  BY DEF Crash
<1> QED
  BY <1>1, <1>2, <1>3, <1>4, OtherSteps

(* An intent that a client was told of is in the file.                     *)
DurableInv ==
  /\ \A r \in Requests : reply[r] = "ok" => pc[r] = "done" /\ hid[r] \in Ids
  /\ AnsweredIsDurable

(* A request that has been answered does not move.                         *)
LEMMA DoneStays ==
  ASSUME TypeInv, [Next]_vars, NEW r \in Requests, pc[r] = "done"
  PROVE  pc'[r] = "done" /\ call'[r] = call[r] /\ hid'[r] = hid[r] /\ reply'[r] = reply[r]
<1> USE DEF TypeInv, TypeOK, Goto, Answer, handVars
<1>1. CASE UNCHANGED vars
  BY <1>1 DEF vars
<1>2. ASSUME NEW q \in Requests, NEW c \in Offered, Start(q, c)
      PROVE  pc'[r] = "done" /\ call'[r] = call[r] /\ hid'[r] = hid[r] /\ reply'[r] = reply[r]
  BY <1>2 DEF Start
<1>3. ASSUME NEW q \in Requests, Save(q) \/ Write(q)
      PROVE  pc'[r] = "done" /\ call'[r] = call[r] /\ hid'[r] = hid[r] /\ reply'[r] = reply[r]
  <2>1. q # r
    BY <1>3 DEF Save, Write
  <2>2. /\ pc' = [pc EXCEPT ![q] = "done"] /\ call' = call /\ hid' = hid
        /\ \E o : reply' = [reply EXCEPT ![q] = o]
    BY <1>3, PersistCases, Zenon
  <2> QED
    BY <2>1, <2>2
<1>4. ASSUME NEW q \in Requests, Step(q), ~(Save(q) \/ Write(q))
      PROVE  pc'[r] = "done" /\ call'[r] = call[r] /\ hid'[r] = hid[r] /\ reply'[r] = reply[r]
  BY <1>4 DEF Step, Canonical, Create, Finish, Transition, Record, Resolve, LookupExisting, LookupKeyTaken,
     LookupUnsound, LookupNew, CheckExisting, CheckNotGranted, CheckNew, Read, Hold
<1> QED
  BY <1>1, <1>2, <1>3, <1>4 DEF Next, Publish, Boot, Crash, Steps

LEMMA FaultsGrow ==
  ASSUME TypeInv, [Next]_vars, faults' = 0
  PROVE  faults = 0
<1>1. faults' = faults \/ faults' = faults + 1
  <2>1. CASE \E q \in Requests : Save(q) \/ Write(q)
    BY <2>1, PersistCases, Zenon
  <2> QED
    BY <2>1, OtherSteps DEF Boot, Crash, bounds
<1>2. faults \in Nat
  BY DEF TypeInv, TypeOK
<1> QED
  BY <1>1, <1>2

LEMMA NextDurable ==
  AnswerInv /\ FreshInv /\ DurableInv /\ [Next]_vars => DurableInv'
<1> SUFFICES ASSUME AnswerInv, FreshInv, DurableInv, [Next]_vars, NEW r \in Requests, reply'[r] = "ok"
             PROVE  /\ pc'[r] = "done" /\ hid'[r] \in Ids
                    /\ faults' = 0 =>
                         /\ Persisted'[hid'[r]] # None
                         /\ call'[r].op = "transition" => Persisted'[hid'[r]].state \in Terminal
  BY DEF DurableInv, AnsweredIsDurable, AnswersPersisted
<1> USE DEF AnswerInv
<1>1. faults' = 0 => faults = 0
  BY FaultsGrow
<1>2. CASE reply[r] = "ok"
  <2>1. pc[r] = "done" /\ hid[r] \in Ids
    BY <1>2 DEF DurableInv
  <2>2. pc'[r] = "done" /\ call'[r] = call[r] /\ hid'[r] = hid[r]
    BY <2>1, DoneStays
  <2>3. Persisted[hid[r]] # None => Continues(Persisted[hid[r]], Persisted'[hid[r]])
    BY <2>1, NextKept DEF Kept
  <2> QED
    BY <1>1, <1>2, <2>1, <2>2, <2>3 DEF DurableInv, AnsweredIsDurable, AnswersPersisted, Continues
<1>3. CASE reply[r] # "ok"
  <2>1. Next
    BY <1>3 DEF vars
  <2>2. CASE LookupExisting(r) \/ CheckExisting(r)
    <3>1. /\ pc' = [pc EXCEPT ![r] = "done"] /\ call' = call /\ disk' = disk /\ faults' = faults
          /\ pc[r] \in {"lookup", "check"}
      BY <2>2 DEF LookupExisting, CheckExisting, Answer, Goto, repoVars, bounds
    <3>2. hid'[r] \in Ids /\ mem[hid'[r]] # None
      <4>1. CASE LookupExisting(r)
        <5> DEFINE i == ByPublication(call[r].user, call[r].pub)
        <5>1. call[r].user \in Users /\ call[r].pub \in Pubs
          BY <4>1 DEF LookupExisting, TypeInv, Carried, CanonicalCall
        <5>2. i # None /\ hid' = [hid EXCEPT ![r] = i] /\ i = pubs[<<call[r].user, call[r].pub>>]
          BY <4>1 DEF LookupExisting, ByPublication
        <5>3. i \in Ids /\ mem[i] # None
          BY <5>1, <5>2 DEF RepositoryInv, IndexInv, TypeInv, TypeOK
        <5> HIDE DEF i
        <5> QED
          BY <5>2, <5>3 DEF TypeInv, TypeOK
      <4>2. CASE CheckExisting(r)
        <5> DEFINE i == idem[Join[call[r].user][call[r].key]]
        <5>1. Join[call[r].user][call[r].key] \in JoinedKeys
          BY <4>2, ConstantsAssumption DEF CheckExisting, TypeInv, Carried, CreateCall
        <5>2. i # None /\ hid' = [hid EXCEPT ![r] = i]
          BY <4>2 DEF CheckExisting
        <5>3. i \in Ids /\ mem[i] # None
          BY <5>1, <5>2 DEF KeyInv, TypeInv, TypeOK
        <5> HIDE DEF i
        <5> QED
          BY <5>2, <5>3 DEF TypeInv, TypeOK
      <4> QED
        BY <2>2, <4>1, <4>2
    <3>3. call[r].op # "transition"
      BY <3>1 DEF TypeInv, Carried, CanonicalCall, CreateCall
    <3>4. proc = "up"
      BY <3>1, RunningIsUp DEF Steps
    <3>5. faults = 0 => mem = Persisted
      BY <3>4 DEF FreshInv, CurrentFile, Persisted
    <3>6. Persisted' = Persisted
      BY <3>1 DEF Persisted
    <3> QED
      BY <3>1, <3>2, <3>3, <3>5, <3>6 DEF TypeInv, TypeOK
  <2>3. CASE (Save(r) \/ Write(r)) /\ Store(hid[r], hand[r], TRUE)
    <3>1. /\ pc' = [pc EXCEPT ![r] = "done"] /\ UNCHANGED <<call, hid>>
          /\ hid[r] \in Ids /\ hand[r] \in Intent /\ hand[r] # None
      BY <2>3, PersistCases DEF handVars
    <3>2. disk' = [intents |-> mem', order |-> memOrder'] /\ mem'[hid[r]] = hand[r] /\ disk' # None
      <4>1. mem' \in IntentTable /\ memOrder' \in Seq(Ids)
        BY <2>3, <3>1, StoreTypes DEF TypeInv
      <4>2. disk' = [intents |-> mem', order |-> memOrder']
        BY <2>3 DEF Store
      <4>3. disk' \in File
        BY <4>1, <4>2 DEF File
      <4>4. mem'[hid[r]] = hand[r]
        BY <2>3, <3>1 DEF Store, TypeInv, TypeOK, IntentTable
      <4> QED
        BY <4>2, <4>3, <4>4
    <3>3. Persisted'[hid[r]] = hand[r]
      BY <3>2 DEF Persisted
    <3>4. call[r].op = "transition" => hand[r].state \in Terminal
      <4>1. CASE Save(r)
        BY <4>1 DEF Save, CallInv, HandFits, CanonicalCall, CreateCall
      <4>2. CASE Write(r)
        BY <4>2 DEF Write, RepositoryInv, HandInv
      <4> QED
        BY <2>3, <4>1, <4>2
    <3> QED
      BY <3>1, <3>3, <3>4 DEF TypeInv, TypeOK
  <2> QED
    BY <1>3, <2>1, <2>2, <2>3, SuccessSteps
<1> QED
  BY <1>2, <1>3

(* While no flush has failed, what a client was told of is in the file, in *)
(* every later state, through crashes and restarts.                        *)
THEOREM DurableAnswers == Spec => []AnsweredIsDurable
<1>1. Init => FreshInv /\ DurableInv
  BY ReplyAssumption DEF Init, FreshInv, DurableInv, AnsweredIsDurable, AnswersPersisted
<1>2. AnswerInv /\ FreshInv /\ [Next]_vars => FreshInv'
  BY NextFresh DEF AnswerInv
<1>3. DurableInv => AnsweredIsDurable
  BY DEF DurableInv
<1> QED
  BY <1>1, <1>2, <1>3, InitAnswers, NextAnswers, NextDurable, PTL DEF Spec

(* While no flush has failed, a restart at any moment rebuilds what the    *)
(* process has in memory.                                                  *)
THEOREM RestartTransparent == Spec => []RestartIsTransparent
<1>1. Init => FreshInv
  BY DEF Init, FreshInv
<1>2. AnswerInv /\ FreshInv /\ [Next]_vars => FreshInv'
  BY NextFresh DEF AnswerInv
<1>3. FreshInv => RestartIsTransparent
  BY DEF FreshInv, RestartIsTransparent, CurrentFile
<1> QED
  BY <1>1, <1>2, <1>3, InitAnswers, NextAnswers, PTL DEF Spec

-----------------------------------------------------------------------------
(***************************************************************************)
(* A publication that the first file holds twice.                          *)
(***************************************************************************)

(* The repository knows that it is ambiguous as long as the process is up. *)
LegacyInv ==
  /\ AmbiguousFailsClosed
  /\ proc = "up" => Legacy \subseteq ambiguous

LEMMA LegacyHeld ==
  ASSUME NEW u \in Users, NEW p \in Pubs
  PROVE  <<u, p>> \in Legacy <=>
           InitialFile # None /\ \E i, j \in Holders(InitialFile.intents, u, p) : i # j
<1> DEFINE up == <<u, p>>
<1>1. up \in Users \X Pubs /\ up[1] = u /\ up[2] = p
  OBVIOUS
<1> HIDE DEF up
<1>2. up \in Legacy <=>
        InitialFile # None /\ \E i, j \in Holders(InitialFile.intents, u, p) : i # j
  BY <1>1 DEF Legacy, LoadedAmbiguous
<1> QED
  BY <1>2 DEF up

LEMMA InitLegacy == Init => LegacyInv
<1> SUFFICES ASSUME Init, NEW u \in Users, NEW p \in Pubs, <<u, p>> \in Legacy
             PROVE  /\ Holders(mem, u, p) \subseteq Holders(InitialFile.intents, u, p)
                    /\ Holders(Persisted, u, p) = Holders(InitialFile.intents, u, p)
                    /\ \A r \in Requests :
                         reply[r] = "ok" => ~(call[r].op = "canonical" /\ call[r].user = u /\ call[r].pub = p)
  BY DEF LegacyInv, AmbiguousFailsClosed, Init
<1>1. mem = NoIntents /\ Holders(mem, u, p) = {}
  BY DEF Init, NoIntents, Holders
<1>2. InitialFile # None
  BY LegacyHeld
<1>3. Persisted = InitialFile.intents
  BY <1>2 DEF Init, Persisted
<1>4. \A r \in Requests : reply[r] = None
  BY DEF Init
<1> QED
  BY <1>1, <1>3, <1>4, ReplyAssumption

(* Saving an intent that is not refused leaves an ambiguous publication's. *)
LEMMA StoreLegacy ==
  ASSUME TypeInv, RepositoryInv, NEW r \in Requests, Save(r) \/ Write(r),
         NEW u \in Users, NEW p \in Pubs, <<u, p>> \in ambiguous
  PROVE  Holders(mem', u, p) \subseteq Holders(mem, u, p) /\ ambiguous' = ambiguous
<1>1. hid[r] \in Ids /\ hand[r] \in Intent
  BY PersistCases, Zenon
<1>2. CASE Refused(hid[r], hand[r])
  <2>1. mem' = mem /\ ambiguous' = ambiguous
    BY <1>2, PersistCases, Zenon DEF Store
  <2> QED
    BY <2>1
<1>3. CASE ~Refused(hid[r], hand[r])
  <2>1. \E flushed \in BOOLEAN : Store(hid[r], hand[r], flushed)
    BY <1>3, PersistCases, Zenon
  <2>2. mem' = [mem EXCEPT ![hid[r]] = hand[r]] /\ ambiguous' = ambiguous
    BY <2>1 DEF Store
  <2>3. ~(hand[r].user = u /\ hand[r].pub = p)
    BY <1>3 DEF Refused
  <2> QED
    BY <1>1, <2>2, <2>3 DEF Holders, TypeInv, TypeOK, IntentTable
<1> QED
  BY <1>2, <1>3

(* The file in the next state is the file or the new memory.               *)
LEMMA NextFile ==
  ASSUME TypeInv, [Next]_vars
  PROVE  Persisted' = Persisted \/ Persisted' = mem'
<1>1. ASSUME disk' = disk PROVE Persisted' = Persisted
  BY <1>1 DEF Persisted
<1>2. ASSUME NEW r \in Requests, NEW flushed \in BOOLEAN, Store(hid[r], hand[r], flushed),
             Save(r) \/ Write(r)
      PROVE  Persisted' = Persisted \/ Persisted' = mem'
  <2>1. hid[r] \in Ids /\ hand[r] \in Intent
    BY <1>2, PersistCases, Zenon
  <2>2. mem' \in IntentTable /\ memOrder' \in Seq(Ids)
    BY <1>2, <2>1, StoreTypes DEF TypeInv
  <2>3. disk' = [intents |-> mem', order |-> memOrder'] \/ disk' = disk
    BY <1>2 DEF Store
  <2>4. [intents |-> mem', order |-> memOrder'] \in File
    BY <2>2 DEF File
  <2> QED
    BY <1>1, <2>3, <2>4 DEF Persisted
<1>3. ASSUME NEW r \in Requests, Save(r) \/ Write(r)
      PROVE  disk' = disk \/ \E flushed \in BOOLEAN : Store(hid[r], hand[r], flushed)
  BY <1>3, PersistCases, Zenon
<1> QED
  BY <1>1, <1>2, <1>3, OtherSteps DEF Boot, Crash

LEMMA NextLegacy ==
  AnswerInv /\ DurableInv /\ LegacyInv /\ [Next]_vars => LegacyInv'
<1> SUFFICES ASSUME AnswerInv, DurableInv, LegacyInv, [Next]_vars,
                    NEW u \in Users, NEW p \in Pubs, <<u, p>> \in Legacy
             PROVE  /\ Holders(mem', u, p) \subseteq Holders(InitialFile.intents, u, p)
                    /\ Holders(Persisted', u, p) = Holders(InitialFile.intents, u, p)
                    /\ \A r \in Requests :
                         reply'[r] = "ok" => ~(call'[r].op = "canonical" /\ call'[r].user = u /\ call'[r].pub = p)
                    /\ proc' = "up" => <<u, p>> \in ambiguous'
  <2>1. Legacy \subseteq Users \X Pubs
    BY LoadedTypes, ConstantsAssumption DEF Legacy
  <2> QED
    BY <2>1 DEF LegacyInv, AmbiguousFailsClosed
<1> USE DEF AnswerInv
<1> DEFINE H == Holders(InitialFile.intents, u, p)
<1>1. /\ Holders(mem, u, p) \subseteq H /\ Holders(Persisted, u, p) = H
      /\ proc = "up" => <<u, p>> \in ambiguous
  BY DEF LegacyInv, AmbiguousFailsClosed
<1>2. \E i, j \in H : i # j
  BY LegacyHeld
<1> HIDE DEF H
<1>3. Holders(mem', u, p) \subseteq H /\ (proc' = "up" => <<u, p>> \in ambiguous')
  <2>1. CASE UNCHANGED <<mem, memOrder, idem, pubs, ambiguous, disk, proc, faults>>
    BY <1>1, <2>1
  <2>2. ASSUME NEW r \in Requests, Save(r) \/ Write(r)
        PROVE  Holders(mem', u, p) \subseteq H /\ (proc' = "up" => <<u, p>> \in ambiguous')
    <3>1. proc = "up"
      BY <2>2, RunningIsUp DEF Save, Write, Steps
    <3> QED
      BY <1>1, <2>2, <3>1, StoreLegacy
  <2>3. EmptyMemory => Holders(mem', u, p) = {}
    BY DEF EmptyMemory, NoIntents, Holders
  <2>4. CASE Boot
    <3>1. disk # None
      <4>1. Holders(NoIntents, u, p) = {}
        BY DEF NoIntents, Holders
      <4> QED
        BY <1>1, <1>2, <4>1 DEF Persisted
    <3>2. CASE AuditWired
      BY <2>3, <2>4, <3>1, <3>2 DEF Boot
    <3>3. CASE ~AuditWired
      <4>1. mem' = disk.intents /\ ambiguous' = LoadedAmbiguous(disk) /\ disk.intents \in IntentTable
        BY <2>4, <3>1, <3>3, LoadedTypes DEF Boot, TypeInv, TypeOK
      <4>2. Holders(disk.intents, u, p) = H
        BY <1>1, <3>1 DEF Persisted
      <4> QED
        BY <1>2, <4>1, <4>2, LoadedPubsAt
    <3> QED
      BY <3>2, <3>3
  <2>5. CASE Crash
    BY <2>3, <2>5 DEF Crash
  <2> QED
    BY <2>1, <2>2, <2>4, <2>5, OtherSteps
<1>4. Holders(Persisted', u, p) = H
  <2>1. Persisted \in IntentTable
    BY PersistedTypes DEF TypeInv
  <2>2. TypeInv'
    BY NextTypes
  <2>3. Persisted' \in IntentTable
    BY <2>1, <2>2, NextFile DEF TypeInv, TypeOK
  <2>4. ASSUME NEW i \in Ids, i \in Holders(Persisted, u, p)
        PROVE  i \in Holders(Persisted', u, p)
    <3>1. Persisted[i] # None /\ Persisted[i].user = u /\ Persisted[i].pub = p
      BY <2>4 DEF Holders
    <3>2. Continues(Persisted[i], Persisted'[i])
      BY <3>1, NextKept DEF Kept
    <3>3. Persisted[i] \in Intent /\ Persisted'[i] \in Intent \cup {None}
      BY <2>1, <2>3, <3>1 DEF IntentTable
    <3>4. Persisted'[i] # None /\ Persisted'[i].user = u /\ Persisted'[i].pub = p
      BY <3>1, <3>2, <3>3, ContinuesParts
    <3> QED
      BY <3>4 DEF Holders
  <2>5. H \subseteq Holders(Persisted', u, p)
    BY <1>1, <2>4 DEF Holders
  <2>6. Holders(Persisted', u, p) \subseteq H
    BY <1>1, <1>3, NextFile
  <2> QED
    BY <2>5, <2>6
<1>5. ASSUME NEW r \in Requests, reply'[r] = "ok", call'[r].op = "canonical",
             call'[r].user = u, call'[r].pub = p
      PROVE  FALSE
  <2>1. CASE reply[r] = "ok"
    <3>1. pc[r] = "done"
      BY <2>1 DEF DurableInv
    <3>2. call'[r] = call[r]
      BY <3>1, DoneStays
    <3> QED
      BY <1>5, <2>1, <3>2 DEF LegacyInv, AmbiguousFailsClosed
  <2>2. CASE reply[r] # "ok"
    <3>1. Next
      BY <1>5, <2>2 DEF vars
    <3>2. CASE LookupExisting(r)
      <4>1. call' = call /\ proc = "up" /\ ByPublication(call[r].user, call[r].pub) # None
        BY <3>2, RunningIsUp DEF LookupExisting, Steps
      <4> QED
        BY <1>1, <1>5, <4>1 DEF ByPublication
    <3>3. CASE CheckExisting(r)
      BY <1>5, <3>3 DEF CheckExisting, TypeInv, Carried, CreateCall
    <3>4. CASE Save(r) \/ Write(r)
      <4>1. call' = call /\ hid[r] \in Ids /\ hand[r] \in Intent /\ proc = "up"
        <5>1. proc = "up"
          BY <3>4, RunningIsUp DEF Save, Write, Steps
        <5> QED
          BY <3>4, <5>1, PersistCases, Zenon
      <4>2. Save(r)
        BY <1>5, <3>4, <4>1 DEF Write, CallInv, HandFits, TransitionCall
      <4>3. hand[r].user = u /\ hand[r].pub = p
        BY <1>5, <4>1, <4>2 DEF Save, CallInv, HandFits, CreateCall
      <4>4. Refused(hid[r], hand[r])
        BY <1>1, <4>1, <4>3 DEF Refused
      <4>5. reply' = [reply EXCEPT ![r] = "error"]
        BY <3>4, <4>4, PersistCases, Zenon
      <4> QED
        BY <1>5, <4>5 DEF TypeInv, TypeOK
    <3> QED
      BY <1>5, <2>2, <3>1, <3>2, <3>3, <3>4, SuccessSteps
  <2> QED
    BY <2>1, <2>2
<1> QED
  BY <1>3, <1>4, <1>5 DEF H

(* A publication that the first file holds twice is never answered with    *)
(* success, and gets no further intent, through restarts.                  *)
THEOREM LegacyFailsClosed == Spec => []AmbiguousFailsClosed
<1>1. Init => FreshInv /\ DurableInv
  BY ReplyAssumption DEF Init, FreshInv, DurableInv, AnsweredIsDurable, AnswersPersisted
<1>2. AnswerInv /\ FreshInv /\ [Next]_vars => FreshInv'
  BY NextFresh DEF AnswerInv
<1>3. LegacyInv => AmbiguousFailsClosed
  BY DEF LegacyInv
<1> QED
  BY <1>1, <1>2, <1>3, InitLegacy, InitAnswers, NextAnswers, NextDurable, NextLegacy, PTL DEF Spec

-----------------------------------------------------------------------------
(***************************************************************************)
(* The indexes name every intent.                                          *)
(***************************************************************************)

(* The list of the file holds every intent of its table.                   *)
Listed(f) ==
  \A i \in Ids : f.intents[i] # None => \E n \in 1..Len(f.order) : f.order[n] = i

(* A file is a JSON list of intents: its table holds what it lists.         *)
FileIsList == InitialFile # None => Listed(InitialFile)

CompleteInv ==
  /\ \A i \in Ids : mem[i] # None =>
       /\ idem[Join[mem[i].user][mem[i].key]] # None
       /\ \E n \in 1..Len(memOrder) : memOrder[n] = i
  /\ disk # None => Listed(disk)
  /\ \A up \in ambiguous : pubs[up] = None

(* A set of positions that is not empty has a last one.                    *)
LEMMA LastPosition ==
  ASSUME NEW L \in Nat, NEW T, T \subseteq 1..L, T # {}
  PROVE  \E n \in T : \A m \in T : m <= n
<1> DEFINE R == OpToRel(<, Nat)
<1> DEFINE D == {k \in Nat : L - k \in T}
<1>1. D \subseteq Nat /\ D # {}
  <2>1. PICK n \in T : TRUE
    OBVIOUS
  <2>2. L - n \in Nat /\ L - (L - n) = n
    BY <2>1
  <2> QED
    BY <2>2, <2>1
<1>2. \A j, k \in Nat : j < k => <<j, k>> \in R
  BY DEF OpToRel
<1> HIDE DEF R
<1>3. IsWellFoundedOn(R, Nat)
  BY NatLessThanWellFounded DEF R
<1> HIDE DEF D
<1>4. PICK x \in D : \A y \in D : ~(<<y, x>> \in R)
  BY <1>1, <1>3, WFMin
<1>5. x \in Nat /\ L - x \in T
  BY DEF D
<1>6. ASSUME NEW m \in T PROVE m <= L - x
  <2>1. L - m \in Nat /\ L - (L - m) = m /\ m \in Nat
    OBVIOUS
  <2>2. L - m \in D
    BY <2>1 DEF D
  <2>3. ~(L - m < x)
    BY <1>2, <1>4, <1>5, <2>1, <2>2
  <2> QED
    BY <1>5, <2>1, <2>3
<1> QED
  BY <1>5, <1>6

(* Loading a file that lists its intents indexes the key of each.          *)
LEMMA LoadedComplete ==
  ASSUME NEW f \in File, Listed(f), NEW i \in Ids, f.intents[i] # None
  PROVE  LoadedIdem(f)[Join[f.intents[i].user][f.intents[i].key]] # None
<1> DEFINE jk == Join[f.intents[i].user][f.intents[i].key]
<1> DEFINE L == Len(f.order)
<1> DEFINE T == {n \in 1..L : KeyedAt(f, n, jk)}
<1>1. f.intents \in IntentTable /\ f.order \in Seq(Ids) /\ L \in Nat
  BY LoadedTypes
<1>2. f.intents[i] \in Intent /\ jk \in JoinedKeys
  BY <1>1, ConstantsAssumption DEF IntentTable, Intent
<1>3. PICK n \in 1..L : f.order[n] = i
  BY DEF Listed
<1>4. KeyedAt(f, n, jk)
  BY <1>3 DEF KeyedAt
<1>5. PICK k \in T : \A m \in T : m <= k
  <2>1. T \subseteq 1..L /\ T # {}
    BY <1>4
  <2> HIDE DEF T, L
  <2> QED
    BY <1>1, <2>1, LastPosition
<1>6. k \in 1..L /\ LastKeyedAt(f, k, jk)
  <2>1. k \in 1..L /\ KeyedAt(f, k, jk)
    OBVIOUS
  <2>2. ASSUME NEW m \in (k + 1)..L PROVE ~KeyedAt(f, m, jk)
    <3>1. m \in 1..L /\ ~(m <= k)
      BY <1>1, <2>1
    <3> QED
      BY <1>5, <3>1
  <2> QED
    BY <2>1, <2>2 DEF LastKeyedAt
<1> HIDE DEF jk
<1>7. LoadedIdem(f)[jk] = f.order[CHOOSE m \in 1..L : LastKeyedAt(f, m, jk)]
  BY <1>2, <1>6 DEF LoadedIdem
<1>8. (CHOOSE m \in 1..L : LastKeyedAt(f, m, jk)) \in 1..L
  BY <1>6
<1>9. f.order[CHOOSE m \in 1..L : LastKeyedAt(f, m, jk)] \in Ids
  <2> DEFINE z == CHOOSE m \in 1..L : LastKeyedAt(f, m, jk)
  <2>1. z \in 1..L
    BY <1>8
  <2> HIDE DEF z
  <2>2. f.order[z] \in Ids
    BY <1>1, <2>1
  <2> QED
    BY <2>2 DEF z
<1> QED
  BY <1>7, <1>9 DEF jk

LEMMA StoreComplete ==
  ASSUME TypeInv, RepositoryInv, CompleteInv, NEW r \in Requests, Save(r) \/ Write(r)
  PROVE  CompleteInv'
<1> DEFINE i == hid[r]
<1> DEFINE x == hand[r]
<1> DEFINE key == Join[x.user][x.key]
<1>1. i \in Ids /\ x \in Intent /\ x # None
  <2>1. hid[r] \in Ids /\ hand[r] \in Intent
    BY PersistCases, Zenon
  <2> QED
    BY <2>1
<1>2. CASE Refused(hid[r], hand[r])
  <2>1. /\ mem' = mem /\ memOrder' = memOrder /\ idem' = idem /\ pubs' = pubs
        /\ ambiguous' = ambiguous /\ disk' = disk
    <3>1. ~(~Refused(hid[r], hand[r]))
      BY <1>2
    <3> QED
      BY <3>1, PersistCases, Zenon
  <2> QED
    BY <2>1 DEF CompleteInv, Listed
<1>3. ASSUME ~Refused(hid[r], hand[r]), NEW flushed \in BOOLEAN, Store(hid[r], hand[r], flushed)
      PROVE  CompleteInv'
  <2>1. /\ mem' = [mem EXCEPT ![i] = x]
        /\ memOrder' = IF mem[i] = None THEN Append(memOrder, i) ELSE memOrder
        /\ idem' = [idem EXCEPT ![key] = i]
        /\ pubs' = IF x.pub = None THEN pubs ELSE [pubs EXCEPT ![<<x.user, x.pub>>] = i]
        /\ disk' = [intents |-> mem', order |-> memOrder'] \/ disk' = disk
        /\ ambiguous' = ambiguous
    BY <1>3 DEF Store
  <2>2. key \in JoinedKeys
    BY <1>1, ConstantsAssumption DEF Intent
  <2>3. x.pub # None => <<x.user, x.pub>> \notin ambiguous
    BY <1>3 DEF Refused
  <2>4. mem \in IntentTable /\ memOrder \in Seq(Ids) /\ idem \in [JoinedKeys -> Ids \cup {None}]
        /\ pubs \in [Users \X Pubs -> Ids \cup {None}] /\ ambiguous \subseteq Users \X Pubs
    BY DEF TypeInv, TypeOK
  <2> HIDE DEF i, x, key
  <2>5. mem'[i] = x /\ \A j \in Ids : j # i => mem'[j] = mem[j]
    BY <1>1, <2>1, <2>4 DEF IntentTable
  <2>6. idem'[key] = i /\ \A jk \in JoinedKeys : jk # key => idem'[jk] = idem[jk]
    BY <2>1, <2>2, <2>4
  <2>7. /\ \A n \in 1..Len(memOrder) : n \in 1..Len(memOrder') /\ memOrder'[n] = memOrder[n]
        /\ mem[i] = None => \E n \in 1..Len(memOrder') : memOrder'[n] = i
    <3>1. CASE mem[i] = None
      <4>1. memOrder' = Append(memOrder, i)
        BY <2>1, <3>1
      <4>2. Len(memOrder') = Len(memOrder) + 1 /\ Len(memOrder) \in Nat
        BY <1>1, <2>4, <4>1
      <4>3. memOrder'[Len(memOrder) + 1] = i
        BY <1>1, <2>4, <4>1
      <4>4. Len(memOrder) + 1 \in 1..Len(memOrder')
        BY <4>2
      <4> QED
        BY <1>1, <2>4, <4>1, <4>2, <4>3, <4>4
    <3>2. CASE mem[i] # None
      BY <2>1, <3>2
    <3> QED
      BY <3>1, <3>2
  <2>8. ASSUME NEW j \in Ids, mem'[j] # None
        PROVE  /\ idem'[Join[mem'[j].user][mem'[j].key]] # None
               /\ \E n \in 1..Len(memOrder') : memOrder'[n] = j
    <3>1. CASE j = i
      <4>1. idem'[Join[mem'[j].user][mem'[j].key]] # None
        BY <1>1, <2>5, <2>6, <3>1 DEF key
      <4>2. \E n \in 1..Len(memOrder') : memOrder'[n] = j
        BY <2>7, <3>1 DEF CompleteInv, i
      <4> QED
        BY <4>1, <4>2
    <3>2. CASE j # i
      <4>1. mem'[j] = mem[j] /\ mem[j] # None /\ mem[j] \in Intent
        BY <2>4, <2>5, <2>8, <3>2 DEF IntentTable
      <4>2. Join[mem[j].user][mem[j].key] \in JoinedKeys
        BY <4>1, ConstantsAssumption DEF Intent
      <4>3. idem[Join[mem[j].user][mem[j].key]] # None
        BY <4>1 DEF CompleteInv
      <4>4. \E n \in 1..Len(memOrder) : memOrder[n] = j
        BY <4>1 DEF CompleteInv
      <4>5. idem'[Join[mem'[j].user][mem'[j].key]] # None
        BY <1>1, <2>6, <4>1, <4>2, <4>3
      <4> QED
        BY <2>7, <4>4, <4>5
    <3> QED
      BY <3>1, <3>2
  <2>9. disk' # None => Listed(disk')
    <3>1. CASE disk' = disk
      BY <3>1 DEF CompleteInv, Listed
    <3>2. CASE disk' = [intents |-> mem', order |-> memOrder']
      <4>1. disk'.intents = mem' /\ disk'.order = memOrder'
        BY <3>2
      <4> QED
        BY <2>8, <4>1 DEF Listed
    <3> QED
      BY <2>1, <3>1, <3>2
  <2>10. ASSUME NEW up \in ambiguous' PROVE pubs'[up] = None
    BY <2>1, <2>3, <2>4, <2>10 DEF CompleteInv
  <2> QED
    BY <2>8, <2>9, <2>10 DEF CompleteInv
<1>4. \/ Refused(hid[r], hand[r])
      \/ /\ ~Refused(hid[r], hand[r])
         /\ \E flushed \in BOOLEAN : Store(hid[r], hand[r], flushed)
  BY PersistCases, Zenon
<1> QED
  BY <1>2, <1>3, <1>4

LEMMA NextComplete == TypeInv /\ RepositoryInv /\ CompleteInv /\ [Next]_vars => CompleteInv'
<1> SUFFICES ASSUME TypeInv, RepositoryInv, CompleteInv, [Next]_vars PROVE CompleteInv'
  OBVIOUS
<1>1. CASE UNCHANGED <<mem, memOrder, idem, pubs, ambiguous, disk, proc, faults>>
  BY <1>1 DEF CompleteInv, Listed
<1>2. CASE EmptyMemory /\ disk' = disk
  BY <1>2 DEF EmptyMemory, NoIntents, CompleteInv, Listed
<1>3. CASE /\ disk # None /\ disk' = disk /\ mem' = disk.intents /\ memOrder' = disk.order
           /\ idem' = LoadedIdem(disk) /\ pubs' = LoadedPubs(disk)
           /\ ambiguous' = LoadedAmbiguous(disk)
  <2>1. disk \in File /\ Listed(disk)
    BY <1>3 DEF CompleteInv, TypeInv, TypeOK
  <2>2. \A i \in Ids : mem'[i] # None => idem'[Join[mem'[i].user][mem'[i].key]] # None
    BY <1>3, <2>1, LoadedComplete
  <2>3. \A i \in Ids : mem'[i] # None => \E n \in 1..Len(memOrder') : memOrder'[n] = i
    BY <1>3, <2>1 DEF Listed
  <2>4. \A up \in ambiguous' : pubs'[up] = None
    BY <1>3, <2>1, LoadedTypes DEF LoadedPubs
  <2>5. disk' # None => Listed(disk')
    BY <1>3, <2>1
  <2> QED
    BY <2>2, <2>3, <2>4, <2>5 DEF CompleteInv
<1>4. CASE Boot
  BY <1>2, <1>3, <1>4 DEF Boot
<1>5. CASE Crash
  BY <1>2, <1>5 DEF Crash
<1> QED
  BY <1>1, <1>4, <1>5, StoreComplete, OtherSteps

(* The indexes find every intent and nothing else, if the first file lists *)
(* the intents it holds.                                                   *)
THEOREM IndexesComplete ==
  ASSUME FileIsList
  PROVE  Spec => []IndexesAgree
<1>1. Init => CompleteInv
  BY DEF FileIsList, Init, NoIntents, CompleteInv, Listed
<1>2. AnswerInv /\ CompleteInv => IndexesAgree
  <2> SUFFICES ASSUME AnswerInv, CompleteInv PROVE IndexesAgree
    OBVIOUS
  <2> USE DEF AnswerInv
  <2>1. ASSUME NEW jk \in JoinedKeys
        PROVE  LET keyed == {i \in Ids : mem[i] # None /\ Join[mem[i].user][mem[i].key] = jk}
               IN  IF keyed = {} THEN idem[jk] = None ELSE idem[jk] \in keyed
    <3> DEFINE keyed == {i \in Ids : mem[i] # None /\ Join[mem[i].user][mem[i].key] = jk}
    <3>1. idem[jk] # None => idem[jk] \in keyed
      BY DEF KeyInv, TypeInv, TypeOK
    <3>2. keyed # {} => idem[jk] # None
      BY DEF CompleteInv
    <3> QED
      BY <3>1, <3>2
  <2>2. ASSUME NEW u \in Users, NEW p \in Pubs
        PROVE  IF Holders(mem, u, p) = {} \/ <<u, p>> \in ambiguous THEN pubs[<<u, p>>] = None
               ELSE pubs[<<u, p>>] \in Holders(mem, u, p)
    <3>1. mem \in IntentTable /\ pubs[<<u, p>>] \in Ids \cup {None}
      BY DEF TypeInv, TypeOK
    <3>2. pubs[<<u, p>>] # None => pubs[<<u, p>>] \in Holders(mem, u, p)
      <4> DEFINE i == pubs[<<u, p>>]
      <4> SUFFICES ASSUME i # None PROVE i \in Holders(mem, u, p)
        OBVIOUS
      <4>1. i \in Ids /\ mem[i] # None /\ PubOf(mem[i]) = <<u, p>>
        BY <3>1 DEF RepositoryInv, IndexInv
      <4> HIDE DEF i
      <4> QED
        BY <4>1 DEF Holders, PubOf
    <3>3. <<u, p>> \in ambiguous => pubs[<<u, p>>] = None
      BY DEF CompleteInv
    <3>4. ASSUME NEW i \in Holders(mem, u, p), <<u, p>> \notin ambiguous
          PROVE  pubs[<<u, p>>] = i /\ i # None
      BY <3>1, <3>4, HoldersOf DEF Holders, RepositoryInv, IndexInv
    <3> QED
      BY <3>2, <3>3, <3>4
  <2> QED
    BY <2>1, <2>2 DEF IndexesAgree
<1>3. AnswerInv /\ CompleteInv /\ [Next]_vars => CompleteInv'
  BY NextComplete DEF AnswerInv
<1> QED
  BY <1>1, <1>2, <1>3, InitAnswers, NextAnswers, PTL DEF Spec

-----------------------------------------------------------------------------
(***************************************************************************)
(* Retries of plain creations.                                             *)
(***************************************************************************)

(* What a plain creation was answered with is in the file under its key.   *)
KeptKeyInv ==
  \A r \in Requests :
    faults = 0 /\ reply[r] = "ok" /\ call[r].op = "create" =>
      JoinedKey(Persisted[hid[r]]) = JoinedKey(call[r])

LEMMA NextKeptKeys ==
  ASSUME AnswerInv, FreshInv, DurableInv, KeptKeyInv, [Next]_vars,
         FreshInv', DurableInv', faults' = 0 => faults = 0
  PROVE  KeptKeyInv'
<1> SUFFICES ASSUME NEW r \in Requests, faults' = 0, reply'[r] = "ok", call'[r].op = "create"
             PROVE  JoinedKey(Persisted'[hid'[r]]) = JoinedKey(call'[r])
  BY DEF KeptKeyInv, JoinedKey
<1> USE DEF AnswerInv
<1>1. CASE reply[r] = "ok"
  <2>1. pc[r] = "done" /\ hid[r] \in Ids /\ Persisted[hid[r]] # None
    BY <1>1 DEF DurableInv, AnsweredIsDurable, AnswersPersisted
  <2>2. call'[r] = call[r] /\ hid'[r] = hid[r]
    BY <2>1, DoneStays
  <2>3. Persisted[hid[r]] \in Intent
    BY <2>1 DEF TypeInv, TypeOK, Persisted, File, IntentTable, NoIntents
  <2>4. Continues(Persisted[hid[r]], Persisted'[hid[r]])
    BY <2>1, NextKept DEF Kept
  <2>5. TypeInv'
    BY NextAnswers
  <2>6. Persisted'[hid[r]] \in Intent
    <3>1. Persisted'[hid[r]] # None
      BY <2>4 DEF Continues
    <3> QED
      BY <2>1, <2>5, <3>1 DEF TypeInv, TypeOK, Persisted, File, IntentTable, NoIntents
  <2>7. JoinedKey(Persisted'[hid[r]]) = JoinedKey(Persisted[hid[r]])
    BY <2>3, <2>4, <2>6, ContinuesParts DEF JoinedKey
  <2> QED
    BY <1>1, <2>2, <2>7 DEF KeptKeyInv
<1>2. CASE reply[r] # "ok"
  <2>1. Next
    BY <1>2 DEF vars
  <2>2. call[r].op = "create" /\ call'[r] = call[r]
    <3>1. CASE LookupExisting(r) \/ CheckExisting(r)
      BY <3>1 DEF LookupExisting, CheckExisting
    <3>2. CASE Save(r) \/ Write(r)
      BY <3>2 DEF Save, Write, handVars
    <3> QED
      BY <1>2, <2>1, <3>1, <3>2, SuccessSteps
  <2>3. /\ JoinedKey(mem'[hid'[r]]) = JoinedKey(call[r])
        /\ pc[r] \in Steps /\ proc' = proc
    BY <1>2, <2>1, <2>2, CreateAnswered
  <2>4. proc' = "up"
    BY <2>3, RunningIsUp
  <2>5. mem' = Persisted'
    BY <2>4 DEF FreshInv, CurrentFile, Persisted
  <2> QED
    BY <2>2, <2>3, <2>5
<1> QED
  BY <1>1, <1>2

(* A plain creation that comes after one under the same joined key has     *)
(* succeeded makes no second intent, in this process life or a later one,  *)
(* while no flush has failed and if the first file lists what it holds.    *)
THEOREM RetriesIdempotent ==
  ASSUME FileIsList
  PROVE  Spec => RetriesCreateNothing
<1> DEFINE Idle == \A q, r \in Requests :
                     /\ faults = 0
                     /\ reply[q] = "ok" /\ call[q].op = "create"
                     /\ pc[r] = "check" /\ pc'[r] \notin {"check", "dead"}
                     /\ JoinedKey(call[r]) = JoinedKey(call[q])
                     => /\ reply'[r] = "ok"
                        /\ mem'[hid'[r]] # None
                        /\ JoinedKey(mem'[hid'[r]]) = JoinedKey(call[r])
                        /\ used' = used
<1>1. ASSUME AnswerInv, FreshInv, DurableInv, KeptKeyInv, CompleteInv, Next PROVE Idle
  <2> SUFFICES ASSUME NEW q \in Requests, NEW r \in Requests,
                      faults = 0, reply[q] = "ok", call[q].op = "create",
                      pc[r] = "check", pc'[r] \notin {"check", "dead"},
                      JoinedKey(call[r]) = JoinedKey(call[q])
               PROVE  /\ reply'[r] = "ok"
                      /\ mem'[hid'[r]] # None
                      /\ JoinedKey(mem'[hid'[r]]) = JoinedKey(call[r])
                      /\ used' = used
    OBVIOUS
  <2> USE <1>1 DEF AnswerInv
  <2> DEFINE key == Join[call[r].user][call[r].key]
             i == idem[key]
  <2>1. hid[q] \in Ids /\ Persisted[hid[q]] # None /\ JoinedKey(Persisted[hid[q]]) = key
    BY DEF DurableInv, AnsweredIsDurable, AnswersPersisted, KeptKeyInv, JoinedKey
  <2>2. mem = Persisted
    <3>1. proc = "up"
      BY RunningIsUp DEF Steps
    <3> QED
      BY <3>1 DEF FreshInv, CurrentFile, Persisted
  <2>3. i # None
    BY <2>1, <2>2 DEF CompleteInv, JoinedKey
  <2>4. key \in JoinedKeys
    BY ConstantsAssumption DEF TypeInv, Carried, CreateCall
  <2>5. mem[i] # None /\ JoinedKey(mem[i]) = key
    BY <2>3, <2>4 DEF KeyInv, JoinedKey
  <2>6. CheckExisting(r)
    <3>1. ASSUME NEW s \in Requests, Step(s) PROVE s = r
      <4>1. pc'[r] # pc[r]
        OBVIOUS
      <4>2. ASSUME Save(s) \/ Write(s), s # r PROVE pc'[r] = pc[r]
        <5>1. pc' = [pc EXCEPT ![s] = "done"]
          BY <4>2, PersistCases, Zenon
        <5> QED
          BY <4>2, <5>1 DEF TypeInv, TypeOK
      <4> QED
        BY <3>1, <4>1, <4>2 DEF Step, Canonical, Create, Finish, Transition, Record, Resolve, LookupExisting,
           LookupKeyTaken, LookupUnsound, LookupNew, CheckExisting, CheckNotGranted, CheckNew, Read,
           Goto, Answer, TypeInv, TypeOK
    <3>2. Step(r)
      <4>1. ~Crash
        BY DEF Crash, Steps
      <4>2. ~\E s \in Requests, c \in Offered : Start(s, c)
        BY DEF Start, Goto, Answer, TypeInv, TypeOK
      <4> QED
        BY <3>1, <4>1, <4>2 DEF Next, Publish, Boot
    <3>3. ~CheckNotGranted(r) /\ ~\E j \in Ids : CheckNew(r, j)
      BY <2>3 DEF CheckNotGranted, CheckNew
    <3> QED
      BY <3>2, <3>3 DEF Step, Canonical, Create, Finish, Transition, Record, Save, Resolve, LookupExisting,
         LookupKeyTaken, LookupUnsound, LookupNew, Read, Write
  <2>7. /\ reply' = [reply EXCEPT ![r] = "ok"]
        /\ hid' = [hid EXCEPT ![r] = i] /\ mem' = mem /\ used' = used
    BY <2>6 DEF CheckExisting, Answer, repoVars
  <2>8. reply'[r] = "ok" /\ hid'[r] = i
    BY <2>7 DEF TypeInv, TypeOK
  <2>9. JoinedKey(call[r]) = key
    BY DEF JoinedKey
  <2> HIDE DEF i, key
  <2> QED
    BY <2>5, <2>7, <2>8, <2>9
<1>2. AnswerInv /\ FreshInv /\ DurableInv /\ KeptKeyInv /\ CompleteInv /\ [Next]_vars => [Idle]_vars
  BY <1>1
<1>3. Init => FreshInv /\ DurableInv /\ KeptKeyInv /\ CompleteInv
  BY ReplyAssumption DEF Init, FreshInv, DurableInv, AnsweredIsDurable, AnswersPersisted, KeptKeyInv,
     FileIsList, NoIntents, CompleteInv, Listed
<1>4. AnswerInv /\ FreshInv /\ [Next]_vars => FreshInv'
  BY NextFresh DEF AnswerInv
<1>5. AnswerInv /\ [Next]_vars => (faults' = 0 => faults = 0)
  BY FaultsGrow DEF AnswerInv
<1>6. AnswerInv /\ CompleteInv /\ [Next]_vars => CompleteInv'
  BY NextComplete DEF AnswerInv
<1>7. AnswerInv /\ FreshInv /\ DurableInv /\ KeptKeyInv /\ [Next]_vars => KeptKeyInv'
  BY <1>4, <1>5, NextDurable, NextKeptKeys
<1> QED
  BY <1>2, <1>3, <1>4, <1>6, <1>7, InitAnswers, NextAnswers, NextDurable, PTL
     DEF Spec, RetriesCreateNothing
=============================================================================
