----------------------- MODULE ExecutionGatewayProofs -----------------------
(***************************************************************************)
(* Proofs about ExecutionGateway, composed with the order intents, for     *)
(* every value of the constants of both.                                   *)
(***************************************************************************)
EXTENDS ExecutionGateway, OrderIntentsProofs

USE NoneAssumption

-----------------------------------------------------------------------------
(***************************************************************************)
(* What the gateway needs of the order intents.                            *)
(***************************************************************************)

(* A step of the composition is a step of the order intents, or none.      *)
LEMMA ComposedSteps == [ExecNext]_allVars => [Next]_vars
  BY DEF ExecNext, IntentNext, ExecCrash, allVars, Next

(* While the process is up, an intent in memory keeps its identity and is  *)
(* not taken back from its end.                                            *)
LEMMA MemoryContinues ==
  ASSUME TypeInv, RepositoryInv, IntentNext, proc = "up",
         NEW i \in Ids, mem[i] # None
  PROVE  mem'[i] \in Intent /\ Continues(mem[i], mem'[i])
<1>1. mem \in IntentTable /\ mem[i] \in Intent
  BY DEF TypeInv, TypeOK, IntentTable
<1>2. CASE mem' = mem
  BY <1>1, <1>2, ContinuesParts
<1>3. ASSUME NEW r \in Requests, Save(r) \/ Write(r)
      PROVE  mem'[i] \in Intent /\ Continues(mem[i], mem'[i])
  <2>1. /\ pc[r] \in {"save", "write"} /\ Persist(r)
        /\ hid[r] \in Ids /\ hand[r] \in Intent
    BY <1>3 DEF Save, Write, TypeInv, Carried
  <2>2. mem' \in {mem, [mem EXCEPT ![hid[r]] = hand[r]]}
    BY <2>1 DEF Persist, Store, repoVars
  <2>3. mem[hid[r]] # None => Continues(mem[hid[r]], hand[r])
    BY <2>1 DEF RepositoryInv, HandInv
  <2>4. mem'[i] = mem[i] \/ (i = hid[r] /\ mem'[i] = hand[r])
    BY <1>1, <2>2 DEF IntentTable
  <2>5. CASE mem'[i] = mem[i]
    BY <1>1, <2>5, ContinuesParts
  <2>6. CASE i = hid[r] /\ mem'[i] = hand[r]
    BY <2>1, <2>3, <2>6
  <2> QED
    BY <2>4, <2>5, <2>6
<1>4. ASSUME NEW r \in Requests, Step(r)
      PROVE  (Save(r) \/ Write(r)) \/ mem' = mem
  BY <1>4 DEF Step, Canonical, Create, Finish, Transition, Record, Resolve, LookupExisting,
     LookupKeyTaken, LookupUnsound, LookupNew, CheckExisting, CheckNotGranted, CheckNew, Read, repoVars
<1>5. (\E r \in Requests : Save(r) \/ Write(r)) \/ mem' = mem
  BY <1>4 DEF IntentNext, Start, Publish, Boot, repoVars
<1> QED
  BY <1>2, <1>3, <1>5

-----------------------------------------------------------------------------
(***************************************************************************)
(* Types.                                                                  *)
(***************************************************************************)

HasView == {"cached", "send", "keep", "log", "newlist", "append", "fetch", "store"}

HasSent == {"keep", "log", "newlist", "append"}

(* What a request to the gateway carries between its steps.                *)
ECarried ==
  \A e \in Executions :
    /\ epc[e] \in ExecSteps => ecall[e] \in ExecCall
    /\ epc[e] \in HasView => view[e] \in Intent
    /\ epc[e] \in HasSent => outcome[e] \in Result
    /\ epc[e] = "store" => report[e] \in Report
    /\ epc[e] = "append" => attempts[ecall[e].id] \in SUBSET Executions

GatewayTypeInv == GatewayTypeOK /\ ECarried

LEMMA InitExecTypes == ExecInit => GatewayTypeInv
  BY DEF ExecInit, GatewayTypeInv, GatewayTypeOK, ECarried, ExecSteps, HasView, HasSent

LEMMA ExecStartTypes ==
  ASSUME GatewayTypeInv, NEW e \in Executions, NEW c \in ExecOffered, ExecStart(e, c)
  PROVE  GatewayTypeInv'
<1>1. c \in ExecCall
  BY ExecutionAssumption
<1>2. FirstExecStep(c) \in {"get", "look", "peek"}
  BY <1>1 DEF ExecCall, FirstExecStep
<1>3. epc' \in [Executions -> {"idle", "done", "dead"} \cup ExecSteps]
      /\ epc'[e] \in {"get", "look", "peek", "done"} /\ \A d \in Executions : d # e => epc'[d] = epc[d]
  BY <1>2 DEF ExecStart, EGoto, EAnswer, GatewayTypeInv, GatewayTypeOK, ExecSteps
<1>4. ereply' \in [Executions -> {"refused", "result", "reconciled", None}]
  BY DEF ExecStart, EAnswer, GatewayTypeInv, GatewayTypeOK
<1>5. early' \in [Executions -> SUBSET (Users \X Keys)]
  BY DEF ExecStart, Answered, GatewayTypeInv, GatewayTypeOK
<1>6. ecall' = [ecall EXCEPT ![e] = c] /\ UNCHANGED <<view, outcome, report, cache, attempts, records, sent>>
  BY DEF ExecStart, gatewayVars
<1> QED
  BY <1>1, <1>3, <1>4, <1>5, <1>6
     DEF GatewayTypeInv, GatewayTypeOK, ECarried, ExecSteps, HasView, HasSent

LEMMA ReadTypesOfGateway ==
  ASSUME GatewayTypeInv, mem \in IntentTable, NEW e \in Executions,
         GetIntent(e) \/ LookAtIntent(e) \/ PeekRecord(e)
  PROVE  GatewayTypeInv'
<1> USE DEF GatewayTypeInv, GatewayTypeOK, ECarried, ExecSteps, HasView, HasSent, EGoto, EAnswer,
        gatewayVars
<1>1. ecall[e] \in ExecCall
  BY DEF GetIntent, LookAtIntent, PeekRecord
<1>2. ecall[e].id \in Ids
  BY <1>1 DEF ExecCall
<1>3. CASE GetIntent(e)
  <2>1. CASE Executable(ecall[e].user, ecall[e].id)
    <3> DEFINE x == mem[ecall[e].id]
    <3>1. x \in Intent
      BY <1>2, <2>1 DEF Executable, Visible, IntentTable
    <3>2. /\ epc' = [epc EXCEPT ![e] = "cached"]
          /\ view' = [view EXCEPT ![e] = x]
          /\ UNCHANGED <<ecall, outcome, report, ereply, cache, attempts, records, sent, early>>
      BY <1>3, <2>1 DEF GetIntent
    <3> HIDE DEF x
    <3> QED
      BY <1>1, <3>1, <3>2
  <2>2. CASE ~Executable(ecall[e].user, ecall[e].id)
    BY <1>3, <2>2 DEF GetIntent
  <2> QED
    BY <2>1, <2>2
<1>4. CASE LookAtIntent(e)
  <2>1. CASE Visible(ecall[e].user, ecall[e].id)
    <3> DEFINE x == mem[ecall[e].id]
    <3>1. x \in Intent
      BY <1>2, <2>1 DEF Visible, IntentTable
    <3>2. /\ epc' = [epc EXCEPT ![e] = "fetch"]
          /\ view' = [view EXCEPT ![e] = x]
          /\ UNCHANGED <<ecall, outcome, report, ereply, cache, attempts, records, sent, early>>
      BY <1>4, <2>1 DEF LookAtIntent
    <3> HIDE DEF x
    <3> QED
      BY <1>1, <3>1, <3>2
  <2>2. CASE ~Visible(ecall[e].user, ecall[e].id)
    BY <1>4, <2>2 DEF LookAtIntent
  <2> QED
    BY <2>1, <2>2
<1>5. CASE PeekRecord(e)
  BY <1>5 DEF PeekRecord
<1> QED
  BY <1>3, <1>4, <1>5

LEMMA SendTypes ==
  ASSUME GatewayTypeInv, NEW e \in Executions,
         LookInCache(e) \/ Send(e) \/ KeepResult(e)
  PROVE  GatewayTypeInv'
<1> USE DEF GatewayTypeInv, GatewayTypeOK, ECarried, ExecSteps, HasView, HasSent, EGoto, EAnswer,
        gatewayVars
<1>1. ecall[e] \in ExecCall /\ view[e] \in Intent
  BY DEF LookInCache, Send, KeepResult
<1>2. ecall[e].id \in Ids /\ ecall[e].user \in Users /\ view[e].key \in Keys
  BY <1>1 DEF ExecCall, Intent
<1>3. CASE LookInCache(e)
  BY <1>2, <1>3 DEF LookInCache
<1>4. CASE Send(e)
  <2>1. \A s \in PortStatuses \cup {"failed"} : [id |-> ecall[e].id, status |-> s] \in Result
    BY <1>2 DEF Result
  <2> QED
    BY <1>2, <1>4, <2>1 DEF Send
<1>5. CASE KeepResult(e)
  BY <1>2, <1>5 DEF KeepResult
<1> QED
  BY <1>3, <1>4, <1>5

LEMMA LogTypes ==
  ASSUME GatewayTypeInv, NEW e \in Executions,
         FindLog(e) \/ NewLog(e) \/ AppendLog(e)
  PROVE  GatewayTypeInv'
<1> USE DEF GatewayTypeInv, GatewayTypeOK, ECarried, ExecSteps, HasView, HasSent, EGoto, EAnswer,
        gatewayVars
<1>1. ecall[e] \in ExecCall /\ ecall[e].id \in Ids
  BY DEF FindLog, NewLog, AppendLog, ExecCall
<1>2. CASE FindLog(e)
  BY <1>1, <1>2 DEF FindLog
<1>3. CASE NewLog(e)
  BY <1>1, <1>3 DEF NewLog
<1>4. CASE AppendLog(e)
  BY <1>1, <1>4 DEF AppendLog
<1> QED
  BY <1>2, <1>3, <1>4

LEMMA ReconcileTypes ==
  ASSUME GatewayTypeInv, NEW e \in Executions, FetchEvidence(e) \/ StoreRecord(e)
  PROVE  GatewayTypeInv'
<1> USE DEF GatewayTypeInv, GatewayTypeOK, ECarried, ExecSteps, HasView, HasSent, EGoto, EAnswer,
        gatewayVars
<1>1. /\ ecall[e] \in ExecCall /\ ecall[e].id \in Ids /\ ecall[e].user \in Users
      /\ view[e] \in Intent /\ view[e].state \in LifecycleStates
  BY DEF FetchEvidence, StoreRecord, ExecCall, Intent
<1>2. CASE FetchEvidence(e)
  BY <1>1, <1>2, ExecutionAssumption DEF FetchEvidence, Report
<1>3. CASE StoreRecord(e)
  <2> DEFINE x == [by |-> ecall[e].user, internal |-> view[e].state,
                   external |-> IF report[e] \in LifecycleStates THEN report[e] ELSE None,
                   status |-> Status(view[e].state, report[e])]
  <2>1. Status(view[e].state, report[e]) \in
          {"NOT_CONFIGURED", "NO_EXTERNAL_EVIDENCE", "MATCHED", "DISCREPANCY"}
    BY DEF Status
  <2>2. x \in Reconciliation
    BY <1>1, <2>1 DEF Reconciliation
  <2>3. records' = [records EXCEPT ![ecall[e].id] = x]
    BY <1>3 DEF StoreRecord
  <2> HIDE DEF x
  <2> QED
    BY <1>1, <1>3, <2>2, <2>3 DEF StoreRecord
<1> QED
  BY <1>2, <1>3

LEMMA ExecCrashTypes ==
  ASSUME GatewayTypeInv, ExecCrash
  PROVE  GatewayTypeInv'
  BY DEF ExecCrash, GatewayTypeInv, GatewayTypeOK, ECarried, ExecSteps, HasView, HasSent

LEMMA ExecNextTypes ==
  GatewayTypeInv /\ mem \in IntentTable /\ [ExecNext]_allVars => GatewayTypeInv'
<1> SUFFICES ASSUME GatewayTypeInv, mem \in IntentTable, [ExecNext]_allVars
             PROVE  GatewayTypeInv'
  OBVIOUS
<1>1. CASE UNCHANGED execVars
  BY <1>1 DEF execVars, gatewayVars, GatewayTypeInv, GatewayTypeOK, ECarried
<1>2. ASSUME NEW e \in Executions, ExecStep(e)
      PROVE  GatewayTypeInv'
  BY <1>2, ReadTypesOfGateway, SendTypes, LogTypes, ReconcileTypes DEF ExecStep, Execute, Reconcile
<1> QED
  BY <1>1, <1>2, ExecStartTypes, ExecCrashTypes DEF ExecNext, allVars

-----------------------------------------------------------------------------
(***************************************************************************)
(* The commands, the results and the log.  These belong to the gateway     *)
(* alone: no step of the order intents changes them.                       *)
(***************************************************************************)

(* A command was sent by a request that did not find a result, and unless  *)
(* it is about to keep the result, the result is in the cache.             *)
SentInv ==
  \A s \in sent :
    /\ epc[s.e] \in HasSent \cup {"done"}
    /\ s.by = ecall[s.e].user /\ s.id = ecall[s.e].id /\ s.key = view[s.e].key
    /\ epc[s.e] # "keep" => cache[s.by][s.key] # None
    /\ <<s.by, s.key>> \notin early[s.e]

(* What was answered when a request started is still in the cache, so that *)
(* a request on its way to the port has not been answered before.          *)
EarlyInv ==
  \A e \in Executions :
    /\ \A u \in Users, k \in Keys : <<u, k>> \in early[e] => cache[u][k] # None
    /\ epc[e] = "send" => <<ecall[e].user, view[e].key>> \notin early[e]

(* A request with a result from the port has sent its command.             *)
OutcomeInv ==
  \A e \in Executions :
    epc[e] \in HasSent =>
      /\ outcome[e].id = ecall[e].id
      /\ \E s \in sent :
           s.e = e /\ s.by = ecall[e].user /\ s.id = ecall[e].id /\ s.key = view[e].key

(* A cached result is that of a command of the same user and key.          *)
CacheInv ==
  \A u \in Users, k \in Keys :
    cache[u][k] # None => \E s \in sent : s.by = u /\ s.key = k /\ s.id = cache[u][k].id

LedgerInv == SentInv /\ EarlyInv /\ OutcomeInv /\ CacheInv /\ LogIsOfSends

LEMMA InitLedger == ExecInit => LedgerInv
  BY DEF ExecInit, LedgerInv, SentInv, EarlyInv, OutcomeInv, CacheInv, LogIsOfSends, HasSent

(* No request but e moves.                                                 *)
OnlyMoves(e) ==
  \A d \in Executions : d # e =>
    /\ epc'[d] = epc[d] /\ ecall'[d] = ecall[d] /\ view'[d] = view[d]
    /\ outcome'[d] = outcome[d] /\ early'[d] = early[d]

(* Steps of a request that is not, and does not come, between its command  *)
(* and its answer.                                                         *)
LEMMA QuietLedger ==
  ASSUME GatewayTypeInv, LedgerInv, NEW e \in Executions,
         epc[e] \notin HasSent \cup {"done"},
         epc'[e] \notin HasSent,
         epc'[e] = "send" => <<ecall'[e].user, view'[e].key>> \notin early'[e],
         \A u \in Users, k \in Keys : <<u, k>> \in early'[e] => cache[u][k] # None,
         OnlyMoves(e), cache' = cache, attempts' = attempts, sent' = sent
  PROVE  LedgerInv'
<1>1. \A s \in sent : s.e \in Executions /\ s.e # e
  BY DEF LedgerInv, SentInv, GatewayTypeInv, GatewayTypeOK
<1>2. SentInv'
  <2> SUFFICES ASSUME NEW s \in sent
               PROVE  /\ epc'[s.e] \in HasSent \cup {"done"}
                      /\ s.by = ecall'[s.e].user /\ s.id = ecall'[s.e].id
                      /\ s.key = view'[s.e].key
                      /\ epc'[s.e] # "keep" => cache[s.by][s.key] # None
                      /\ <<s.by, s.key>> \notin early'[s.e]
    BY DEF SentInv
  <2>1. /\ epc'[s.e] = epc[s.e] /\ ecall'[s.e] = ecall[s.e] /\ view'[s.e] = view[s.e]
        /\ early'[s.e] = early[s.e]
    BY <1>1 DEF OnlyMoves
  <2> QED
    BY <2>1 DEF LedgerInv, SentInv
<1>3. EarlyInv'
  BY DEF LedgerInv, EarlyInv, OnlyMoves
<1>4. OutcomeInv'
  BY DEF LedgerInv, OutcomeInv, OnlyMoves
<1>5. CacheInv'
  BY DEF LedgerInv, CacheInv
<1>6. LogIsOfSends'
  BY DEF LedgerInv, LogIsOfSends
<1> QED
  BY <1>2, <1>3, <1>4, <1>5, <1>6 DEF LedgerInv

LEMMA ExecStartLedger ==
  ASSUME GatewayTypeInv, LedgerInv, NEW e \in Executions, NEW c \in ExecOffered, ExecStart(e, c)
  PROVE  LedgerInv'
<1>1. FirstExecStep(c) \in {"get", "look", "peek"}
  BY ExecutionAssumption DEF ExecCall, FirstExecStep
<1>2. epc[e] = "idle" /\ epc'[e] \notin HasSent /\ epc'[e] # "send"
  BY <1>1 DEF ExecStart, EGoto, EAnswer, HasSent, GatewayTypeInv, GatewayTypeOK
<1>3. OnlyMoves(e)
  BY DEF OnlyMoves, ExecStart, EGoto, EAnswer, GatewayTypeInv, GatewayTypeOK
<1>4. early'[e] = Answered
  BY DEF ExecStart, GatewayTypeInv, GatewayTypeOK
<1>5. ASSUME NEW u \in Users, NEW k \in Keys, <<u, k>> \in Answered
      PROVE  cache[u][k] # None
  <2>1. PICK s \in sent : epc[s.e] = "done" /\ <<u, k>> = <<s.by, s.key>>
    BY <1>5 DEF Answered
  <2>2. u = s.by /\ k = s.key
    BY <2>1
  <2> QED
    BY <2>1, <2>2 DEF LedgerInv, SentInv
<1>6. cache' = cache /\ attempts' = attempts /\ sent' = sent
  BY DEF ExecStart, gatewayVars
<1> QED
  BY <1>2, <1>3, <1>4, <1>5, <1>6, QuietLedger DEF HasSent

LEMMA ReadLedger ==
  ASSUME GatewayTypeInv, LedgerInv, NEW e \in Executions,
         \/ GetIntent(e) \/ LookAtIntent(e) \/ PeekRecord(e) \/ LookInCache(e)
         \/ FetchEvidence(e) \/ StoreRecord(e)
  PROVE  LedgerInv'
<1> USE DEF GatewayTypeInv, GatewayTypeOK, EGoto, EAnswer, gatewayVars, HasSent
<1>1. CASE GetIntent(e) \/ LookAtIntent(e) \/ PeekRecord(e) \/ FetchEvidence(e) \/ StoreRecord(e)
  <2>1. epc[e] \notin HasSent \cup {"done"} /\ epc'[e] \notin HasSent \cup {"send"}
    BY <1>1 DEF GetIntent, LookAtIntent, PeekRecord, FetchEvidence, StoreRecord
  <2>2. OnlyMoves(e)
    BY <1>1 DEF OnlyMoves, GetIntent, LookAtIntent, PeekRecord, FetchEvidence, StoreRecord
  <2>3. cache' = cache /\ attempts' = attempts /\ sent' = sent /\ early' = early
    BY <1>1 DEF GetIntent, LookAtIntent, PeekRecord, FetchEvidence, StoreRecord
  <2>4. \A u \in Users, k \in Keys : <<u, k>> \in early'[e] => cache[u][k] # None
    BY <2>3 DEF LedgerInv, EarlyInv
  <2> QED
    BY <2>1, <2>2, <2>3, <2>4, QuietLedger
<1>2. CASE LookInCache(e)
  <2>1. /\ epc[e] = "cached" /\ epc'[e] \in {"send", "done"}
        /\ epc'[e] = "send" => cache[ecall[e].user][view[e].key] = None
    BY <1>2 DEF LookInCache
  <2>2. ecall[e].user \in Users /\ view[e].key \in Keys
    BY <2>1 DEF ECarried, ExecSteps, HasView, ExecCall, Intent
  <2>3. epc'[e] = "send" => <<ecall[e].user, view[e].key>> \notin early[e]
    BY <2>1, <2>2 DEF LedgerInv, EarlyInv
  <2>4. OnlyMoves(e)
    BY <1>2 DEF OnlyMoves, LookInCache
  <2>5. /\ ecall' = ecall /\ view' = view /\ cache' = cache
        /\ attempts' = attempts /\ sent' = sent /\ early' = early
    BY <1>2 DEF LookInCache
  <2>6. \A u \in Users, k \in Keys : <<u, k>> \in early'[e] => cache[u][k] # None
    BY <2>5 DEF LedgerInv, EarlyInv
  <2> QED
    BY <2>1, <2>3, <2>4, <2>5, <2>6, QuietLedger
<1> QED
  BY <1>1, <1>2

LEMMA SendLedger ==
  ASSUME GatewayTypeInv, LedgerInv, NEW e \in Executions, Send(e)
  PROVE  LedgerInv'
<1> DEFINE x == [e |-> e, by |-> ecall[e].user, id |-> ecall[e].id, key |-> view[e].key]
<1>1. /\ epc[e] = "send" /\ epc'[e] = "keep"
      /\ \A d \in Executions : d # e => UNCHANGED <<epc[d], outcome[d]>>
      /\ outcome'[e].id = ecall[e].id
      /\ sent' = sent \cup {x}
      /\ UNCHANGED <<ecall, view, cache, attempts, early>>
  BY DEF Send, EGoto, gatewayVars, GatewayTypeInv, GatewayTypeOK
<1>2. \A s \in sent : s.e \in Executions /\ s.e # e
  BY <1>1 DEF LedgerInv, SentInv, HasSent, GatewayTypeInv, GatewayTypeOK
<1>3. x.e = e /\ x.by = ecall[e].user /\ x.id = ecall[e].id /\ x.key = view[e].key
  OBVIOUS
<1> HIDE DEF x
<1>4. <<ecall[e].user, view[e].key>> \notin early[e]
  BY <1>1 DEF LedgerInv, EarlyInv
<1>5. SentInv'
  <2> SUFFICES ASSUME NEW s \in sent'
               PROVE  /\ epc'[s.e] \in HasSent \cup {"done"}
                      /\ s.by = ecall[s.e].user /\ s.id = ecall[s.e].id /\ s.key = view[s.e].key
                      /\ epc'[s.e] # "keep" => cache[s.by][s.key] # None
                      /\ <<s.by, s.key>> \notin early[s.e]
    BY <1>1 DEF SentInv
  <2>1. CASE s = x
    BY <1>1, <1>3, <1>4, <2>1 DEF HasSent
  <2>2. CASE s \in sent
    BY <1>1, <1>2, <2>2 DEF LedgerInv, SentInv
  <2> QED
    BY <1>1, <2>1, <2>2
<1>6. EarlyInv'
  BY <1>1 DEF LedgerInv, EarlyInv
<1>7. OutcomeInv'
  <2>1. ASSUME NEW d \in Executions, d # e, epc'[d] \in HasSent
        PROVE  /\ outcome'[d].id = ecall'[d].id
               /\ \E s \in sent' :
                    s.e = d /\ s.by = ecall'[d].user /\ s.id = ecall'[d].id /\ s.key = view'[d].key
    BY <1>1, <2>1 DEF LedgerInv, OutcomeInv
  <2>2. /\ outcome'[e].id = ecall'[e].id
        /\ \E s \in sent' :
             s.e = e /\ s.by = ecall'[e].user /\ s.id = ecall'[e].id /\ s.key = view'[e].key
    BY <1>1, <1>3
  <2> QED
    BY <2>1, <2>2 DEF OutcomeInv
<1>8. CacheInv'
  BY <1>1 DEF LedgerInv, CacheInv
<1>9. LogIsOfSends'
  BY <1>1 DEF LedgerInv, LogIsOfSends
<1> QED
  BY <1>5, <1>6, <1>7, <1>8, <1>9 DEF LedgerInv

LEMMA KeepLedger ==
  ASSUME GatewayTypeInv, LedgerInv, NEW e \in Executions, KeepResult(e)
  PROVE  LedgerInv'
<1>1. /\ epc[e] = "keep" /\ epc'[e] = "log"
      /\ \A d \in Executions : d # e => UNCHANGED epc[d]
      /\ UNCHANGED <<ecall, view, outcome, attempts, sent, early>>
  BY DEF KeepResult, EGoto, GatewayTypeInv, GatewayTypeOK
<1>2. /\ outcome[e] \in Result /\ outcome[e] # None
      /\ ecall[e].user \in Users /\ view[e].key \in Keys
  BY <1>1, ExecutionAssumption
     DEF GatewayTypeInv, ECarried, ExecSteps, HasView, HasSent, ExecCall, Intent
<1>3. cache' = [cache EXCEPT ![ecall[e].user][view[e].key] = outcome[e]]
  BY DEF KeepResult
<1>4. \A u \in Users, k \in Keys :
        cache'[u][k] = IF u = ecall[e].user /\ k = view[e].key THEN outcome[e] ELSE cache[u][k]
  BY <1>2, <1>3 DEF GatewayTypeInv, GatewayTypeOK
<1>5. \A u \in Users, k \in Keys : cache[u][k] # None => cache'[u][k] # None
  BY <1>2, <1>4
<1>6. \A s \in sent : s.e \in Executions /\ s.by \in Users /\ s.key \in Keys
  BY DEF GatewayTypeInv, GatewayTypeOK
<1>7. SentInv'
  <2> SUFFICES ASSUME NEW s \in sent
               PROVE  /\ epc'[s.e] \in HasSent \cup {"done"}
                      /\ s.by = ecall[s.e].user /\ s.id = ecall[s.e].id /\ s.key = view[s.e].key
                      /\ epc'[s.e] # "keep" => cache'[s.by][s.key] # None
                      /\ <<s.by, s.key>> \notin early[s.e]
    BY <1>1 DEF SentInv
  <2>1. CASE s.e = e
    <3>1. s.by = ecall[e].user /\ s.key = view[e].key
      BY <2>1 DEF LedgerInv, SentInv
    <3>2. cache'[s.by][s.key] # None
      BY <1>2, <1>4, <3>1
    <3> QED
      BY <1>1, <2>1, <3>2 DEF LedgerInv, SentInv, HasSent
  <2>2. CASE s.e # e
    BY <1>1, <1>5, <1>6, <2>2 DEF LedgerInv, SentInv
  <2> QED
    BY <2>1, <2>2
<1>8. EarlyInv'
  BY <1>1, <1>5 DEF LedgerInv, EarlyInv
<1>9. OutcomeInv'
  BY <1>1 DEF LedgerInv, OutcomeInv, HasSent
<1>10. CacheInv'
  <2> SUFFICES ASSUME NEW u \in Users, NEW k \in Keys, cache'[u][k] # None
               PROVE  \E s \in sent : s.by = u /\ s.key = k /\ s.id = cache'[u][k].id
    BY <1>1 DEF CacheInv
  <2>1. CASE u = ecall[e].user /\ k = view[e].key
    <3>1. cache'[u][k] = outcome[e]
      BY <1>4, <2>1
    <3> QED
      BY <1>1, <2>1, <3>1 DEF LedgerInv, OutcomeInv, HasSent
  <2>2. CASE ~(u = ecall[e].user /\ k = view[e].key)
    BY <1>4, <2>2 DEF LedgerInv, CacheInv
  <2> QED
    BY <2>1, <2>2
<1>11. LogIsOfSends'
  BY <1>1 DEF LedgerInv, LogIsOfSends
<1> QED
  BY <1>7, <1>8, <1>9, <1>10, <1>11 DEF LedgerInv

LEMMA LogLedger ==
  ASSUME GatewayTypeInv, LedgerInv, NEW e \in Executions,
         FindLog(e) \/ NewLog(e) \/ AppendLog(e)
  PROVE  LedgerInv'
<1> USE DEF EGoto, EAnswer, gatewayVars, GatewayTypeInv, GatewayTypeOK
<1>1. /\ epc[e] \in HasSent /\ epc[e] # "keep"
      /\ epc'[e] \in {"newlist", "append", "done"}
      /\ \A d \in Executions : d # e => UNCHANGED epc[d]
      /\ UNCHANGED <<ecall, view, outcome, cache, sent, early>>
  BY DEF FindLog, NewLog, AppendLog, HasSent
<1>2. ecall[e].id \in Ids
  BY <1>1 DEF ECarried, ExecSteps, HasSent, ExecCall
<1>3. SentInv'
  BY <1>1 DEF LedgerInv, SentInv, HasSent
<1>4. EarlyInv'
  BY <1>1 DEF LedgerInv, EarlyInv
<1>5. OutcomeInv'
  BY <1>1 DEF LedgerInv, OutcomeInv
<1>6. CacheInv'
  BY <1>1 DEF LedgerInv, CacheInv
<1>7. \A i \in Ids :
        \/ attempts'[i] = attempts[i]
        \/ i = ecall[e].id /\ attempts'[i] = {}
        \/ i = ecall[e].id /\ epc[e] = "append" /\ attempts'[i] = attempts[i] \cup {e}
  BY <1>2 DEF FindLog, NewLog, AppendLog
<1>8. \E s \in sent : s.e = e /\ s.id = ecall[e].id
  BY <1>1 DEF LedgerInv, OutcomeInv
<1>9. LogIsOfSends'
  <2> SUFFICES ASSUME NEW i \in Ids, attempts'[i] # None, NEW d \in attempts'[i]
               PROVE  \E s \in sent : s.e = d /\ s.id = i
    BY <1>1 DEF LogIsOfSends
  <2>1. CASE attempts'[i] = attempts[i]
    BY <2>1 DEF LedgerInv, LogIsOfSends
  <2>2. CASE i = ecall[e].id /\ attempts'[i] = {}
    BY <2>2
  <2>3. CASE i = ecall[e].id /\ epc[e] = "append" /\ attempts'[i] = attempts[i] \cup {e}
    <3>1. CASE d = e
      BY <1>8, <2>3, <3>1
    <3>2. CASE d \in attempts[i] /\ attempts[i] # None
      BY <3>2 DEF LedgerInv, LogIsOfSends
    <3>3. attempts[i] # None
      BY <2>3, ExecutionAssumption DEF ECarried
    <3> QED
      BY <2>3, <3>1, <3>2, <3>3
  <2> QED
    BY <1>7, <2>1, <2>2, <2>3
<1> QED
  BY <1>3, <1>4, <1>5, <1>6, <1>9 DEF LedgerInv

LEMMA ExecCrashLedger ==
  ASSUME GatewayTypeInv, ExecCrash
  PROVE  LedgerInv'
<1>1. /\ sent' = {}
      /\ \A e \in Executions : epc'[e] \notin HasSent \cup {"send"} /\ early'[e] = {}
      /\ \A u \in Users, k \in Keys : cache'[u][k] = None
      /\ \A i \in Ids : attempts'[i] = None
  BY DEF ExecCrash, GatewayTypeInv, GatewayTypeOK, HasSent, ExecSteps
<1> QED
  BY <1>1 DEF LedgerInv, SentInv, EarlyInv, OutcomeInv, CacheInv, LogIsOfSends

LEMMA NextLedger == GatewayTypeInv /\ LedgerInv /\ [ExecNext]_allVars => LedgerInv'
<1> SUFFICES ASSUME GatewayTypeInv, LedgerInv, [ExecNext]_allVars PROVE LedgerInv'
  OBVIOUS
<1>1. CASE UNCHANGED execVars
  <2>1. /\ epc' = epc /\ ecall' = ecall /\ view' = view /\ outcome' = outcome /\ cache' = cache
        /\ attempts' = attempts /\ sent' = sent /\ early' = early
    BY <1>1 DEF execVars, gatewayVars
  <2> QED
    BY <2>1 DEF LedgerInv, SentInv, EarlyInv, OutcomeInv, CacheInv, LogIsOfSends
<1>2. ASSUME NEW e \in Executions, ExecStep(e)
      PROVE  LedgerInv'
  BY <1>2, ReadLedger, SendLedger, KeepLedger, LogLedger DEF ExecStep, Execute, Reconcile
<1> QED
  BY <1>1, <1>2, ExecStartLedger, ExecCrashLedger DEF ExecNext, allVars

-----------------------------------------------------------------------------
(***************************************************************************)
(* The intents behind the commands.                                        *)
(***************************************************************************)

(* u may act on intent i.                                                  *)
Entitled(u, i) == mem[i] # None /\ u \in Admins \cup {mem[i].user}

(* What a request read of its intent is still so when it uses it: all but  *)
(* the lifecycle state, and that if it is an end.                          *)
EntitledInv ==
  \A e \in Executions :
    LET x == mem[ecall[e].id]
    IN  /\ epc[e] \in HasView => Entitled(ecall[e].user, ecall[e].id)
        /\ epc[e] \in {"cached", "send"} \cup HasSent => x.key = view[e].key /\ x.pub = None
        /\ epc[e] \in {"fetch", "store"} => (view[e].state \in Terminal => x.state \in Terminal)

(* Nothing of the gateway outlives the process.                            *)
ProcessInv ==
  proc # "up" =>
    /\ \A e \in Executions : epc[e] \notin ExecSteps
    /\ sent = {}
    /\ \A i \in Ids : records[i] = None

PortInv == EntitledInv /\ ProcessInv /\ SentOnBehalf /\ RecordIsOfIntent

LEMMA InitPort == Init /\ ExecInit => PortInv
  BY DEF ExecInit, PortInv, EntitledInv, ProcessInv, SentOnBehalf, RecordIsOfIntent, HasView,
     HasSent, ExecSteps

(* While the order intents move on, everything the gateway relies on stays. *)
LEMMA IntentsPort ==
  ASSUME TypeInv, RepositoryInv, GatewayTypeInv, PortInv, IntentNext, UNCHANGED execVars
  PROVE  PortInv'
<1>1. /\ epc' = epc /\ ecall' = ecall /\ view' = view /\ records' = records /\ sent' = sent
  BY DEF execVars, gatewayVars
<1>2. CASE proc # "up"
  <2>1. /\ \A e \in Executions : epc'[e] \notin ExecSteps
        /\ sent' = {}
        /\ \A i \in Ids : records'[i] = None
    BY <1>1, <1>2 DEF PortInv, ProcessInv
  <2> QED
    BY <2>1 DEF PortInv, EntitledInv, ProcessInv, SentOnBehalf, RecordIsOfIntent, HasView,
       HasSent, ExecSteps
<1>3. CASE proc = "up"
  <2>1. ASSUME NEW i \in Ids, mem[i] # None
        PROVE  /\ mem'[i] # None
               /\ mem'[i].user = mem[i].user /\ mem'[i].key = mem[i].key
               /\ mem'[i].pub = mem[i].pub
               /\ mem[i].state \in Terminal => mem'[i].state \in Terminal
    <3>1. mem'[i] \in Intent /\ Continues(mem[i], mem'[i])
      BY <1>3, <2>1, MemoryContinues
    <3>2. mem[i] \in Intent
      BY <2>1 DEF TypeInv, TypeOK, IntentTable
    <3> QED
      BY <3>1, <3>2, ContinuesParts
  <2>2. proc' = "up"
    BY <1>3 DEF IntentNext, Start, Step, Canonical, Create, Finish, Transition, Record, Save,
       Resolve, LookupExisting, LookupKeyTaken, LookupUnsound, LookupNew, CheckExisting,
       CheckNotGranted, CheckNew, Read, Write, Publish, Boot, bounds
  <2>3. EntitledInv'
    <3> SUFFICES ASSUME NEW e \in Executions, epc[e] \in HasView
                 PROVE  LET x == mem'[ecall[e].id]
                        IN  /\ x # None /\ ecall[e].user \in Admins \cup {x.user}
                            /\ epc[e] \in {"cached", "send"} \cup HasSent =>
                                 x.key = view[e].key /\ x.pub = None
                            /\ epc[e] \in {"fetch", "store"} =>
                                 (view[e].state \in Terminal => x.state \in Terminal)
      BY <1>1 DEF EntitledInv, Entitled, HasView, HasSent
    <3>1. ecall[e].id \in Ids
      BY DEF GatewayTypeInv, ECarried, HasView, ExecSteps, ExecCall
    <3>2. mem[ecall[e].id] # None
      BY DEF PortInv, EntitledInv, Entitled
    <3> QED
      BY <2>1, <3>1, <3>2 DEF PortInv, EntitledInv, Entitled
  <2>4. SentOnBehalf'
    <3>1. \A s \in sent : s.id \in Ids
      BY DEF GatewayTypeInv, GatewayTypeOK
    <3> QED
      BY <1>1, <2>1, <3>1 DEF PortInv, SentOnBehalf
  <2>5. RecordIsOfIntent'
    BY <1>1, <2>1 DEF PortInv, RecordIsOfIntent
  <2> QED
    BY <2>2, <2>3, <2>4, <2>5 DEF PortInv, ProcessInv
<1> QED
  BY <1>2, <1>3

(* Steps of a request that neither sends nor makes a record.               *)
LEMMA QuietPort ==
  ASSUME PortInv, mem' = mem, proc' = proc, proc = "up", sent' = sent, records' = records,
         NEW e \in Executions, OnlyMoves(e),
         LET x == mem[ecall'[e].id]
         IN  /\ epc'[e] \in HasView => Entitled(ecall'[e].user, ecall'[e].id)
             /\ epc'[e] \in {"cached", "send"} \cup HasSent =>
                  x.key = view'[e].key /\ x.pub = None
             /\ epc'[e] \in {"fetch", "store"} =>
                  (view'[e].state \in Terminal => x.state \in Terminal)
  PROVE  PortInv'
<1>1. EntitledInv'
  BY DEF PortInv, EntitledInv, Entitled, OnlyMoves
<1> QED
  BY <1>1 DEF PortInv, ProcessInv, SentOnBehalf, RecordIsOfIntent

LEMMA StartPort ==
  ASSUME GatewayTypeInv, PortInv, NEW e \in Executions, NEW c \in ExecOffered,
         ExecStart(e, c), UNCHANGED vars
  PROVE  PortInv'
<1>1. FirstExecStep(c) \in {"get", "look", "peek"}
  BY ExecutionAssumption DEF ExecCall, FirstExecStep
<1>2. /\ epc'[e] \notin HasView \cup HasSent
      /\ epc'[e] \notin {"cached", "send", "fetch", "store"}
  BY <1>1 DEF ExecStart, EGoto, EAnswer, HasView, HasSent, GatewayTypeInv, GatewayTypeOK
<1>3. OnlyMoves(e)
  BY DEF OnlyMoves, ExecStart, EGoto, EAnswer, GatewayTypeInv, GatewayTypeOK
<1>4. mem' = mem /\ proc' = proc /\ proc = "up" /\ sent' = sent /\ records' = records
  BY DEF ExecStart, gatewayVars, vars, repoVars
<1> QED
  BY <1>2, <1>3, <1>4, QuietPort

LEMMA RunningGatewayIsUp ==
  ASSUME PortInv, NEW e \in Executions, epc[e] \in ExecSteps
  PROVE  proc = "up"
BY DEF PortInv, ProcessInv

LEMMA LookPort ==
  ASSUME GatewayTypeInv, PortInv, UNCHANGED vars, NEW e \in Executions,
         GetIntent(e) \/ LookAtIntent(e) \/ PeekRecord(e)
  PROVE  PortInv'
<1> USE DEF GatewayTypeInv, GatewayTypeOK, EGoto, EAnswer, gatewayVars
<1>1. epc[e] \in {"get", "look", "peek"}
  BY DEF GetIntent, LookAtIntent, PeekRecord
<1>2. proc = "up" /\ proc' = proc /\ mem' = mem
  BY <1>1, RunningGatewayIsUp DEF ExecSteps, vars, repoVars
<1>3. OnlyMoves(e)
  BY DEF OnlyMoves, GetIntent, LookAtIntent, PeekRecord
<1>4. ecall' = ecall /\ sent' = sent /\ records' = records
  BY DEF GetIntent, LookAtIntent, PeekRecord
<1>5. CASE epc'[e] = "cached"
  <2>1. Executable(ecall[e].user, ecall[e].id) /\ view'[e] = mem[ecall[e].id]
    BY <1>5 DEF GetIntent, LookAtIntent, PeekRecord
  <2> QED
    BY <1>2, <1>3, <1>4, <1>5, <2>1, QuietPort DEF Executable, Visible, Entitled
<1>6. CASE epc'[e] = "fetch"
  <2>1. Visible(ecall[e].user, ecall[e].id) /\ view'[e] = mem[ecall[e].id]
    BY <1>6 DEF GetIntent, LookAtIntent, PeekRecord
  <2> QED
    BY <1>2, <1>3, <1>4, <1>6, <2>1, QuietPort DEF Visible, Entitled, HasSent
<1>7. CASE epc'[e] \notin {"cached", "fetch"}
  <2>1. epc'[e] \in {"look", "done"}
    BY <1>7 DEF GetIntent, LookAtIntent, PeekRecord
  <2> QED
    BY <1>2, <1>3, <1>4, <2>1, QuietPort DEF HasView, HasSent
<1> QED
  BY <1>5, <1>6, <1>7

LEMMA CarryPort ==
  ASSUME GatewayTypeInv, PortInv, UNCHANGED vars, NEW e \in Executions,
         \/ LookInCache(e) \/ KeepResult(e) \/ FindLog(e) \/ NewLog(e) \/ AppendLog(e)
         \/ FetchEvidence(e)
  PROVE  PortInv'
<1> USE DEF GatewayTypeInv, GatewayTypeOK, EGoto, EAnswer, gatewayVars
<1>1. /\ epc[e] \in {"cached", "fetch"} \cup HasSent
      /\ epc[e] = "fetch" => epc'[e] = "store"
      /\ epc[e] # "fetch" => epc'[e] \in {"send", "done"} \cup HasSent
  BY DEF LookInCache, KeepResult, FindLog, NewLog, AppendLog, FetchEvidence, HasSent
<1>2. epc[e] \in HasView /\ epc[e] \in ExecSteps
  BY <1>1 DEF HasView, HasSent, ExecSteps
<1>3. proc = "up" /\ proc' = proc /\ mem' = mem
  BY <1>2, RunningGatewayIsUp DEF vars, repoVars
<1>4. OnlyMoves(e)
  BY DEF OnlyMoves, LookInCache, KeepResult, FindLog, NewLog, AppendLog, FetchEvidence
<1>5. ecall' = ecall /\ view' = view /\ sent' = sent /\ records' = records
  BY DEF LookInCache, KeepResult, FindLog, NewLog, AppendLog, FetchEvidence
<1>6. /\ Entitled(ecall[e].user, ecall[e].id)
      /\ epc[e] # "fetch" =>
           mem[ecall[e].id].key = view[e].key /\ mem[ecall[e].id].pub = None
      /\ epc[e] = "fetch" =>
           (view[e].state \in Terminal => mem[ecall[e].id].state \in Terminal)
  BY <1>1, <1>2 DEF PortInv, EntitledInv
<1> QED
  BY <1>1, <1>3, <1>4, <1>5, <1>6, QuietPort DEF HasSent

LEMMA SendPort ==
  ASSUME GatewayTypeInv, PortInv, UNCHANGED vars, NEW e \in Executions, Send(e)
  PROVE  PortInv'
<1> DEFINE s == [e |-> e, by |-> ecall[e].user, id |-> ecall[e].id, key |-> view[e].key]
<1>1. /\ epc[e] = "send" /\ epc' = [epc EXCEPT ![e] = "keep"]
      /\ sent' = sent \cup {s}
      /\ UNCHANGED <<ecall, view, records>>
      /\ proc' = proc /\ mem' = mem
  BY DEF Send, EGoto, gatewayVars, vars, repoVars
<1>2. /\ Entitled(ecall[e].user, ecall[e].id)
      /\ mem[ecall[e].id].key = view[e].key /\ mem[ecall[e].id].pub = None
  BY <1>1 DEF PortInv, EntitledInv, HasView
<1>3. proc = "up"
  BY <1>1, RunningGatewayIsUp DEF ExecSteps
<1>4. s.by = ecall[e].user /\ s.id = ecall[e].id /\ s.key = view[e].key
  OBVIOUS
<1> HIDE DEF s
<1>5. SentOnBehalf'
  BY <1>1, <1>2, <1>4 DEF PortInv, SentOnBehalf, Entitled
<1>6. \A d \in Executions : epc'[d] = IF d = e THEN "keep" ELSE epc[d]
  BY <1>1 DEF GatewayTypeInv, GatewayTypeOK
<1>7. EntitledInv'
  BY <1>1, <1>2, <1>6 DEF PortInv, EntitledInv, Entitled, HasView, HasSent
<1> QED
  BY <1>1, <1>3, <1>5, <1>7 DEF PortInv, ProcessInv, RecordIsOfIntent

LEMMA StorePort ==
  ASSUME GatewayTypeInv, PortInv, UNCHANGED vars, NEW e \in Executions, StoreRecord(e)
  PROVE  PortInv'
<1> DEFINE x == [by |-> ecall[e].user, internal |-> view[e].state,
                 external |-> IF report[e] \in LifecycleStates THEN report[e] ELSE None,
                 status |-> Status(view[e].state, report[e])]
<1>1. /\ epc[e] = "store" /\ epc' = [epc EXCEPT ![e] = "done"]
      /\ records' = [records EXCEPT ![ecall[e].id] = x]
      /\ UNCHANGED <<ecall, view, sent>>
      /\ proc' = proc /\ mem' = mem
  BY DEF StoreRecord, EAnswer, EGoto, vars, repoVars
<1>2. /\ Entitled(ecall[e].user, ecall[e].id)
      /\ view[e].state \in Terminal => mem[ecall[e].id].state \in Terminal
  BY <1>1 DEF PortInv, EntitledInv, HasView
<1>3. proc = "up" /\ ecall[e].id \in Ids
  BY <1>1, RunningGatewayIsUp DEF ExecSteps, GatewayTypeInv, ECarried, ExecCall
<1>4. x.by = ecall[e].user /\ x.internal = view[e].state
  OBVIOUS
<1> HIDE DEF x
<1>5. \A i \in Ids : records'[i] = IF i = ecall[e].id THEN x ELSE records[i]
  BY <1>1, <1>3 DEF GatewayTypeInv, GatewayTypeOK
<1>6. RecordIsOfIntent'
  BY <1>1, <1>2, <1>4, <1>5 DEF PortInv, RecordIsOfIntent, Entitled
<1>7. \A d \in Executions : epc'[d] = IF d = e THEN "done" ELSE epc[d]
  BY <1>1 DEF GatewayTypeInv, GatewayTypeOK
<1>8. EntitledInv'
  BY <1>1, <1>7 DEF PortInv, EntitledInv, Entitled, HasView, HasSent
<1> QED
  BY <1>1, <1>3, <1>6, <1>8 DEF PortInv, ProcessInv, SentOnBehalf

LEMMA CrashPort ==
  ASSUME GatewayTypeInv, ExecCrash
  PROVE  PortInv'
<1>1. /\ sent' = {} /\ \A i \in Ids : records'[i] = None
      /\ \A e \in Executions : epc'[e] \notin ExecSteps
  BY DEF ExecCrash, GatewayTypeInv, GatewayTypeOK, ExecSteps
<1> QED
  BY <1>1 DEF PortInv, EntitledInv, ProcessInv, SentOnBehalf, RecordIsOfIntent, HasView, HasSent,
     ExecSteps

LEMMA NextPort ==
  TypeInv /\ RepositoryInv /\ GatewayTypeInv /\ PortInv /\ [ExecNext]_allVars => PortInv'
<1> SUFFICES ASSUME TypeInv, RepositoryInv, GatewayTypeInv, PortInv, [ExecNext]_allVars
             PROVE  PortInv'
  OBVIOUS
<1>1. CASE UNCHANGED allVars
  <2>1. /\ epc' = epc /\ ecall' = ecall /\ view' = view /\ records' = records /\ sent' = sent
        /\ mem' = mem /\ proc' = proc
    BY <1>1 DEF allVars, vars, repoVars, execVars, gatewayVars
  <2> QED
    BY <2>1 DEF PortInv, EntitledInv, Entitled, ProcessInv, SentOnBehalf, RecordIsOfIntent
<1>2. ASSUME NEW e \in Executions, ExecStep(e), UNCHANGED vars
      PROVE  PortInv'
  BY <1>2, LookPort, CarryPort, SendPort, StorePort DEF ExecStep, Execute, Reconcile
<1> QED
  BY <1>1, <1>2, IntentsPort, StartPort, CrashPort DEF ExecNext

-----------------------------------------------------------------------------
(***************************************************************************)
(* The theorems.                                                           *)
(***************************************************************************)

(* The inductive invariant of the composition.                             *)
GatewayInv == TypeInv /\ RepositoryInv /\ GatewayTypeInv /\ LedgerInv /\ PortInv

LEMMA InitGateway == Init /\ ExecInit => GatewayInv
  BY InitTypes, InitRepository, InitExecTypes, InitLedger, InitPort DEF GatewayInv

LEMMA NextGateway == GatewayInv /\ [ExecNext]_allVars => GatewayInv'
<1> SUFFICES ASSUME GatewayInv, [ExecNext]_allVars PROVE GatewayInv'
  OBVIOUS
<1>1. TypeInv' /\ RepositoryInv'
  BY ComposedSteps, NextTypes, NextKeeps DEF GatewayInv
<1>2. GatewayTypeInv'
  BY ExecNextTypes DEF GatewayInv, TypeInv, TypeOK
<1> QED
  BY <1>1, <1>2, NextLedger, NextPort DEF GatewayInv

THEOREM GatewayCorrect == GatewaySpec => []GatewayInv
BY InitGateway, NextGateway, PTL DEF GatewaySpec

(* Every variable of the gateway keeps its type.                           *)
THEOREM GatewayTypes == GatewaySpec => []GatewayTypeOK
<1>1. GatewayInv => GatewayTypeOK
  BY DEF GatewayInv, GatewayTypeInv
<1> QED
  BY <1>1, GatewayCorrect, PTL

(* The port receives commands only for intents under an authorization, and *)
(* only for their owner or an admin: not even a crash between the reading  *)
(* of the intent and the command, or a concurrent transition, changes it.  *)
THEOREM CommandsOnBehalf == GatewaySpec => []SentOnBehalf
<1>1. GatewayInv => SentOnBehalf
  BY DEF GatewayInv, PortInv
<1> QED
  BY <1>1, GatewayCorrect, PTL

(* Once a request was answered from the port, no later request of the same *)
(* user and key reaches the port, for any number of requests at once.      *)
THEOREM AnsweredIsFinal == GatewaySpec => []NoResendOnceAnswered
<1>1. GatewayInv => NoResendOnceAnswered
  BY DEF GatewayInv, LedgerInv, SentInv, NoResendOnceAnswered
<1> QED
  BY <1>1, GatewayCorrect, PTL

(* The log of attempts holds commands the port received, each under its    *)
(* intent, though the list is made and extended in separate steps.         *)
THEOREM LogOfSends == GatewaySpec => []LogIsOfSends
<1>1. GatewayInv => LogIsOfSends
  BY DEF GatewayInv, LedgerInv
<1> QED
  BY <1>1, GatewayCorrect, PTL

(* A reconciliation record is of an intent its maker may see, and its      *)
(* state is not ahead of the intent.                                       *)
THEOREM RecordOfIntent == GatewaySpec => []RecordIsOfIntent
<1>1. GatewayInv => RecordIsOfIntent
  BY DEF GatewayInv, PortInv
<1> QED
  BY <1>1, GatewayCorrect, PTL

(* A tenant is answered with results of its own intents only.              *)
THEOREM OwnResults == GatewaySpec => ResultIsOwn
<1> DEFINE Own == \A e \in Executions :
                    ereply'[e] = "result" /\ ereply[e] # "result" /\ ecall[e].user \notin Admins =>
                      LET x == mem[outcome'[e].id]
                      IN  x # None /\ x.user = ecall[e].user /\ x.key = view[e].key
<1>1. ASSUME GatewayInv, ExecNext PROVE Own
  <2> USE DEF GatewayInv, GatewayTypeInv, GatewayTypeOK, EGoto, EAnswer, gatewayVars
  <2> SUFFICES ASSUME NEW e \in Executions, ereply'[e] = "result", ereply[e] # "result",
                      ecall[e].user \notin Admins
               PROVE  LET x == mem[outcome'[e].id]
                      IN  x # None /\ x.user = ecall[e].user /\ x.key = view[e].key
    OBVIOUS
  <2>1. LookInCache(e) \/ AppendLog(e)
    <3>1. ASSUME NEW d \in Executions, ExecStep(d), ereply' # ereply
          PROVE  d = e /\ (LookInCache(e) \/ AppendLog(e))
      BY <1>1, <3>1 DEF ExecStep, Execute, Reconcile, GetIntent, LookInCache, Send, KeepResult, FindLog,
         NewLog, AppendLog, LookAtIntent, FetchEvidence, StoreRecord, PeekRecord
    <3>2. ASSUME NEW d \in Executions, NEW c \in ExecOffered, ExecStart(d, c)
          PROVE  FALSE
      BY <1>1, <3>2 DEF ExecStart
    <3> QED
      BY <1>1, <3>1, <3>2 DEF ExecNext, execVars, ExecCrash
  <2>2. ecall[e].user \in Users /\ view[e].key \in Keys /\ epc[e] \in {"cached", "append"}
    BY <1>1, <2>1 DEF LookInCache, AppendLog, ECarried, ExecSteps, HasView, ExecCall, Intent
  <2>3. CASE LookInCache(e)
    <3>1. /\ outcome'[e] = cache[ecall[e].user][view[e].key]
          /\ cache[ecall[e].user][view[e].key] # None
      BY <1>1, <2>3 DEF LookInCache
    <3>2. PICK s \in sent :
            s.by = ecall[e].user /\ s.key = view[e].key /\ s.id = outcome'[e].id
      BY <1>1, <2>2, <3>1 DEF LedgerInv, CacheInv
    <3> QED
      BY <1>1, <3>2 DEF PortInv, SentOnBehalf
  <2>4. CASE AppendLog(e)
    <3>1. epc[e] = "append" /\ outcome'[e] = outcome[e]
      BY <2>4 DEF AppendLog
    <3>2. outcome[e].id = ecall[e].id
      BY <1>1, <3>1 DEF LedgerInv, OutcomeInv, HasSent
    <3>3. /\ Entitled(ecall[e].user, ecall[e].id)
          /\ mem[ecall[e].id].key = view[e].key
      BY <1>1, <3>1 DEF PortInv, EntitledInv, HasView, HasSent
    <3> QED
      BY <3>1, <3>2, <3>3 DEF Entitled
  <2> QED
    BY <2>1, <2>3, <2>4
<1>2. GatewayInv /\ [ExecNext]_allVars => [Own]_allVars
  BY <1>1
<1> QED
  BY <1>2, GatewayCorrect, PTL DEF GatewaySpec, ResultIsOwn
=============================================================================
