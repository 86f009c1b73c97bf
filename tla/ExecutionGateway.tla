-------------------------- MODULE ExecutionGateway --------------------------
(***************************************************************************)
(* The execution gateway: src/platform/services/execution_gateway.py,      *)
(* composed with the order intents it reads.                               *)
(*                                                                         *)
(* The service has no lock.  A request for execution reads the intent,     *)
(* looks for an earlier result of its idempotency key, calls the port,     *)
(* and writes the result down, in steps between which any other thread may *)
(* run: another execution, or a transition that ends the intent.           *)
(***************************************************************************)
EXTENDS OrderIntents

CONSTANTS
  Executions,       \* the requests to the gateway, one handler thread each
  ExecOffered,      \* the calls such a request can make, a set of ExecCall
  PortStatuses,     \* the statuses with which the port answers a command
  Evidence          \* what the reconciliation port can report

ExecCall == [op: {"execute", "reconcile", "record"}, user: Users, id: Ids]

(* An ExecutionAttemptResult; a port that raises counts as "failed".       *)
Result == [id: Ids, status: PortStatuses \cup {"failed"}]

(* Either no provider, or no trace of the intent, or its external state.   *)
Report == {"unconfigured", "missing"} \cup LifecycleStates

Reconciliation ==
  [by: Users, internal: LifecycleStates, external: LifecycleStates \cup {None},
   status: {"NOT_CONFIGURED", "NO_EXTERNAL_EVIDENCE", "MATCHED", "DISCREPANCY"}]

ASSUME ExecutionAssumption ==
  /\ ExecOffered \subseteq ExecCall
  /\ Evidence \subseteq Report
  /\ None \notin Result
  /\ \A S \in SUBSET Executions : S # None

VARIABLES
  epc,        \* the next step of each execution request
  ecall,      \* its call
  view,       \* the intent it read
  outcome,    \* the result it got from the port or the cache
  report,     \* the external evidence it fetched
  ereply,     \* what the client is told: "refused", "result" or "reconciled"
  cache,      \* _idempotency_map: cache[u][k], u the one who asked
  attempts,   \* _attempts_by_order_id: the requests logged for an intent, or None
  records,    \* _reconciliations_by_order_id
  sent,       \* history: the commands the port received in this process life
  early       \* history: the users and keys answered from the port when a request started

gatewayVars == <<cache, attempts, records>>
execVars == <<epc, ecall, view, outcome, report, ereply, gatewayVars, sent, early>>
allVars == <<vars, execVars>>

ExecSteps ==
  {"get", "cached", "send", "keep", "log", "newlist", "append", "look", "fetch", "store", "peek"}

EGoto(e, step) == epc' = [epc EXCEPT ![e] = step]

EAnswer(e, what) ==
  /\ EGoto(e, "done")
  /\ ereply' = [ereply EXCEPT ![e] = what]

Answered == {<<s.by, s.key>> : s \in {t \in sent : epc[t.e] = "done"}}

FirstExecStep(c) ==
  CASE c.op = "execute" -> "get"
    [] c.op = "reconcile" -> "look"
    [] c.op = "record" -> "peek"

(* Every operation asks the security boundary first.                       *)
ExecStart(e, c) ==
  /\ proc = "up"
  /\ epc[e] = "idle"
  /\ IF c.user \in Permitted
       THEN EGoto(e, FirstExecStep(c)) /\ UNCHANGED ereply
       ELSE EAnswer(e, "refused")
  /\ ecall' = [ecall EXCEPT ![e] = c]
  /\ early' = [early EXCEPT ![e] = Answered]
  /\ UNCHANGED <<view, outcome, report, gatewayVars, sent>>

-----------------------------------------------------------------------------
(***************************************************************************)
(* request_execution                                                       *)
(***************************************************************************)

(* Mutant: the intent is read without the caller's user filter.            *)
ExecutableForAll(u, i) == mem[i] # None /\ mem[i].state = "STAGED" /\ mem[i].pub = None

(* Mutant: a canonical intent makes a command, with no authorization.      *)
ExecutableCanonical(u, i) == Visible(u, i) /\ mem[i].state = "STAGED"

(* A command needs an intent the caller may see, that is staged, and that  *)
(* has an authorization_id: a canonical intent has none.                   *)
Executable(u, i) == Visible(u, i) /\ mem[i].state = "STAGED" /\ mem[i].pub = None

GetIntent(e) ==
  LET c == ecall[e]
  IN  /\ epc[e] = "get"
      /\ IF Executable(c.user, c.id)
           THEN /\ EGoto(e, "cached")
                /\ view' = [view EXCEPT ![e] = mem[c.id]]
                /\ UNCHANGED ereply
           ELSE EAnswer(e, "refused") /\ UNCHANGED view
      /\ UNCHANGED <<ecall, outcome, report, gatewayVars, sent, early>>

(* Mutant: results are looked up by key for every user.                    *)
CacheHitAnyUser(e) ==
  \E u \in Users : LET hit == cache[u][view[e].key]
  IN  /\ epc[e] = "cached"
      /\ IF hit # None
           THEN /\ EAnswer(e, "result")
                /\ outcome' = [outcome EXCEPT ![e] = hit]
           ELSE EGoto(e, "send") /\ UNCHANGED <<outcome, ereply>>
      /\ UNCHANGED <<ecall, view, report, gatewayVars, sent, early>>

(* The result of an earlier command of this user with this key.            *)
LookInCache(e) ==
  LET hit == cache[ecall[e].user][view[e].key]
  IN  /\ epc[e] = "cached"
      /\ IF hit # None
           THEN /\ EAnswer(e, "result")
                /\ outcome' = [outcome EXCEPT ![e] = hit]
           ELSE EGoto(e, "send") /\ UNCHANGED <<outcome, ereply>>
      /\ UNCHANGED <<ecall, view, report, gatewayVars, sent, early>>

(* The port receives the command and answers, or raises.                   *)
Send(e) ==
  /\ epc[e] = "send"
  /\ EGoto(e, "keep")
  /\ sent' = sent \cup {[e |-> e, by |-> ecall[e].user, id |-> ecall[e].id, key |-> view[e].key]}
  /\ \E s \in PortStatuses \cup {"failed"} :
       outcome' = [outcome EXCEPT ![e] = [id |-> ecall[e].id, status |-> s]]
  /\ UNCHANGED <<ecall, view, report, ereply, gatewayVars, early>>

(* Mutant: a failed attempt is not kept.                                   *)
KeepUnlessFailed(e) ==
  /\ epc[e] = "keep"
  /\ EGoto(e, "log")
  /\ cache' = IF outcome[e].status = "failed" THEN cache
              ELSE [cache EXCEPT ![ecall[e].user][view[e].key] = outcome[e]]
  /\ UNCHANGED <<ecall, view, outcome, report, ereply, attempts, records, sent, early>>

KeepResult(e) ==
  /\ epc[e] = "keep"
  /\ EGoto(e, "log")
  /\ cache' = [cache EXCEPT ![ecall[e].user][view[e].key] = outcome[e]]
  /\ UNCHANGED <<ecall, view, outcome, report, ereply, attempts, records, sent, early>>

(* Is there a list of attempts for the intent?  If not, one is made ...    *)
FindLog(e) ==
  /\ epc[e] = "log"
  /\ EGoto(e, IF attempts[ecall[e].id] = None THEN "newlist" ELSE "append")
  /\ UNCHANGED <<ecall, view, outcome, report, ereply, gatewayVars, sent, early>>

NewLog(e) ==
  /\ epc[e] = "newlist"
  /\ EGoto(e, "append")
  /\ attempts' = [attempts EXCEPT ![ecall[e].id] = {}]
  /\ UNCHANGED <<ecall, view, outcome, report, ereply, cache, records, sent, early>>

(* Mutant: the attempt is logged under every intent with the key.          *)
AppendLogOfKey(e) ==
  /\ epc[e] = "append"
  /\ EAnswer(e, "result")
  /\ attempts' = [i \in Ids |->
       IF mem[i] # None /\ mem[i].key = view[e].key
         THEN {e} \cup (IF attempts[i] = None THEN {} ELSE attempts[i]) ELSE attempts[i]]
  /\ UNCHANGED <<ecall, view, outcome, report, cache, records, sent, early>>

(* Mutant: the id of the intent is logged instead of the attempt.          *)
AppendIntentId(e) ==
  /\ epc[e] = "append"
  /\ EAnswer(e, "result")
  /\ attempts' = [attempts EXCEPT ![ecall[e].id] = @ \cup {ecall[e].id}]
  /\ UNCHANGED <<ecall, view, outcome, report, cache, records, sent, early>>

(* ... and the attempt is added to it.                                     *)
AppendLog(e) ==
  /\ epc[e] = "append"
  /\ EAnswer(e, "result")
  /\ attempts' = [attempts EXCEPT ![ecall[e].id] = @ \cup {e}]
  /\ UNCHANGED <<ecall, view, outcome, report, cache, records, sent, early>>

-----------------------------------------------------------------------------
(***************************************************************************)
(* reconcile_execution and get_reconciliation_record                       *)
(***************************************************************************)

LookAtIntent(e) ==
  LET c == ecall[e]
  IN  /\ epc[e] = "look"
      /\ IF Visible(c.user, c.id)
           THEN /\ EGoto(e, "fetch")
                /\ view' = [view EXCEPT ![e] = mem[c.id]]
                /\ UNCHANGED ereply
           ELSE EAnswer(e, "refused") /\ UNCHANGED view
      /\ UNCHANGED <<ecall, outcome, report, gatewayVars, sent, early>>

(* A port that raises counts as not configured.                            *)
FetchEvidence(e) ==
  /\ epc[e] = "fetch"
  /\ EGoto(e, "store")
  /\ \E x \in Evidence \cup {"unconfigured"} : report' = [report EXCEPT ![e] = x]
  /\ UNCHANGED <<ecall, view, outcome, ereply, gatewayVars, sent, early>>

Status(internal, x) ==
  CASE x = "unconfigured" -> "NOT_CONFIGURED"
    [] x = "missing" -> "NO_EXTERNAL_EVIDENCE"
    [] x = internal -> "MATCHED"
    [] OTHER -> "DISCREPANCY"

(* The record of an earlier reconciliation is replaced.                    *)
StoreRecord(e) ==
  LET internal == view[e].state
  IN  /\ epc[e] = "store"
      /\ EAnswer(e, "reconciled")
      /\ records' = [records EXCEPT ![ecall[e].id] =
           [by |-> ecall[e].user, internal |-> internal,
            external |-> IF report[e] \in LifecycleStates THEN report[e] ELSE None,
            status |-> Status(internal, report[e])]]
      /\ UNCHANGED <<ecall, view, outcome, report, cache, attempts, sent, early>>

(* Without a record, get_reconciliation_record reconciles.                 *)
PeekRecord(e) ==
  LET c == ecall[e]
  IN  /\ epc[e] = "peek"
      /\ IF ~Visible(c.user, c.id) THEN EAnswer(e, "refused")
         ELSE IF records[c.id] # None THEN EAnswer(e, "reconciled")
         ELSE EGoto(e, "look") /\ UNCHANGED ereply
      /\ UNCHANGED <<ecall, view, outcome, report, gatewayVars, sent, early>>

-----------------------------------------------------------------------------
ExecInit ==
  /\ epc = [e \in Executions |-> "idle"]
  /\ ecall = [e \in Executions |-> None]
  /\ view = [e \in Executions |-> None]
  /\ outcome = [e \in Executions |-> None]
  /\ report = [e \in Executions |-> None]
  /\ ereply = [e \in Executions |-> None]
  /\ cache = [u \in Users |-> [k \in Keys |-> None]]
  /\ attempts = [i \in Ids |-> None]
  /\ records = [i \in Ids |-> None]
  /\ sent = {}
  /\ early = [e \in Executions |-> {}]

(* The gateway keeps everything in memory.                                 *)
ExecCrash ==
  /\ Crash
  /\ epc' = [e \in Executions |-> IF epc[e] \in ExecSteps THEN "dead" ELSE epc[e]]
  /\ cache' = [u \in Users |-> [k \in Keys |-> None]]
  /\ attempts' = [i \in Ids |-> None]
  /\ records' = [i \in Ids |-> None]
  /\ sent' = {}
  /\ early' = [e \in Executions |-> {}]
  /\ UNCHANGED <<ecall, view, outcome, report, ereply>>

Execute(e) ==
  \/ GetIntent(e)
  \/ LookInCache(e)
  \/ Send(e)
  \/ KeepResult(e)
  \/ FindLog(e)
  \/ NewLog(e)
  \/ AppendLog(e)

Reconcile(e) ==
  \/ LookAtIntent(e)
  \/ FetchEvidence(e)
  \/ StoreRecord(e)
  \/ PeekRecord(e)

ExecStep(e) == Execute(e) \/ Reconcile(e)

(* The steps of OrderIntents other than a crash.                           *)
IntentNext ==
  \/ \E r \in Requests, c \in Offered : Start(r, c)
  \/ \E r \in Requests : Step(r)
  \/ \E u \in Users, p \in Pubs, c \in Contents : Publish(u, p, c)
  \/ Boot

ExecNext ==
  \/ IntentNext /\ UNCHANGED execVars
  \/ \E e \in Executions, c \in ExecOffered : ExecStart(e, c) /\ UNCHANGED vars
  \/ \E e \in Executions : ExecStep(e) /\ UNCHANGED vars
  \/ ExecCrash

GatewaySpec == Init /\ ExecInit /\ [][ExecNext]_allVars

-----------------------------------------------------------------------------
(* Every variable of the gateway has its type.                             *)
GatewayTypeOK ==
  /\ epc \in [Executions -> {"idle", "done", "dead"} \cup ExecSteps]
  /\ ecall \in [Executions -> ExecCall \cup {None}]
  /\ view \in [Executions -> Intent \cup {None}]
  /\ outcome \in [Executions -> Result \cup {None}]
  /\ report \in [Executions -> Report \cup {None}]
  /\ ereply \in [Executions -> {"refused", "result", "reconciled", None}]
  /\ cache \in [Users -> [Keys -> Result \cup {None}]]
  /\ attempts \in [Ids -> (SUBSET Executions) \cup {None}]
  /\ records \in [Ids -> Reconciliation \cup {None}]
  /\ sent \subseteq [e: Executions, by: Users, id: Ids, key: Keys]
  /\ early \in [Executions -> SUBSET (Users \X Keys)]

(* The port only ever receives commands for intents that exist under an    *)
(* authorization (not canonical ones, even after a crash and a reload),    *)
(* on behalf of the owner or of an admin.                                  *)
SentOnBehalf ==
  \A s \in sent :
    /\ mem[s.id] # None
    /\ mem[s.id].key = s.key
    /\ mem[s.id].pub = None
    /\ s.by \in Admins \cup {mem[s.id].user}

(* A request that starts when an earlier one of the same user and key has  *)
(* been answered by the port never sends again, whatever the answer was.   *)
NoResendOnceAnswered == \A s \in sent : <<s.by, s.key>> \notin early[s.e]

(* A user who is not an admin is answered with the result of one of its    *)
(* own intents with the key of the one asked for, never with that of       *)
(* another tenant.  Two intents of one user can have one key: creations    *)
(* that run at the same time do not see each other.                        *)
ResultIsOwn ==
  [][\A e \in Executions :
       ereply'[e] = "result" /\ ereply[e] # "result" /\ ecall[e].user \notin Admins =>
         LET x == mem[outcome'[e].id]
         IN  x # None /\ x.user = ecall[e].user /\ x.key = view[e].key]_allVars

(* The log names an attempt under its intent only, and only one that the   *)
(* port received: answers from the cache are not attempts.                 *)
LogIsOfSends ==
  \A i \in Ids :
    attempts[i] # None =>
      \A e \in attempts[i] : \E s \in sent : s.e = e /\ s.id = i

(* A reconciliation record was made by the owner or an admin, from a state *)
(* the intent has had: a terminal state in it is not ahead of the intent.  *)
RecordIsOfIntent ==
  \A i \in Ids :
    records[i] # None =>
      /\ mem[i] # None
      /\ records[i].by \in Admins \cup {mem[i].user}
      /\ records[i].internal \in Terminal => mem[i].state \in Terminal

-----------------------------------------------------------------------------
(***************************************************************************)
(* What the sources say and the code does not do.                          *)
(***************************************************************************)

(* DEPLOYMENT_READINESS.md: idempotency/replay protection; the port        *)
(* receives one command for a user and key in a process life.              *)
SentOnce == \A s, t \in sent : s.by = t.by /\ s.key = t.key => s = t

(* services/execution_gateway.py: a request is processed for its intent.   *)
EveryResultIsOfIntent ==
  \A e \in Executions : ereply[e] = "result" => outcome[e].id = ecall[e].id
=============================================================================
