--------------------------- MODULE TradingWorkflow ---------------------------
(***************************************************************************)
(* The selection of a ready provider and the trading workflow that builds  *)
(* on it: src/platform/services/provider_selection.py, trading_workflow.py,*)
(* market_overview.py and lab_artifacts.py with the registry, the clock    *)
(* and the order intents they work on.                                     *)
(*                                                                         *)
(* A run asks providers, the lab and the intent service one after the      *)
(* other.  Every answer is of the moment it is given: between two steps of *)
(* a run time passes, providers are registered, other runs and canonical   *)
(* creations store intents, and a provider may say something else.         *)
(***************************************************************************)
EXTENDS TradingDecisions

CONSTANTS
  Runs,
  Users,
  Permitted,      \* the users the security boundary lets create signals
  Offered,        \* by run, the calls that can be made, a subset of Call
  Registrations,  \* the registrations that can be tried, a subset of Registration
  Descriptions,   \* what a provider can say of itself
  CandleAnswers, QuoteAnswers, LabAnswers,   \* what the fetches can answer
  InitialEntries, \* the providers that are registered when the program starts
  Others,         \* the intents that others store or an earlier process stored
  Join(_, _),     \* the text a user and a key are joined to
  DefaultKey(_),  \* the text of the symbol, which all runs share, and a time
  MaxClock        \* bound: the clock stops there

Keys == STRING

(* A run is given a result, or a strategy that was validated on a backtest,*)
(* or nothing.                                                             *)
ValidatedStrategy ==
  [backtest : Backtest \cup {None}, action : Actions, setup : Setup \cup {None}, at : Nat]
Strategy == {None} \cup Result \cup ValidatedStrategy

(* "select" only selects a provider; "workflow" selects, decides and       *)
(* stages.  selecting, assessing and staging: the workflow has that service*)
Call ==
  [kind : {"select", "workflow"}, ask : Question, preferred : Ids \cup {None},
   selecting : BOOLEAN, assessing : BOOLEAN, staging : BOOLEAN, strategy : Strategy,
   candles : Ids \cup {None}, quote : Ids \cup {None},
   at : Nat \cup {None}, least : Nat \cup {None}, required : BOOLEAN,
   user : Users \cup {None}, key : Keys \cup {None}]

Registration ==
  [key : Key, described : Description \cup {Raised}, metadata : Description \cup {None}]

Calls == UNION {Offered[r] : r \in Runs}

Intent == [user : Users, key : Keys, setup : Setup \cup {None}]

ASSUME OffersAssumption ==
  /\ Calls \subseteq Call /\ Others \subseteq Intent /\ None \notin Intent
  /\ Registrations \subseteq Registration
  /\ Descriptions \subseteq Description /\ CandleAnswers \subseteq Candles
  /\ QuoteAnswers \subseteq Quote /\ LabAnswers \subseteq Setup
  /\ InitialEntries \in Entries /\ MaxClock \in Nat
  /\ None \notin {"SELECTED", "NOT_AVAILABLE", "NOT_READY", "DENIED", "EXECUTED"}

VARIABLES
  entries,        \* the registry, of Entries: what was kept of every provider
  clock,
  run,            \* the local variables of every run
  intents,        \* the intents that can be found, by user and key joined
  staged,         \* the intents that runs have stored
  granted         \* the setups that were authorized, each with user and key

vars == <<entries, clock, run, intents, staged, granted>>

(* seen is what the selected provider had answered when it was assessed,   *)
(* until the run goes on, and known the intent its key had when the run    *)
(* began: the program keeps neither.                                       *)
Idle ==
  [pc |-> "idle", call |-> None, rest |-> {}, selection |-> None, chosen |-> None,
   seen |-> None, known |-> None, quote |-> None, readiness |-> None, status |-> None, key |-> None,
   intent |-> None]

(* The strategy result a call comes with, or is turned into.               *)
ResultIn(c) ==
  CASE c.strategy = None -> NoResult(FirstOf(c.at, 0))
    [] c.strategy # None /\ c.strategy \in ValidatedStrategy ->
         ResultOf(c.strategy.backtest, c.strategy.action, c.strategy.setup, c.strategy.at)
    [] OTHER -> c.strategy

(* A time that was given as a text is no number: the run raises.           *)
TimeOf(c) == FirstOf(c.at, ResultIn(c).at)

(* A time with a fraction is cut to the whole second.                      *)
IntentKey(c, at) == IF c.key # None THEN c.key ELSE DefaultKey(at)
AllKeys ==
  ({c.key : c \in Calls} \ {None}) \cup {DefaultKey(t) : t \in {TimeOf(c) : c \in Calls} \ {Iso}}
    \cup {x.key : x \in Others}

ASSUME KeysAssumption == AllKeys \subseteq Keys

IntentOf(r, key) ==
  [user |-> run[r].call.user, key |-> key, setup |-> SignalOf(ResultIn(run[r].call)).setup]

IndexOf(x) == Join(x.user, x.key)
Indexes == {Join(u, k) : u \in Users, k \in AllKeys}

(* The index a call's intent is looked up by, or None if it has none.      *)
CallIndex(c) ==
  IF c.kind = "select" \/ c.user = None \/ TimeOf(c) = Iso THEN None
  ELSE Join(c.user, IntentKey(c, TimeOf(c)))
Found(c) == IF CallIndex(c) = None THEN None ELSE intents[CallIndex(c)]

(* The repository is shared, and its file older than the process.          *)
Init ==
  /\ entries = InitialEntries
  /\ clock = 0
  /\ run = [r \in Runs |-> Idle]
  /\ intents \in [Indexes -> Others \cup {None}]
  /\ \A p \in Indexes : intents[p] # None => IndexOf(intents[p]) = p
  /\ staged = {}
  /\ granted = {}

At(r, pc) == run[r].pc = pc
Set(r, f) ==
  run' = [run EXCEPT ![r] = [x \in DOMAIN @ |-> IF x \in DOMAIN f THEN f[x] ELSE @[x]]]

----------------------------------------------------------------------------
(* The world around the runs. *)

Tick ==
  /\ clock < MaxClock
  /\ clock' = clock + 1
  /\ UNCHANGED <<entries, run, intents, staged, granted>>

(* A second registration of a key is refused and changes nothing.          *)
Register ==
  \E g \in Registrations :
    /\ CanRegister(entries, g.key, g.described, g.metadata)
    /\ entries' = [entries EXCEPT ![g.key] = Snapshot(g.described, g.metadata)]
    /\ UNCHANGED <<clock, run, intents, staged, granted>>

(* A canonical creation stores an intent nobody authorized here, a plain   *)
(* one an intent of its caller, and a transition one that is stored, which *)
(* is then the one its key finds.                                          *)
StoreOther ==
  \E x \in Others \cup staged :
    /\ intents' = [intents EXCEPT ![IndexOf(x)] = x]
    /\ UNCHANGED <<entries, clock, run, staged, granted>>

----------------------------------------------------------------------------
(* The selection. *)

Start(r) ==
  /\ At(r, "idle")
  /\ \E c \in Offered[r] :
       Set(r, [call |-> c, known |-> Found(c),
               pc |-> IF ~c.selecting THEN "selected"
                      ELSE IF c.preferred # None THEN "preferred" ELSE "list"])
  /\ UNCHANGED <<entries, clock, intents, staged, granted>>

Chosen(r, id, seen) ==
  [selection |-> "SELECTED", chosen |-> id, seen |-> seen,
   pc |-> IF run[r].call.kind = "select" THEN "done" ELSE "selected"]

(* One assessment: what the provider says, and what it and its pair answer.*)
Answered(r, id, notReady) ==
  LET ask == run[r].call.ask
      entry == entries[[category |-> ask.category, id |-> id]]
      feed == IF ask.category = "market_data" THEN id ELSE ask.paired
  IN  \E described \in Descriptions \cup {Raised},
         candles \in IF feed = None THEN {Failed}
                    ELSE {FetchCandles(entries, feed, c) : c \in CandleAnswers \cup {Failed}},
         quote \in IF ask.category # "quote" THEN {Failed}
                  ELSE {FetchQuote(entries, id, q) : q \in QuoteAnswers \cup {Failed}} :
        Set(r, IF Assess(ask, entry, described, candles, quote, clock) = "ready"
                 THEN Chosen(r, id, [entry |-> entry, described |-> described,
                                     candles |-> candles, quote |-> quote, now |-> clock])
                 ELSE notReady)

AssessPreferred(r) ==
  /\ At(r, "preferred")
  /\ Answered(r, run[r].call.preferred, [pc |-> "list"])
  /\ UNCHANGED <<entries, clock, intents, staged, granted>>

ListOthers(r) ==
  /\ At(r, "list")
  /\ Set(r, [pc |-> "others",
             rest |-> Listed(entries, run[r].call.ask.category) \ {run[r].call.preferred}])
  /\ UNCHANGED <<entries, clock, intents, staged, granted>>

AssessNext(r) ==
  /\ At(r, "others")
  /\ \E id \in run[r].rest :
       /\ \A other \in run[r].rest : ~Before(other, id)
       /\ Answered(r, id, [rest |-> run[r].rest \ {id}])
  /\ UNCHANGED <<entries, clock, intents, staged, granted>>

NoneReady(r) ==
  /\ At(r, "others")
  /\ run[r].rest = {}
  /\ Set(r, [selection |-> "NOT_AVAILABLE",
             pc |-> IF run[r].call.kind = "select" THEN "done" ELSE "selected"])
  /\ UNCHANGED <<entries, clock, intents, staged, granted>>

----------------------------------------------------------------------------
(* The workflow after the selection. *)

Refused(r) == run[r].call.required /\ run[r].selection # "SELECTED"

Refuse(r) ==
  /\ At(r, "selected")
  /\ Refused(r)
  /\ Set(r, [status |-> "NOT_READY", seen |-> None, pc |-> "done"])
  /\ UNCHANGED <<entries, clock, intents, staged, granted>>

(* The providers of candles and of the quote are those the caller names:   *)
(* nothing ties them to the one that was selected.  What they raise, the   *)
(* run raises.                                                             *)
Overview(r) ==
  LET c == run[r].call
  IN  /\ At(r, "selected")
      /\ ~Refused(r)
      /\ c.assessing /\ c.candles # None
      /\ \E candles \in CandleAnswers \cup {Failed}, q \in QuoteAnswers \cup {Failed} :
           LET quote == IF c.quote = None THEN None ELSE FetchQuote(entries, c.quote, q)
           IN  Set(r, IF Failed \in {FetchCandles(entries, c.candles, candles), quote}
                        THEN [pc |-> "failed", seen |-> None]
                        ELSE [pc |-> "quoted", seen |-> None, quote |-> quote])
      /\ UNCHANGED <<entries, clock, intents, staged, granted>>

Assessed(setup, quote) ==
  IF None \in {setup, quote} THEN None ELSE ReadinessOf(setup, quote)

(* The setup assessed is the lab's, not the strategy's.                    *)
ReadLab(r) ==
  /\ At(r, "quoted")
  /\ \E s \in LabAnswers \cup {None, Failed} :
       Set(r, IF s = Failed THEN [pc |-> "failed"]
              ELSE [pc |-> "assessed", readiness |-> Assessed(s, run[r].quote)])
  /\ UNCHANGED <<entries, clock, intents, staged, granted>>

SkipReadiness(r) ==
  /\ At(r, "selected")
  /\ ~Refused(r)
  /\ ~run[r].call.assessing \/ run[r].call.candles = None
  /\ Set(r, [pc |-> "assessed", seen |-> None])
  /\ UNCHANGED <<entries, clock, intents, staged, granted>>

Grants(r) ==
  LET c == run[r].call
  IN  Authorized(SignalOf(ResultIn(c)), run[r].selection, run[r].readiness, c.least, c.required)

Decide(r) ==
  LET c == run[r].call
      stages == Grants(r) /\ c.staging /\ c.user # None
  IN  /\ At(r, "assessed")
      /\ IF TimeOf(c) = Iso
           THEN Set(r, [pc |-> "failed"]) /\ UNCHANGED granted
           ELSE /\ Set(r, [status |-> IF Grants(r) THEN "EXECUTED" ELSE "DENIED",
                           key |-> IntentKey(c, TimeOf(c)),
                           pc |-> IF stages THEN "look" ELSE "done"])
                /\ granted' = granted \cup
                     (IF stages THEN {IntentOf(r, IntentKey(c, TimeOf(c)))} ELSE {})
      /\ UNCHANGED <<entries, clock, intents, staged>>

(* Mutant: an intent of another setup is not the one asked for.            *)
LookForOwnSetup(r) ==
  LET c == run[r].call
      found == intents[Join(c.user, run[r].key)]
  IN  /\ At(r, "look")
      /\ Set(r, IF c.user \notin Permitted THEN [pc |-> "done"]
                ELSE IF found # None /\ found.setup = IntentOf(r, run[r].key).setup
                       THEN [pc |-> "done", intent |-> found]
                ELSE [pc |-> "stage"])
      /\ UNCHANGED <<entries, clock, intents, staged, granted>>

(* Mutant: the security boundary is not asked.                             *)
LookForAnyone(r) ==
  LET found == intents[Join(run[r].call.user, run[r].key)]
  IN  /\ At(r, "look")
      /\ Set(r, IF found # None THEN [pc |-> "done", intent |-> found] ELSE [pc |-> "stage"])
      /\ UNCHANGED <<entries, clock, intents, staged, granted>>

(* The intent the joined user and key find is the answer, whatever it was  *)
(* stored for, and by whom.  A user who may not create signals gets none,  *)
(* and the run stays EXECUTED.                                             *)
Look(r) ==
  LET c == run[r].call
      found == intents[Join(c.user, run[r].key)]
  IN  /\ At(r, "look")
      /\ Set(r, IF c.user \notin Permitted THEN [pc |-> "done"]
                ELSE IF found # None THEN [pc |-> "done", intent |-> found]
                ELSE [pc |-> "stage"])
      /\ UNCHANGED <<entries, clock, intents, staged, granted>>

(* The intent can be found before it is written to the file: when that     *)
(* fails, the run raises and the intent stays.                             *)
Stage(r) ==
  LET x == IntentOf(r, run[r].key)
  IN  /\ At(r, "stage")
      /\ intents' = [intents EXCEPT ![IndexOf(x)] = x]
      /\ staged' = staged \cup {x}
      /\ \E f \in {[pc |-> "done", intent |-> x], [pc |-> "failed"]} : Set(r, f)
      /\ UNCHANGED <<entries, clock, granted>>

Return(r) ==
  /\ run[r].pc \in {"done", "failed"}
  /\ run' = [run EXCEPT ![r] = Idle]
  /\ UNCHANGED <<entries, clock, intents, staged, granted>>

Step(r) ==
  \/ Start(r) \/ AssessPreferred(r) \/ ListOthers(r) \/ AssessNext(r) \/ NoneReady(r)
  \/ Refuse(r) \/ Overview(r) \/ ReadLab(r) \/ SkipReadiness(r) \/ Decide(r)
  \/ Look(r) \/ Stage(r) \/ Return(r)

Next == Tick \/ Register \/ StoreOther \/ \E r \in Runs : Step(r)

Spec == Init /\ [][Next]_vars

----------------------------------------------------------------------------
(* Properties. *)

(* What the selected provider had answered when it was assessed: it was    *)
(* registered, it described itself without an error, nothing it said of    *)
(* its status was unhealthy, and of candles that were all numbers not      *)
(* after the clock one was young enough.                                   *)
WasReady(c, seen) ==
  /\ seen.entry # None /\ seen.described # Raised
  /\ seen.described.status # "unhealthy" /\ seen.described.capable # FALSE
  /\ c.ask.category = "market_data" /\ c.ask.symbol /\ c.ask.monitored =>
       /\ seen.candles # Failed
       /\ LET reference == IF c.ask.reference = None THEN seen.now ELSE c.ask.reference
              stamps == {seen.candles[i] : i \in DOMAIN seen.candles}
          IN  stamps # {} /\ (\A s \in stamps : s.form = "number" /\ s.at <= reference)
                => \E s \in stamps : reference - s.at <= MaxAge
  /\ c.ask.category = "quote" /\ c.ask.symbol => seen.quote # Failed /\ ~seen.quote.unavailable

(* What a run called EXECUTED rests on: the strategy's own verdict, the    *)
(* backtest behind it, and the price between the stop and every target.    *)
RestsOn(r) ==
  LET c == run[r].call
      result == ResultIn(c)
      ready == run[r].readiness
      between(a, x, b) == (a < x /\ x < b) \/ (b < x /\ x < a)
  IN  /\ result.approved /\ result.risk \notin {"high", "critical"}
      /\ result.setup # None /\ result.setup.direction = result.action
      /\ c.strategy \in ValidatedStrategy =>
           /\ c.strategy.backtest.trades >= 5 /\ 4 * c.strategy.backtest.drawdown <= MaxRate
           /\ c.strategy.backtest.risk \in {"low", "medium"}
      /\ c.required => run[r].chosen # None
      /\ ready # None =>
           /\ \A t \in {ready.setup.tp1, ready.setup.tp2, ready.setup.tp3} :
                between(ready.setup.stop, ready.price, t)
           /\ c.least # None => ready.reward >= c.least * ready.risk

(* A provider is selected only on answers that spoke for it, however the   *)
(* registry and the clock moved while the others were asked; a run is      *)
(* EXECUTED only on such a selection, on a sound strategy and on sane      *)
(* levels; and the intent it answers with is for a user who may create     *)
(* signals, has the user and key of the run or others that join to the     *)
(* same text, and is of a setup that a run was authorized for or one that  *)
(* others stored.  (ProviderSelectionService.select_provider,              *)
(* TradingWorkflowService.run_workflow)                                    *)
ExecutedWasChecked ==
  \A r \in Runs :
    /\ run[r].selection = "SELECTED" /\ (At(r, "selected") \/ run[r].call.kind = "select")
         => WasReady(run[r].call, run[r].seen)
    /\ run[r].status = "EXECUTED" => RestsOn(r) /\ run[r].selection # "NOT_AVAILABLE"
    /\ run[r].intent # None =>
         /\ run[r].status = "EXECUTED" /\ run[r].call.user \in Permitted
         /\ run[r].intent \in granted \cup Others
         /\ IndexOf(run[r].intent) = Join(run[r].call.user, run[r].key)

(* A workflow whose key an intent was kept under when it began stages no   *)
(* second one, whatever it selects and decides in between, and whatever    *)
(* other runs and creations store under that key meanwhile; if it is       *)
(* EXECUTED for a user who may create signals it answers with an intent.   *)
(* (TradingWorkflowService.run_workflow,                                   *)
(* OrderIntentService.create_order_intent)                                 *)
RepeatsStageNothing ==
  \A r \in Runs :
    run[r].known # None =>
      /\ ~At(r, "stage")
      /\ At(r, "done") /\ run[r].status = "EXECUTED" /\ run[r].call.staging
           /\ run[r].call.user \in Permitted => run[r].intent # None

(* What a caller expects of its key, and what the code does not give: the  *)
(* intent a workflow answers with is its own user's and was authorized.    *)
AnswersItsOwn ==
  \A r \in Runs :
    run[r].intent # None =>
      run[r].intent.user = run[r].call.user /\ run[r].intent \in granted
=============================================================================
