------------------------ MODULE TradingWorkflowProofs ------------------------
(***************************************************************************)
(* Proofs about TradingWorkflow and the decisions it rests on, for every   *)
(* value of their constants.                                               *)
(***************************************************************************)
EXTENDS TradingWorkflow, WellFoundedInduction, TLAPS

-----------------------------------------------------------------------------
(***************************************************************************)
(* What a verdict of "ready" says of a provider.                           *)
(***************************************************************************)
LEMMA LeastNat ==
  ASSUME NEW T \in SUBSET Nat, T # {}
  PROVE  \E x \in T : \A y \in T : x <= y
<1> DEFINE R == OpToRel(<, Nat)
<1>1. R = {ss \in Nat \X Nat : ss[1] < ss[2]}
  BY Zenon DEF OpToRel
<1>2. IsWellFoundedOn(R, Nat)
  BY NatLessThanWellFounded, Zenon
<1> HIDE DEF R
<1>3. PICK x \in T : \A y \in T : ~(<<y, x>> \in R)
  BY <1>2, WFMin
<1>4. \A y \in T : ~(y < x)
  BY <1>1, <1>3
<1> QED
  BY <1>4

(* Candles whose times are all numbers have a latest one.                  *)
LEMMA LatestExists ==
  ASSUME NEW candles \in Candles, NEW reference \in Nat, ToSet(candles) # {},
         \A s \in ToSet(candles) : s.form = "number" /\ s.at <= reference
  PROVE  \E s \in Latest(candles) : s \in ToSet(candles) /\ s.at \in Nat
<1> DEFINE stamps == ToSet(candles)
           T == {reference - s.at : s \in stamps}
<1>1. \A s \in stamps : s \in Stamp /\ s.at \in Nat /\ s.form = "number" /\ s.at <= reference
  <2>1. stamps = {candles[i] : i \in DOMAIN candles} /\ candles \in Seq(Stamp)
    BY DEF ToSet, Candles
  <2>2. stamps \subseteq Stamp
    BY <2>1
  <2> QED
    BY <2>2 DEF Stamp
<1>2. candles[1] \in stamps
  BY DEF ToSet, Candles
<1>3. T \in SUBSET Nat /\ T # {}
  BY <1>1
<1>4. PICK x \in T : \A y \in T : x <= y
  BY <1>3, LeastNat
<1>5. PICK s \in stamps : x = reference - s.at
  BY <1>4
<1> HIDE DEF stamps
<1>6. ASSUME NEW d \in stamps
      PROVE  ~(d.at > s.at)
  <2>1. s.at \in Nat /\ d.at \in Nat /\ x = reference - s.at
    BY <1>1, <1>5
  <2>2. x <= reference - d.at
    BY <1>4
  <2> QED
    BY <2>1, <2>2
<1>7. s \in Latest(candles)
  BY <1>1, <1>2, <1>5, <1>6 DEF Latest, IsNewer, stamps
<1> QED
  BY <1>1, <1>5, <1>7 DEF stamps

LEMMA FreshIsYoung ==
  ASSUME NEW candles \in Candles, NEW reference \in Nat,
         OfFreshness(Monitor(candles, None, reference)) = "ready",
         ToSet(candles) # {},
         \A s \in ToSet(candles) : s.form = "number" /\ s.at <= reference
  PROVE  \E s \in ToSet(candles) : reference - s.at <= MaxAge
<1>1. PICK s \in Latest(candles) : s \in ToSet(candles) /\ s.at \in Nat
  BY LatestExists
<1>2. Age(s, reference) = reference - s.at /\ reference - s.at \in Nat
  BY <1>1 DEF Age
<1>3. Age(s, reference) \in Ages(candles, None, reference)
  BY <1>1, <1>2, ProvidersAssumption DEF Ages
<1>4. Freshness(candles, None, reference) =
        IF \A a \in Ages(candles, None, reference) : a <= MaxAge THEN "fresh" ELSE "stale"
  BY <1>3 DEF Freshness
<1>5. \A a \in Ages(candles, None, reference) : a <= MaxAge
  BY <1>4 DEF OfFreshness, Monitor
<1> QED
  BY <1>1, <1>2, <1>3, <1>5

LEMMA ReadyWas ==
  ASSUME NEW c, c.ask \in Question, NEW entry, NEW described \in Description \cup {Raised},
         NEW candles \in Candles \cup {Failed}, NEW quote \in Quote \cup {Failed},
         NEW now \in Nat,
         Assess(c.ask, entry, described, candles, quote, now) = "ready"
  PROVE  WasReady(c, [entry |-> entry, described |-> described, candles |-> candles,
                      quote |-> quote, now |-> now])
<1> DEFINE seen == [entry |-> entry, described |-> described, candles |-> candles,
                    quote |-> quote, now |-> now]
           reference == FirstOf(c.ask.reference, now)
<1>1. /\ Validate(entry, described) \notin {"unavailable", "capability", "unhealthy"}
      /\ DataVerdict(c.ask, candles, quote, now) = "ready"
  BY DEF Assess
<1>2. reference \in Nat
  BY DEF Question, FirstOf
<1>3. entry # None /\ described # Raised
  BY <1>1 DEF Validate
<1>4. described.status # "unhealthy" /\ described.capable # FALSE
  <2>1. Capable(described, entry) /\ HealthOf(described, entry) # "unhealthy"
    BY <1>1, <1>3 DEF Validate
  <2>2. described.capable # FALSE
    BY <2>1, ProvidersAssumption DEF Capable, FirstOf
  <2>3. described.status # "unhealthy"
    <3>1. CASE described.status = None
      BY <3>1, ProvidersAssumption DEF Health
    <3>2. CASE described.status # None
      BY <2>1, <3>2 DEF HealthOf, Reported, FirstOf
    <3> QED
      BY <3>1, <3>2
  <2> QED
    BY <2>2, <2>3
<1>5. ASSUME c.ask.category = "market_data", c.ask.symbol, c.ask.monitored
      PROVE  /\ candles # Failed
             /\ ToSet(candles) # {} /\ (\A s \in ToSet(candles) : s.form = "number" /\ s.at <= reference)
                  => \E s \in ToSet(candles) : reference - s.at <= MaxAge
  <2>1. OfFreshness(Monitor(candles, None, reference)) = "ready"
    BY <1>1, <1>5 DEF DataVerdict
  <2>2. candles # Failed
    BY <2>1 DEF OfFreshness, Monitor
  <2> QED
    BY <1>2, <2>1, <2>2, FreshIsYoung
<1>6. ASSUME c.ask.category = "quote", c.ask.symbol
      PROVE  quote # Failed /\ ~quote.unavailable
  <2>1. CASE c.ask.monitored /\ c.ask.paired # None
    <3>1. OfFreshness(Monitor(candles, quote, reference)) = "ready"
      BY <1>1, <1>6, <2>1 DEF DataVerdict
    <3>2. quote # Failed
      BY <3>1 DEF OfFreshness, Monitor
    <3>3. quote # None
      BY <3>2, ProvidersAssumption
    <3> QED
      BY <3>1, <3>2, <3>3 DEF OfFreshness, Monitor, Freshness
  <2>2. CASE ~(c.ask.monitored /\ c.ask.paired # None)
    <3>1. OfQuote(quote, c.ask.reference) = "ready"
      BY <1>1, <1>6, <2>2 DEF DataVerdict
    <3> QED
      BY <3>1 DEF OfQuote
  <2> QED
    BY <2>1, <2>2
<1> QED
  BY <1>3, <1>4, <1>5, <1>6 DEF WasReady, ToSet, FirstOf

-----------------------------------------------------------------------------
(***************************************************************************)
(* What an authorization rests on.                                         *)
(***************************************************************************)
LEMMA SetupPrices ==
  ASSUME NEW s \in Setup
  PROVE  /\ s.direction \in Directions
         /\ s.entry \in Nat /\ s.stop \in Nat /\ s.tp1 \in Nat /\ s.tp2 \in Nat /\ s.tp3 \in Nat
BY DecisionsAssumption DEF Setup

(* A readiness is of a setup and a quote.                                  *)
Readiness(ready) ==
  \E s \in Setup, q \in Quote : ready = ReadinessOf(s, q)

LEMMA SaneLevels ==
  ASSUME NEW ready, Readiness(ready), ready.sane
  PROVE  \A t \in {ready.setup.tp1, ready.setup.tp2, ready.setup.tp3} :
           \/ ready.setup.stop < ready.price /\ ready.price < t
           \/ t < ready.price /\ ready.price < ready.setup.stop
<1>1. PICK s \in Setup, q \in Quote : ready = ReadinessOf(s, q)
  BY DEF Readiness
<1>2. ready.setup = s /\ ready.price = PriceFor(q, s.direction)
      /\ ready.price # None /\ LevelsSane(s, ready.price)
  BY <1>1 DEF ReadinessOf
<1>3. ready.price \in Nat
  BY <1>2 DEF PriceFor, Quote, Price
<1> QED
  BY <1>2, <1>3, SetupPrices DEF LevelsSane

LEMMA RewardCompared ==
  ASSUME NEW ready, Readiness(ready), NEW least \in Nat, ~(ready.reward < least * ready.risk)
  PROVE  ready.reward >= least * ready.risk
<1>1. PICK s \in Setup, q \in Quote : ready = ReadinessOf(s, q)
  BY DEF Readiness
<1>2. ready.reward = Reward(s) /\ ready.risk = Risk(s)
  BY <1>1 DEF ReadinessOf
<1>3. Reward(s) \in Int /\ Risk(s) \in Int
  BY SetupPrices DEF Reward, Risk, Distance
<1>4. least * ready.risk \in Int
  BY <1>2, <1>3
<1> QED
  BY <1>2, <1>3, <1>4

LEMMA Validated ==
  ASSUME NEW b \in Backtest \cup {None}, ValidationOf(b) = "VALIDATED"
  PROVE  /\ b # None /\ b.trades >= 5 /\ 4 * b.drawdown <= MaxRate
         /\ b.risk \in {"low", "medium", None}
<1>1. b # None
  BY DEF ValidationOf
<1>2. b.trades \in Nat /\ b.drawdown \in 0..MaxRate
  BY <1>1 DEF Backtest
<1>3. ~(b.trades < 5) /\ ~(4 * b.drawdown > MaxRate) /\ b.risk \in {"low", "medium", None}
  BY <1>1 DEF ValidationOf, MinTrades, AllowedRisks
<1> QED
  BY <1>1, <1>2, <1>3, DecisionsAssumption

LEMMA TradableResult ==
  ASSUME NEW c \in Call, SignalOf(ResultIn(c)).tradable
  PROVE  /\ ResultIn(c).approved /\ ResultIn(c).risk \notin {"high", "critical"}
         /\ ResultIn(c).setup # None /\ ResultIn(c).setup.direction = ResultIn(c).action
         /\ c.strategy \in ValidatedStrategy =>
              /\ c.strategy.backtest.trades >= 5 /\ 4 * c.strategy.backtest.drawdown <= MaxRate
              /\ c.strategy.backtest.risk \in {"low", "medium"}
<1>1. ~Blocked(ResultIn(c))
  BY DEF SignalOf
<1>2. ASSUME c.strategy \in ValidatedStrategy, c.strategy # None
      PROVE  /\ c.strategy.backtest.trades >= 5 /\ 4 * c.strategy.backtest.drawdown <= MaxRate
             /\ c.strategy.backtest.risk \in {"low", "medium"}
  <2> DEFINE b == c.strategy.backtest
  <2>1. b \in Backtest \cup {None}
    BY <1>2 DEF ValidatedStrategy
  <2>2. /\ ResultIn(c).approved = (ValidationOf(b) = "VALIDATED")
        /\ ResultIn(c).risk = IF b = None \/ b.risk = None THEN "critical" ELSE b.risk
    BY <1>2 DEF ResultIn, ResultOf
  <2> HIDE DEF b
  <2>3. ValidationOf(b) = "VALIDATED" /\ b.risk # None
    BY <1>1, <2>2 DEF Blocked, Unstable
  <2>4. b.trades >= 5 /\ 4 * b.drawdown <= MaxRate /\ b.risk \in {"low", "medium"}
    BY <2>1, <2>3, Validated
  <2> QED
    BY <2>4 DEF b
<1>3. c.strategy # None
  BY <1>1 DEF ResultIn, NoResult, Blocked
<1> QED
  BY <1>1, <1>2, <1>3 DEF Blocked, Unstable

(* What an authorization that gives a signal its EXECUTED has seen.        *)
LEMMA GrantsRest ==
  ASSUME NEW r \in Runs, Grants(r), run[r].call \in Calls,
         run[r].readiness = None \/ Readiness(run[r].readiness),
         run[r].selection = "SELECTED" => run[r].chosen # None
  PROVE  RestsOn(r) /\ run[r].selection # "NOT_AVAILABLE"
<1> DEFINE c == run[r].call
           ready == run[r].readiness
<1>1. c \in Call
  BY OffersAssumption
<1>2. /\ SignalOf(ResultIn(c)).tradable
      /\ ~Unselected(run[r].selection, c.required)
      /\ ~NotReady(ready, c.least)
  BY DEF Grants, Authorized
<1>3. run[r].selection # "NOT_AVAILABLE" /\ (c.required => run[r].chosen # None)
  BY <1>1, <1>2, OffersAssumption DEF Unselected, Call
<1>4. ASSUME ready # None
      PROVE  /\ \A t \in {ready.setup.tp1, ready.setup.tp2, ready.setup.tp3} :
                  \/ ready.setup.stop < ready.price /\ ready.price < t
                  \/ t < ready.price /\ ready.price < ready.setup.stop
             /\ c.least # None => ready.reward >= c.least * ready.risk
  <2>1. Readiness(ready) /\ ready.sane
        /\ ~(c.least # None /\ ready.reward < c.least * ready.risk)
    BY <1>2, <1>4 DEF NotReady
  <2>2. c.least \in Nat \cup {None}
    BY <1>1 DEF Call
  <2> QED
    BY <2>1, <2>2, SaneLevels, RewardCompared
<1> HIDE DEF ready
<1>5. /\ ResultIn(c).approved /\ ResultIn(c).risk \notin {"high", "critical"}
      /\ ResultIn(c).setup # None /\ ResultIn(c).setup.direction = ResultIn(c).action
      /\ c.strategy \in ValidatedStrategy =>
           /\ c.strategy.backtest.trades >= 5 /\ 4 * c.strategy.backtest.drawdown <= MaxRate
           /\ c.strategy.backtest.risk \in {"low", "medium"}
  BY <1>1, <1>2, TradableResult
<1> QED
  BY <1>3, <1>4, <1>5, Zenon DEF RestsOn, ready

-----------------------------------------------------------------------------
(***************************************************************************)
(* The inductive invariant: what is true of the variables of one run, of   *)
(* the run in the midst of the others, and of the intents they share.      *)
(***************************************************************************)
Fields ==
  {"pc", "call", "rest", "selection", "chosen", "seen", "known", "quote", "readiness", "status",
   "key", "intent"}

Called(v) ==
  /\ v.pc = "idle" => v = Idle
  /\ v.pc # "idle" => v.call \in Calls
  /\ v.pc = "preferred" => v.call.preferred # None
  /\ v.rest \subseteq Ids

Selected(v) ==
  /\ v.selection \in {None, "SELECTED", "NOT_AVAILABLE"}
  /\ v.selection = "SELECTED" => v.chosen # None
  /\ v.selection = "SELECTED" /\ v.call.kind = "select" => v.pc = "done"
  /\ v.selection = "SELECTED" /\ (v.pc = "selected" \/ v.call.kind = "select")
       => WasReady(v.call, v.seen)

Read(v) ==
  /\ v.pc = "quoted" => v.quote \in Quote \cup {None}
  /\ v.readiness = None \/ Readiness(v.readiness)

(* A status is given once, and only to a run that may still stage.         *)
Decided(v) ==
  /\ v.status = "EXECUTED" => v.pc \in {"look", "stage", "done", "failed"}
  /\ v.pc \in {"look", "stage"} =>
       /\ v.status = "EXECUTED" /\ v.call.user \in Users
       /\ v.key \in AllKeys /\ v.key = IntentKey(v.call, TimeOf(v.call))
  /\ v.pc = "stage" => v.call.user \in Permitted
  /\ v.intent # None =>
       /\ v.status = "EXECUTED" /\ v.call.user \in Permitted
       /\ IndexOf(v.intent) = Join(v.call.user, v.key)

Private(v) ==
  DOMAIN v = Fields /\ Called(v) /\ Selected(v) /\ Read(v) /\ Decided(v)

(* What a run is still to stage was authorized, and what it answers with   *)
(* was, or others stored it.                                               *)
Earned(r) ==
  /\ run[r].status = "EXECUTED" => RestsOn(r) /\ run[r].selection # "NOT_AVAILABLE"
  /\ run[r].pc \in {"look", "stage"} => IntentOf(r, run[r].key) \in granted
  /\ run[r].intent # None => run[r].intent \in granted \cup Others

(* An intent that was there when a run began still is.                     *)
Repeated(r) ==
  run[r].known # None =>
    /\ CallIndex(run[r].call) \in Indexes
    /\ Found(run[r].call) # None
    /\ run[r].pc # "stage"
    /\ run[r].pc = "done" /\ run[r].status = "EXECUTED" /\ run[r].call.staging
         /\ run[r].call.user \in Permitted => run[r].intent # None

Kept ==
  /\ DOMAIN intents = Indexes
  /\ staged \subseteq granted /\ None \notin staged
  /\ \A p \in Indexes :
       intents[p] # None => intents[p] \in staged \cup Others /\ IndexOf(intents[p]) = p

(* No step takes an intent away, though it may put another in its place.   *)
Persists == \A p \in Indexes : intents[p] # None => intents'[p] # None

Safe ==
  /\ clock \in Nat
  /\ DOMAIN run = Runs
  /\ \A r \in Runs : Private(run[r]) /\ Earned(r) /\ Repeated(r)
  /\ Kept

-----------------------------------------------------------------------------
(* A step gives some fields new values and keeps the others.               *)
LEMMA SetFields ==
  ASSUME Safe, NEW r \in Runs, NEW f, DOMAIN f \subseteq Fields, Set(r, f)
  PROVE  /\ DOMAIN run' = Runs /\ \A o \in Runs : o # r => run'[o] = run[o]
         /\ DOMAIN run'[r] = Fields
         /\ \A x \in Fields : run'[r][x] = IF x \in DOMAIN f THEN f[x] ELSE run[r][x]
<1>1. DOMAIN run = Runs /\ DOMAIN run[r] = Fields
  BY DEF Safe, Private
<1>2. run' = [run EXCEPT ![r] = [x \in Fields |-> IF x \in DOMAIN f THEN f[x] ELSE run[r][x]]]
  BY <1>1 DEF Set
<1> QED
  BY <1>1, <1>2

(* What a run rests on is of its call, its selection and its readiness.    *)
LEMMA RestsSame ==
  ASSUME NEW r \in Runs, RestsOn(r), run'[r].call = run[r].call,
         run'[r].chosen = run[r].chosen, run'[r].readiness = run[r].readiness
  PROVE  RestsOn(r)'
BY DEF RestsOn

(* What a run knew it still finds.                                         *)
LEMMA RepeatedStays ==
  ASSUME NEW r \in Runs, Repeated(r), Persists,
         run'[r].call = run[r].call, run'[r].known = run[r].known,
         run'[r].known # None => run'[r].pc # "stage",
         run'[r].known # None /\ run'[r].pc = "done" /\ run'[r].status = "EXECUTED"
           /\ run'[r].call.staging /\ run'[r].call.user \in Permitted => run'[r].intent # None
  PROVE  Repeated(r)'
<1> DEFINE p == CallIndex(run[r].call)
<1>1. CallIndex(run[r].call)' = p
  BY DEF CallIndex, TimeOf, ResultIn, IntentKey
<1>2. Found(run[r].call)' = IF p = None THEN None ELSE intents'[p]
  BY <1>1 DEF Found
<1>3. Found(run[r].call) = IF p = None THEN None ELSE intents[p]
  BY DEF Found
<1> HIDE DEF p
<1>4. ASSUME run[r].known # None
      PROVE  p \in Indexes /\ Found(run[r].call)' # None
  BY <1>2, <1>3, <1>4 DEF Repeated, Persists, p
<1> QED
  BY <1>1, <1>4 DEF Repeated

LEMMA SameStays ==
  ASSUME NEW r \in Runs, run'[r] = run[r], Earned(r), Repeated(r),
         granted \subseteq granted', Persists
  PROVE  Earned(r)' /\ Repeated(r)'
<1>1. RestsOn(r) => RestsOn(r)'
  BY RestsSame
<1>2. IntentOf(r, run[r].key)' = IntentOf(r, run[r].key)
  BY DEF IntentOf
<1>3. Earned(r)'
  BY <1>1, <1>2 DEF Earned
<1>4. Repeated(r)'
  BY RepeatedStays DEF Repeated
<1> QED
  BY <1>3, <1>4

(* A step of one run leaves the others where they were.                    *)
LEMMA OthersKeep ==
  ASSUME Safe, NEW r \in Runs, DOMAIN run' = Runs,
         \A o \in Runs : o # r => run'[o] = run[o],
         granted \subseteq granted', clock' = clock, Persists,
         Private(run'[r]), Earned(r)', Repeated(r)', Kept'
  PROVE  Safe'
<1>1. ASSUME NEW o \in Runs, o # r
      PROVE  Private(run'[o]) /\ Earned(o)' /\ Repeated(o)'
  <2>1. run'[o] = run[o] /\ Private(run[o]) /\ Earned(o) /\ Repeated(o)
    BY <1>1 DEF Safe
  <2> QED
    BY <2>1, SameStays
<1> QED
  BY <1>1 DEF Safe

(* The intents of before stay kept while granted only grows.               *)
LEMMA KeptStays ==
  ASSUME Kept, UNCHANGED <<intents, staged>>, granted \subseteq granted'
  PROVE  Kept' /\ Persists
BY DEF Kept, Persists

(* Before its decision a run owes nothing.                                 *)
LEMMA Undecided ==
  ASSUME NEW r \in Runs, Private(run'[r]), run'[r].status # "EXECUTED"
  PROVE  Earned(r)'
BY DEF Private, Decided, Earned

LEMMA Free ==
  ASSUME Safe, NEW r \in Runs, NEW f, DOMAIN f \subseteq Fields, Set(r, f),
         UNCHANGED <<clock, intents, staged>>, granted \subseteq granted',
         Private(run'[r]), Earned(r)',
         run'[r].call = run[r].call, run'[r].known = run[r].known,
         run'[r].known # None => run'[r].pc # "stage",
         run'[r].known # None /\ run'[r].pc = "done" /\ run'[r].status = "EXECUTED"
           /\ run'[r].call.staging /\ run'[r].call.user \in Permitted => run'[r].intent # None
  PROVE  Safe'
<1>1. Kept' /\ Persists
  BY KeptStays DEF Safe
<1>2. Repeated(r)'
  BY <1>1, RepeatedStays DEF Safe
<1> QED
  BY <1>1, <1>2, SetFields, OthersKeep

-----------------------------------------------------------------------------
(***************************************************************************)
(* Every step keeps the invariant.                                         *)
(***************************************************************************)
LEMMA TickSafe ==
  ASSUME Safe, Tick
  PROVE  Safe'
<1>1. clock' \in Nat /\ run' = run /\ intents' = intents /\ granted' = granted /\ staged' = staged
  BY DEF Tick, Safe
<1>2. Kept' /\ Persists
  BY <1>1, KeptStays DEF Safe
<1>3. \A r \in Runs : Earned(r)' /\ Repeated(r)'
  BY <1>1, <1>2, SameStays DEF Safe
<1> QED
  BY <1>1, <1>2, <1>3 DEF Safe

LEMMA RegisterSafe ==
  ASSUME Safe, Register
  PROVE  Safe'
<1>1. clock' = clock /\ run' = run /\ intents' = intents /\ granted' = granted /\ staged' = staged
  BY DEF Register
<1>2. Kept' /\ Persists
  BY <1>1, KeptStays DEF Safe
<1>3. \A r \in Runs : Earned(r)' /\ Repeated(r)'
  BY <1>1, <1>2, SameStays DEF Safe
<1> QED
  BY <1>1, <1>2, <1>3 DEF Safe

LEMMA StoreOtherSafe ==
  ASSUME Safe, StoreOther
  PROVE  Safe'
<1>1. PICK x \in Others \cup staged : intents' = [intents EXCEPT ![IndexOf(x)] = x]
  BY DEF StoreOther
<1>2. UNCHANGED <<clock, run, staged, granted>>
  BY DEF StoreOther
<1>3. x # None
  BY OffersAssumption DEF Safe, Kept
<1>4. Kept' /\ Persists
  BY <1>1, <1>2, <1>3 DEF Safe, Kept, Persists, IndexOf
<1>5. \A r \in Runs : Earned(r)' /\ Repeated(r)'
  BY <1>2, <1>4, SameStays DEF Safe
<1> QED
  BY <1>2, <1>4, <1>5 DEF Safe

(* The index of a call is one of those that intents are kept by.           *)
LEMMA CallIndexed ==
  ASSUME NEW c \in Calls, CallIndex(c) # None
  PROVE  CallIndex(c) \in Indexes
<1>1. c.kind # "select" /\ c.user # None /\ TimeOf(c) # Iso
      /\ CallIndex(c) = Join(c.user, IntentKey(c, TimeOf(c)))
  BY DEF CallIndex
<1>2. c \in Call
  BY OffersAssumption
<1>3. c.user \in Users
  BY <1>1, <1>2 DEF Call
<1>4. IntentKey(c, TimeOf(c)) \in AllKeys
  BY <1>1 DEF IntentKey, AllKeys
<1> QED
  BY <1>1, <1>3, <1>4 DEF Indexes

LEMMA StartSafe ==
  ASSUME Safe, NEW r \in Runs, Start(r)
  PROVE  Safe'
<1>1. PICK c \in Offered[r] :
        Set(r, [call |-> c, known |-> Found(c),
                pc |-> IF ~c.selecting THEN "selected"
                       ELSE IF c.preferred # None THEN "preferred" ELSE "list"])
  BY DEF Start
<1> DEFINE pc == IF ~c.selecting THEN "selected"
                 ELSE IF c.preferred # None THEN "preferred" ELSE "list"
           found == Found(c)
           f == [call |-> c, known |-> found, pc |-> pc]
<1>2. Set(r, f) /\ DOMAIN f = {"call", "known", "pc"} /\ DOMAIN f \subseteq Fields
  BY <1>1 DEF Fields
<1>3. run[r] = Idle /\ c \in Calls
  BY DEF Start, At, Safe, Private, Called, Calls
<1>4. pc \in {"selected", "preferred", "list"} /\ (pc = "preferred" => c.preferred # None)
  OBVIOUS
<1> HIDE DEF pc, found
<1>5. /\ DOMAIN run'[r] = Fields
      /\ run'[r].call = c /\ run'[r].pc = pc /\ run'[r].known = found
      /\ run'[r].rest = {} /\ run'[r].selection = None /\ run'[r].chosen = None
      /\ run'[r].quote = None /\ run'[r].readiness = None /\ run'[r].status = None
      /\ run'[r].intent = None
  BY <1>2, <1>3, SetFields DEF Fields, Idle
<1>6. Private(run'[r])
  BY <1>3, <1>4, <1>5, OffersAssumption DEF Private, Called, Selected, Read, Decided
<1>7. Earned(r)'
  BY <1>5, <1>6, Undecided, OffersAssumption
<1>8. UNCHANGED <<clock, intents, staged, granted>>
  BY DEF Start
<1>9. Kept' /\ Persists
  BY <1>8, KeptStays DEF Safe
<1>10. Repeated(r)'
  <2>1. CallIndex(run[r].call)' = CallIndex(c)
    BY <1>5 DEF CallIndex, TimeOf, ResultIn, IntentKey
  <2>2. Found(run[r].call)' = found
    BY <1>5, <1>8, <2>1 DEF Found, found
  <2>3. found # None => CallIndex(c) \in Indexes
    BY <1>3, CallIndexed DEF Found, found
  <2> QED
    BY <1>4, <1>5, <2>1, <2>2, <2>3 DEF Repeated
<1> QED
  BY <1>2, <1>6, <1>7, <1>8, <1>9, <1>10, SetFields, OthersKeep

LEMMA ReturnSafe ==
  ASSUME Safe, NEW r \in Runs, Return(r)
  PROVE  Safe'
<1>1. /\ DOMAIN run' = Runs /\ \A o \in Runs : o # r => run'[o] = run[o]
      /\ run'[r] = Idle /\ UNCHANGED <<clock, intents, staged, granted>>
  BY DEF Return, Safe
<1>2. Private(run'[r])
  BY <1>1, OffersAssumption DEF Private, Called, Selected, Read, Decided, Idle, Fields
<1>3. Earned(r)'
  <2>1. run'[r].status # "EXECUTED"
    BY <1>1, OffersAssumption DEF Idle
  <2> QED
    BY <1>2, <2>1, Undecided
<1>4. Kept' /\ Persists
  BY <1>1, KeptStays DEF Safe
<1>5. Repeated(r)'
  BY <1>1 DEF Repeated, Idle
<1> QED
  BY <1>1, <1>2, <1>3, <1>4, <1>5, OthersKeep

(* The call of a run that is under way.                                    *)
LEMMA CallKnown ==
  ASSUME Safe, NEW r \in Runs, run[r].pc # "idle"
  PROVE  run[r].call \in Calls /\ run[r].call \in Call
BY OffersAssumption DEF Safe, Private, Called

(* A run that is undecided stays so, whatever it selects or reads.         *)
LEMMA AnsweredSafe ==
  ASSUME Safe, NEW r \in Runs, NEW id \in Ids, NEW notReady,
         run[r].pc \in {"preferred", "others"}, Answered(r, id, notReady),
         UNCHANGED <<clock, intents, staged, granted>>,
         \/ notReady = [pc |-> "list"]
         \/ run[r].pc = "others" /\ notReady = [rest |-> run[r].rest \ {id}]
  PROVE  Safe'
<1> DEFINE v == run[r]
           ask == v.call.ask
           entry == entries[[category |-> ask.category, id |-> id]]
<1>1. PICK described \in Descriptions \cup {Raised},
           candles \in Candles \cup {Failed}, quote \in Quote \cup {Failed} :
        Set(r, IF Assess(ask, entry, described, candles, quote, clock) = "ready"
                 THEN Chosen(r, id, [entry |-> entry, described |-> described,
                                     candles |-> candles, quote |-> quote, now |-> clock])
                 ELSE notReady)
  <2>1. ASSUME NEW e, NEW feed, NEW c \in CandleAnswers \cup {Failed}
        PROVE  FetchCandles(e, feed, c) \in Candles \cup {Failed}
    BY OffersAssumption DEF FetchCandles
  <2>2. ASSUME NEW e, NEW q \in QuoteAnswers \cup {Failed}
        PROVE  FetchQuote(e, id, q) \in Quote \cup {Failed}
    BY OffersAssumption DEF FetchQuote
  <2> DEFINE feed == IF ask.category = "market_data" THEN id ELSE ask.paired
             candleAnswers == IF feed = None THEN {Failed}
                              ELSE {FetchCandles(entries, feed, c) : c \in CandleAnswers \cup {Failed}}
             quoteAnswers == IF ask.category # "quote" THEN {Failed}
                             ELSE {FetchQuote(entries, id, q) : q \in QuoteAnswers \cup {Failed}}
  <2>3. candleAnswers \subseteq Candles \cup {Failed}
    BY <2>1
  <2>4. quoteAnswers \subseteq Quote \cup {Failed}
    BY <2>2
  <2>5. \E described \in Descriptions \cup {Raised}, candles \in candleAnswers, quote \in quoteAnswers :
          Set(r, IF Assess(ask, entry, described, candles, quote, clock) = "ready"
                   THEN Chosen(r, id, [entry |-> entry, described |-> described,
                                       candles |-> candles, quote |-> quote, now |-> clock])
                   ELSE notReady)
    BY Zenon DEF Answered
  <2> HIDE DEF candleAnswers, quoteAnswers, entry, ask
  <2> QED
    BY <2>3, <2>4, <2>5, Zenon
<1>2. v.call \in Calls /\ v.call \in Call
  BY CallKnown
<1>3. /\ DOMAIN v = Fields /\ Called(v) /\ Selected(v) /\ Read(v) /\ Decided(v)
      /\ v.status # "EXECUTED" /\ v.intent = None
  BY DEF Safe, Private, Decided
<1>4. CASE Assess(ask, entry, described, candles, quote, clock) = "ready"
  <2> DEFINE seen == [entry |-> entry, described |-> described,
                      candles |-> candles, quote |-> quote, now |-> clock]
             pc == IF v.call.kind = "select" THEN "done" ELSE "selected"
             f == Chosen(r, id, seen)
  <2>1. WasReady(v.call, seen)
    <3>1. v.call.ask \in Question /\ described \in Description \cup {Raised} /\ clock \in Nat
      BY <1>2, OffersAssumption DEF Call, Safe
    <3> HIDE DEF entry
    <3> QED
      BY <1>4, <3>1, ReadyWas
  <2> HIDE DEF seen
  <2>2. f = [selection |-> "SELECTED", chosen |-> id, seen |-> seen, pc |-> pc]
    BY DEF Chosen
  <2>3. pc \in {"done", "selected"} /\ (v.call.kind = "select" => pc = "done")
    OBVIOUS
  <2> HIDE DEF pc
  <2>4. Set(r, f) /\ DOMAIN f = {"selection", "chosen", "seen", "pc"} /\ DOMAIN f \subseteq Fields
    BY <1>1, <1>4, <2>2 DEF Fields, seen
  <2>5. /\ DOMAIN run'[r] = Fields
        /\ run'[r].call = v.call /\ run'[r].pc = pc
        /\ run'[r].rest = v.rest /\ run'[r].selection = "SELECTED" /\ run'[r].chosen = id
        /\ run'[r].seen = seen
        /\ run'[r].quote = v.quote /\ run'[r].readiness = v.readiness
        /\ run'[r].status = v.status /\ run'[r].intent = v.intent /\ run'[r].known = v.known
    BY <2>2, <2>4, SetFields DEF Fields
  <2>6. Private(run'[r])
    BY <1>2, <1>3, <2>1, <2>3, <2>5, ProvidersAssumption
       DEF Private, Called, Selected, Read, Decided
  <2>7. Earned(r)'
    BY <1>3, <2>3, <2>5 DEF Earned
  <2> QED
    BY <1>3, <2>3, <2>4, <2>5, <2>6, <2>7, Free
<1>5. CASE Assess(ask, entry, described, candles, quote, clock) # "ready"
  <2>1. Set(r, notReady) /\ DOMAIN notReady \subseteq Fields
    BY <1>1, <1>5 DEF Fields
  <2>2. /\ DOMAIN run'[r] = Fields
        /\ run'[r].call = v.call /\ run'[r].pc \in {"list", "others"}
        /\ run'[r].rest \subseteq v.rest /\ run'[r].selection = v.selection
        /\ run'[r].chosen = v.chosen /\ run'[r].seen = v.seen
        /\ run'[r].quote = v.quote /\ run'[r].readiness = v.readiness
        /\ run'[r].status = v.status /\ run'[r].intent = v.intent /\ run'[r].known = v.known
    BY <2>1, SetFields DEF Fields
  <2>3. Private(run'[r])
    BY <1>2, <1>3, <2>2 DEF Private, Called, Selected, Read, Decided
  <2>4. Earned(r)'
    BY <1>3, <2>2, <2>3, Undecided
  <2> QED
    BY <1>3, <2>1, <2>2, <2>3, <2>4, Free
<1> QED
  BY <1>4, <1>5

LEMMA AssessPreferredSafe ==
  ASSUME Safe, NEW r \in Runs, AssessPreferred(r)
  PROVE  Safe'
<1>1. run[r].pc = "preferred" /\ UNCHANGED <<clock, intents, staged, granted>>
      /\ Answered(r, run[r].call.preferred, [pc |-> "list"])
  BY DEF AssessPreferred, At
<1>2. run[r].call.preferred \in Ids
  BY <1>1, CallKnown DEF Safe, Private, Called, Call
<1> QED
  BY <1>1, <1>2, AnsweredSafe

LEMMA AssessNextSafe ==
  ASSUME Safe, NEW r \in Runs, AssessNext(r)
  PROVE  Safe'
<1>1. PICK id \in run[r].rest : Answered(r, id, [rest |-> run[r].rest \ {id}])
  BY DEF AssessNext
<1>2. run[r].pc = "others" /\ UNCHANGED <<clock, intents, staged, granted>>
  BY DEF AssessNext, At
<1>3. id \in Ids
  BY DEF Safe, Private, Called
<1> QED
  BY <1>1, <1>2, <1>3, AnsweredSafe

(* The other steps before the decision: they select nothing new.           *)
LEMMA QuietSafe ==
  ASSUME Safe, NEW r \in Runs, NEW f, Set(r, f), DOMAIN f \subseteq Fields \ {"call", "chosen", "known", "intent"},
         UNCHANGED <<clock, intents, staged, granted>>,
         run[r].pc \in {"preferred", "list", "others", "selected", "quoted", "assessed"},
         "pc" \in DOMAIN f, f.pc \in {"others", "selected", "quoted", "assessed", "done", "failed"},
         "rest" \in DOMAIN f => f.rest \subseteq Ids,
         "selection" \in DOMAIN f => f.selection = "NOT_AVAILABLE",
         f.pc = "selected" => "selection" \in DOMAIN f,
         f.pc = "quoted" => "quote" \in DOMAIN f /\ f.quote \in Quote \cup {None},
         "readiness" \in DOMAIN f => f.readiness = None \/ Readiness(f.readiness),
         "status" \in DOMAIN f => f.status # "EXECUTED"
  PROVE  Safe'
<1> DEFINE v == run[r]
<1>1. v.call \in Calls
  BY CallKnown
<1>2. /\ DOMAIN v = Fields /\ Called(v) /\ Selected(v) /\ Read(v) /\ Decided(v)
      /\ v.status # "EXECUTED" /\ v.intent = None
  BY DEF Safe, Private, Decided
<1>3. /\ DOMAIN run'[r] = Fields
      /\ \A x \in Fields : run'[r][x] = IF x \in DOMAIN f THEN f[x] ELSE v[x]
  BY SetFields
<1>4. /\ run'[r].call = v.call /\ run'[r].pc = f.pc
      /\ run'[r].rest \subseteq Ids
      /\ run'[r].chosen = v.chosen /\ run'[r].known = v.known
      /\ run'[r].selection \in {v.selection, "NOT_AVAILABLE"}
      /\ f.pc = "selected" => run'[r].selection = "NOT_AVAILABLE"
      /\ f.pc = "quoted" => run'[r].quote \in Quote \cup {None}
      /\ run'[r].readiness = None \/ Readiness(run'[r].readiness)
      /\ run'[r].status # "EXECUTED" /\ run'[r].intent = None
  BY <1>2, <1>3 DEF Fields, Called, Read
<1>5. Private(run'[r])
  BY <1>1, <1>2, <1>3, <1>4 DEF Private, Called, Selected, Read, Decided
<1>6. Earned(r)'
  BY <1>4 DEF Earned
<1> QED
  BY <1>4, <1>5, <1>6, Free

LEMMA ListOthersSafe ==
  ASSUME Safe, NEW r \in Runs, ListOthers(r)
  PROVE  Safe'
<1> DEFINE f == [pc |-> "others",
                 rest |-> Listed(entries, run[r].call.ask.category) \ {run[r].call.preferred}]
<1>1. Set(r, f) /\ run[r].pc = "list" /\ UNCHANGED <<clock, intents, staged, granted>>
  BY DEF ListOthers, At
<1>2. f.rest \subseteq Ids /\ f.pc = "others" /\ DOMAIN f = {"pc", "rest"}
  BY DEF Listed
<1> HIDE DEF f
<1> QED
  BY <1>1, <1>2, QuietSafe DEF Fields

LEMMA NoneReadySafe ==
  ASSUME Safe, NEW r \in Runs, NoneReady(r)
  PROVE  Safe'
<1> DEFINE f == [selection |-> "NOT_AVAILABLE",
                 pc |-> IF run[r].call.kind = "select" THEN "done" ELSE "selected"]
<1>1. Set(r, f) /\ run[r].pc = "others" /\ UNCHANGED <<clock, intents, staged, granted>>
  BY DEF NoneReady, At
<1>2. f.selection = "NOT_AVAILABLE" /\ f.pc \in {"done", "selected"} /\ DOMAIN f = {"pc", "selection"}
  OBVIOUS
<1> HIDE DEF f
<1> QED
  BY <1>1, <1>2, QuietSafe DEF Fields

LEMMA RefuseSafe ==
  ASSUME Safe, NEW r \in Runs, Refuse(r)
  PROVE  Safe'
<1> DEFINE f == [status |-> "NOT_READY", seen |-> None, pc |-> "done"]
<1>1. Set(r, f) /\ run[r].pc = "selected" /\ UNCHANGED <<clock, intents, staged, granted>>
  BY DEF Refuse, At
<1>2. f.status = "NOT_READY" /\ f.pc = "done" /\ DOMAIN f = {"pc", "seen", "status"}
  OBVIOUS
<1> HIDE DEF f
<1> QED
  BY <1>1, <1>2, QuietSafe DEF Fields

LEMMA OverviewSafe ==
  ASSUME Safe, NEW r \in Runs, Overview(r)
  PROVE  Safe'
<1>1. run[r].pc = "selected" /\ UNCHANGED <<clock, intents, staged, granted>>
  BY DEF Overview, At
<1>2. PICK candles \in CandleAnswers \cup {Failed}, q \in QuoteAnswers \cup {Failed} :
        LET c == run[r].call
            quote == IF c.quote = None THEN None ELSE FetchQuote(entries, c.quote, q)
        IN  Set(r, IF Failed \in {FetchCandles(entries, c.candles, candles), quote}
                     THEN [pc |-> "failed", seen |-> None]
                     ELSE [pc |-> "quoted", seen |-> None, quote |-> quote])
  BY DEF Overview
<1> DEFINE quote == IF run[r].call.quote = None THEN None
                    ELSE FetchQuote(entries, run[r].call.quote, q)
<1>3. quote # Failed => quote \in Quote \cup {None}
  BY OffersAssumption DEF FetchQuote
<1> HIDE DEF quote
<1>4. CASE Set(r, [pc |-> "failed", seen |-> None])
  <2> DEFINE f == [pc |-> "failed", seen |-> None]
  <2>1. Set(r, f) /\ f.pc = "failed" /\ DOMAIN f = {"pc", "seen"}
    BY <1>4
  <2> HIDE DEF f
  <2> QED
    BY <1>1, <2>1, QuietSafe DEF Fields
<1>5. CASE quote # Failed /\ Set(r, [pc |-> "quoted", seen |-> None, quote |-> quote])
  <2> DEFINE f == [pc |-> "quoted", seen |-> None, quote |-> quote]
  <2>1. Set(r, f) /\ f.pc = "quoted" /\ f.quote = quote /\ DOMAIN f = {"pc", "seen", "quote"}
    BY <1>5
  <2> HIDE DEF f
  <2> QED
    BY <1>1, <1>3, <1>5, <2>1, QuietSafe DEF Fields
<1> QED
  BY <1>2, <1>4, <1>5 DEF quote

LEMMA ReadLabSafe ==
  ASSUME Safe, NEW r \in Runs, ReadLab(r)
  PROVE  Safe'
<1>1. run[r].pc = "quoted" /\ UNCHANGED <<clock, intents, staged, granted>>
  BY DEF ReadLab, At
<1>2. PICK s \in LabAnswers \cup {None, Failed} :
        Set(r, IF s = Failed THEN [pc |-> "failed"]
               ELSE [pc |-> "assessed", readiness |-> Assessed(s, run[r].quote)])
  BY DEF ReadLab
<1>3. run[r].quote \in Quote \cup {None}
  BY <1>1 DEF Safe, Private, Read
<1>4. CASE s = Failed
  <2> DEFINE f == [pc |-> "failed"]
  <2>1. Set(r, f) /\ f.pc = "failed" /\ DOMAIN f = {"pc"}
    BY <1>2, <1>4
  <2> HIDE DEF f
  <2> QED
    BY <1>1, <2>1, QuietSafe DEF Fields
<1>5. CASE s # Failed
  <2> DEFINE f == [pc |-> "assessed", readiness |-> Assessed(s, run[r].quote)]
  <2>1. /\ Set(r, f) /\ f.pc = "assessed" /\ DOMAIN f = {"pc", "readiness"}
        /\ f.readiness = Assessed(s, run[r].quote)
    BY <1>2, <1>5
  <2> HIDE DEF f
  <2>2. f.readiness = None \/ Readiness(f.readiness)
    BY <1>3, <1>5, <2>1, OffersAssumption DEF Assessed, Readiness
  <2> QED
    BY <1>1, <2>1, <2>2, QuietSafe DEF Fields
<1> QED
  BY <1>4, <1>5

LEMMA SkipReadinessSafe ==
  ASSUME Safe, NEW r \in Runs, SkipReadiness(r)
  PROVE  Safe'
<1> DEFINE f == [pc |-> "assessed", seen |-> None]
<1>1. Set(r, f) /\ run[r].pc = "selected" /\ UNCHANGED <<clock, intents, staged, granted>>
  BY DEF SkipReadiness, At
<1>2. f.pc = "assessed" /\ DOMAIN f = {"pc", "seen"}
  OBVIOUS
<1> HIDE DEF f
<1> QED
  BY <1>1, <1>2, QuietSafe DEF Fields

(* A run that stages has its intent authorized before it looks for one.    *)
LEMMA DecideSafe ==
  ASSUME Safe, NEW r \in Runs, Decide(r)
  PROVE  Safe'
<1> DEFINE v == run[r]
           c == v.call
           stages == Grants(r) /\ c.staging /\ c.user # None
           key == IntentKey(c, TimeOf(c))
<1>1. v.pc = "assessed" /\ UNCHANGED <<clock, intents, staged>>
  BY DEF Decide, At
<1>2. c \in Calls /\ c \in Call
  BY <1>1, CallKnown
<1>3. /\ DOMAIN v = Fields /\ Called(v) /\ Selected(v) /\ Read(v) /\ Decided(v)
      /\ v.status # "EXECUTED" /\ v.intent = None
  BY <1>1 DEF Safe, Private, Decided
<1>4. CASE TimeOf(c) = Iso
  <2> DEFINE f == [pc |-> "failed"]
  <2>1. Set(r, f) /\ UNCHANGED granted /\ f.pc = "failed" /\ DOMAIN f = {"pc"}
    BY <1>4 DEF Decide
  <2> HIDE DEF f
  <2> QED
    BY <1>1, <2>1, QuietSafe DEF Fields
<1>5. CASE TimeOf(c) # Iso
  <2> DEFINE status == IF Grants(r) THEN "EXECUTED" ELSE "DENIED"
             pc == IF stages THEN "look" ELSE "done"
             f == [status |-> status, key |-> key, pc |-> pc]
  <2>1. /\ Set(r, f)
        /\ granted' = granted \cup (IF stages THEN {IntentOf(r, key)} ELSE {})
        /\ DOMAIN f = {"status", "key", "pc"} /\ DOMAIN f \subseteq Fields
    BY <1>5 DEF Decide, Fields
  <2>2. key \in AllKeys
    BY <1>2, <1>5 DEF AllKeys, IntentKey
  <2>3. status = "EXECUTED" => Grants(r)
    OBVIOUS
  <2>4. /\ pc \in {"look", "done"} /\ (pc = "look" => stages /\ status = "EXECUTED")
        /\ pc = "done" /\ status = "EXECUTED" => ~(c.staging /\ c.user # None)
    BY OffersAssumption
  <2>5. stages => c.user \in Users
    BY <1>2 DEF Call
  <2>0. key = IntentKey(c, TimeOf(c))
    OBVIOUS
  <2> HIDE DEF stages, key, status, pc
  <2>6. /\ DOMAIN run'[r] = Fields
        /\ run'[r].call = c /\ run'[r].pc = pc /\ run'[r].rest = v.rest
        /\ run'[r].selection = v.selection /\ run'[r].chosen = v.chosen
        /\ run'[r].seen = v.seen /\ run'[r].quote = v.quote
        /\ run'[r].readiness = v.readiness /\ run'[r].status = status
        /\ run'[r].key = key /\ run'[r].intent = None /\ run'[r].known = v.known
    BY <1>3, <2>1, SetFields DEF Fields
  <2>7. Private(run'[r])
    BY <1>1, <1>2, <1>3, <2>2, <2>0, <2>4, <2>5, <2>6 DEF Private, Called, Selected, Read, Decided
  <2>8. status = "EXECUTED" => RestsOn(r)' /\ v.selection # "NOT_AVAILABLE"
    <3>1. ASSUME status = "EXECUTED"
          PROVE  RestsOn(r) /\ v.selection # "NOT_AVAILABLE"
      BY <1>2, <1>3, <2>3, <3>1, GrantsRest DEF Read, Selected
    <3> QED
      BY <2>6, <3>1, RestsSame
  <2>9. pc = "look" => IntentOf(r, key)' \in granted'
    <3>1. IntentOf(r, key)' = IntentOf(r, key)
      BY <2>6 DEF IntentOf, key
    <3> QED
      BY <2>1, <2>4, <3>1
  <2>10. Earned(r)'
    <3>1. pc = "look" => IntentOf(r, run[r].key)' \in granted'
      BY <2>6, <2>9 DEF IntentOf, key
    <3> QED
      BY <2>4, <2>6, <2>8, <3>1 DEF Earned
  <2>11. granted \subseteq granted'
    BY <2>1
  <2>12. v.known # None => c.user # None
    BY OffersAssumption DEF Safe, Repeated, Found, CallIndex
  <2> QED
    BY <1>1, <2>1, <2>4, <2>6, <2>7, <2>10, <2>11, <2>12, Free
<1> QED
  BY <1>4, <1>5

(* What a run looks up is what its call finds.                             *)
LEMMA LooksUp ==
  ASSUME Safe, NEW r \in Runs, run[r].pc = "look"
  PROVE  /\ Join(run[r].call.user, run[r].key) \in Indexes
         /\ run[r].known # None => intents[Join(run[r].call.user, run[r].key)] # None
<1> DEFINE c == run[r].call
<1>1. c.user \in Users /\ run[r].key \in AllKeys /\ run[r].key = IntentKey(c, TimeOf(c))
  BY DEF Safe, Private, Decided
<1>2. Join(c.user, run[r].key) \in Indexes
  BY <1>1 DEF Indexes
<1>3. ASSUME run[r].known # None
      PROVE  intents[Join(c.user, run[r].key)] # None
  <2>1. Found(c) # None
    BY <1>3 DEF Safe, Repeated
  <2>2. CallIndex(c) # None /\ Found(c) = intents[CallIndex(c)]
    BY <2>1 DEF Found
  <2>3. CallIndex(c) = Join(c.user, run[r].key)
    BY <1>1, <2>2 DEF CallIndex
  <2> QED
    BY <2>1, <2>2, <2>3
<1> QED
  BY <1>2, <1>3

LEMMA LookSafe ==
  ASSUME Safe, NEW r \in Runs, Look(r)
  PROVE  Safe'
<1> DEFINE v == run[r]
           p == Join(v.call.user, v.key)
           found == intents[p]
<1>1. /\ v.pc = "look" /\ UNCHANGED <<clock, intents, staged, granted>>
      /\ Set(r, IF v.call.user \notin Permitted THEN [pc |-> "done"]
                ELSE IF found # None THEN [pc |-> "done", intent |-> found]
                ELSE [pc |-> "stage"])
  BY DEF Look, At
<1>2. v.call \in Calls
  BY <1>1, CallKnown
<1>3. /\ DOMAIN v = Fields /\ Called(v) /\ Selected(v) /\ Read(v) /\ Decided(v)
      /\ Earned(r) /\ Kept
  BY DEF Safe, Private
<1>4. /\ v.status = "EXECUTED" /\ v.call.user \in Users /\ v.key \in AllKeys
      /\ v.key = IntentKey(v.call, TimeOf(v.call))
      /\ RestsOn(r) /\ v.selection # "NOT_AVAILABLE" /\ IntentOf(r, v.key) \in granted
  BY <1>1, <1>3 DEF Decided, Earned
<1>5. p \in Indexes /\ (v.known # None => found # None)
  BY <1>1, LooksUp
<1>6. found # None => found \in granted \cup Others /\ IndexOf(found) = p
  BY <1>3, <1>5 DEF Kept
<1> HIDE DEF p, found
<1>7. PICK f : /\ Set(r, f)
               /\ \/ v.call.user \notin Permitted /\ f = [pc |-> "done"]
                  \/ v.call.user \in Permitted /\ found # None
                       /\ f = [pc |-> "done", intent |-> found]
                  \/ v.call.user \in Permitted /\ found = None /\ f = [pc |-> "stage"]
  BY <1>1, Zenon
<1>8. DOMAIN f \subseteq Fields /\ DOMAIN f \subseteq {"pc", "intent"} /\ "pc" \in DOMAIN f
  BY <1>7 DEF Fields
<1>9. /\ DOMAIN run'[r] = Fields
      /\ run'[r].call = v.call /\ run'[r].pc = f.pc /\ run'[r].rest = v.rest
      /\ run'[r].selection = v.selection /\ run'[r].chosen = v.chosen
      /\ run'[r].seen = v.seen /\ run'[r].quote = v.quote
      /\ run'[r].readiness = v.readiness /\ run'[r].status = v.status
      /\ run'[r].key = v.key /\ run'[r].known = v.known
      /\ run'[r].intent = IF "intent" \in DOMAIN f THEN f.intent ELSE v.intent
  BY <1>7, <1>8, SetFields DEF Fields
<1>10. /\ f.pc \in {"stage", "done"} /\ (f.pc = "stage" => v.call.user \in Permitted)
       /\ \/ run'[r].intent = v.intent
          \/ run'[r].intent = found /\ found # None /\ v.call.user \in Permitted
       /\ f.pc = "stage" => v.known = None
       /\ f.pc = "done" /\ v.call.user \in Permitted => run'[r].intent # None
  <2>1. CASE v.call.user \notin Permitted /\ f = [pc |-> "done"]
    BY <1>9, <2>1
  <2>2. CASE v.call.user \in Permitted /\ found # None /\ f = [pc |-> "done", intent |-> found]
    BY <1>9, <2>2
  <2>3. CASE v.call.user \in Permitted /\ found = None /\ f = [pc |-> "stage"]
    BY <1>5, <1>9, <2>3
  <2> QED
    BY <1>7, <2>1, <2>2, <2>3
<1>11. Private(run'[r])
  <2>1. Decided(run'[r])
    BY <1>3, <1>4, <1>6, <1>9, <1>10 DEF Decided, p
  <2>2. Selected(run'[r])
    BY <1>1, <1>3, <1>9, <1>10 DEF Selected
  <2> QED
    BY <1>2, <1>3, <1>9, <1>10, <2>1, <2>2 DEF Private, Called, Read
<1>12. Earned(r)'
  <2>1. RestsOn(r)'
    BY <1>4, <1>9, RestsSame
  <2>2. IntentOf(r, run[r].key)' = IntentOf(r, v.key)
    BY <1>9 DEF IntentOf
  <2>3. run'[r].intent # None => run'[r].intent \in granted \cup Others
    BY <1>3, <1>6, <1>10 DEF Earned
  <2> QED
    BY <1>1, <1>4, <1>9, <2>1, <2>2, <2>3 DEF Earned
<1> QED
  BY <1>1, <1>7, <1>8, <1>9, <1>10, <1>11, <1>12, Free

(* A setup is one that was computed, or none.                              *)
LEMMA SetupOf ==
  ASSUME NEW c \in Call
  PROVE  SignalOf(ResultIn(c)).setup \in Setup \cup {None}
BY DEF Call, Strategy, ResultIn, ResultOf, NoResult, Result, ValidatedStrategy, SignalOf

(* What is staged was authorized, for the user and under the key it is     *)
(* kept by.                                                                *)
LEMMA StageSafe ==
  ASSUME Safe, NEW r \in Runs, Stage(r)
  PROVE  Safe'
<1> DEFINE v == run[r]
           x == IntentOf(r, v.key)
<1>1. /\ v.pc = "stage" /\ UNCHANGED <<clock, granted>>
      /\ intents' = [intents EXCEPT ![IndexOf(x)] = x]
      /\ staged' = staged \cup {x}
  BY DEF Stage, At
<1>2. PICK f \in {[pc |-> "done", intent |-> x], [pc |-> "failed"]} : Set(r, f)
  BY DEF Stage
<1>3. v.call \in Calls /\ v.call \in Call
  BY <1>1, CallKnown
<1>4. /\ DOMAIN v = Fields /\ Called(v) /\ Selected(v) /\ Read(v) /\ Decided(v)
      /\ Earned(r) /\ Repeated(r) /\ Kept
  BY DEF Safe, Private
<1>5. /\ v.status = "EXECUTED" /\ v.call.user \in Users /\ v.key \in AllKeys
      /\ v.call.user \in Permitted /\ v.known = None
      /\ RestsOn(r) /\ v.selection # "NOT_AVAILABLE" /\ x \in granted
  BY <1>1, <1>4 DEF Decided, Earned, Repeated
<1>6. x.user = v.call.user /\ x.key = v.key /\ IndexOf(x) = Join(v.call.user, v.key)
  BY DEF IntentOf, IndexOf
<1>7. x # None
  <2>1. x \in Intent
    BY <1>3, <1>5, SetupOf, KeysAssumption DEF IntentOf, Intent
  <2> QED
    BY <2>1, OffersAssumption
<1> HIDE DEF x
<1>8. /\ DOMAIN f \subseteq {"pc", "intent"} /\ "pc" \in DOMAIN f /\ DOMAIN f \subseteq Fields
      /\ f.pc \in {"done", "failed"}
      /\ "intent" \in DOMAIN f => f.intent = x
  BY <1>2 DEF Fields
<1>9. /\ DOMAIN run'[r] = Fields
      /\ run'[r].call = v.call /\ run'[r].pc = f.pc /\ run'[r].rest = v.rest
      /\ run'[r].selection = v.selection /\ run'[r].chosen = v.chosen
      /\ run'[r].seen = v.seen /\ run'[r].quote = v.quote
      /\ run'[r].readiness = v.readiness /\ run'[r].status = v.status
      /\ run'[r].key = v.key /\ run'[r].known = v.known
      /\ run'[r].intent \in {v.intent, x}
  BY <1>2, <1>4, <1>8, SetFields DEF Fields
<1>10. Private(run'[r])
  <2>1. Decided(run'[r])
    BY <1>4, <1>5, <1>6, <1>8, <1>9 DEF Decided
  <2>2. Selected(run'[r])
    BY <1>1, <1>4, <1>8, <1>9 DEF Selected
  <2> QED
    BY <1>3, <1>4, <1>8, <1>9, <2>1, <2>2 DEF Private, Called, Read
<1>11. Earned(r)'
  <2>1. RestsOn(r)'
    BY <1>5, <1>9, RestsSame
  <2>2. run'[r].intent # None => run'[r].intent \in granted \cup Others
    BY <1>4, <1>5, <1>9 DEF Earned
  <2> QED
    BY <1>1, <1>5, <1>8, <1>9, <2>1, <2>2 DEF Earned
<1>12. Kept' /\ Persists
  BY <1>1, <1>4, <1>5, <1>6, <1>7 DEF Kept, Persists
<1>13. Repeated(r)'
  BY <1>5, <1>9 DEF Repeated
<1> QED
  BY <1>1, <1>2, <1>8, <1>10, <1>11, <1>12, <1>13, SetFields, OthersKeep

LEMMA NextSafe ==
  ASSUME Safe, [Next]_vars
  PROVE  Safe'
<1>1. CASE Tick
  BY <1>1, TickSafe
<1>2. CASE Register
  BY <1>2, RegisterSafe
<1>3. CASE StoreOther
  BY <1>3, StoreOtherSafe
<1>4. ASSUME NEW r \in Runs, Step(r)
      PROVE  Safe'
  BY <1>4, StartSafe, AssessPreferredSafe, ListOthersSafe, AssessNextSafe, NoneReadySafe,
     RefuseSafe, OverviewSafe, ReadLabSafe, SkipReadinessSafe, DecideSafe, LookSafe,
     StageSafe, ReturnSafe, Zenon DEF Step
<1>5. CASE UNCHANGED vars
  <2>1. Kept' /\ Persists
    BY <1>5, KeptStays DEF vars, Safe
  <2>2. \A r \in Runs : Earned(r)' /\ Repeated(r)'
    BY <1>5, <2>1, SameStays DEF vars, Safe
  <2> QED
    BY <1>5, <2>1, <2>2 DEF vars, Safe
<1> QED
  BY <1>1, <1>2, <1>3, <1>4, <1>5 DEF Next

LEMMA InitSafe ==
  ASSUME Init
  PROVE  Safe
<1>1. ASSUME NEW r \in Runs
      PROVE  Private(run[r]) /\ Earned(r) /\ Repeated(r)
  BY OffersAssumption
     DEF Init, Private, Called, Selected, Read, Decided, Earned, Repeated, Idle, Fields
<1>2. Kept
  BY DEF Init, Kept
<1> QED
  BY <1>1, <1>2 DEF Init, Safe

LEMMA SafeAlways == Spec => []Safe
<1>1. Init => Safe
  BY InitSafe
<1>2. Safe /\ [Next]_vars => Safe'
  BY NextSafe
<1> QED
  BY <1>1, <1>2, PTL DEF Spec

(* A provider is selected only on answers that spoke for it, a run is      *)
(* EXECUTED only on a sound strategy and sane levels, and the intent it    *)
(* answers with is for a user who may create signals, was found or stored  *)
(* under the text its user and key join to, and is of a setup a run was    *)
(* authorized for or one that others stored - for any number of runs,      *)
(* providers and users, any way to join a user and a key, and however the  *)
(* clock, the registry and the repository move between two steps.          *)
(* (ProviderSelectionService.select_provider,                              *)
(* TradingWorkflowService.run_workflow)                                    *)
THEOREM ExecutedChecked == Spec => []ExecutedWasChecked
<1>1. Safe => ExecutedWasChecked
  BY Zenon DEF Safe, Private, Selected, Decided, Earned, ExecutedWasChecked, At
<1> QED
  BY <1>1, SafeAlways, PTL

(* A workflow whose key an intent was kept under when it began stages no   *)
(* second one, and answers with an intent when it is EXECUTED for a user   *)
(* who may create signals - whatever runs and creations, of whatever keys, *)
(* store meanwhile.  (TradingWorkflowService.run_workflow,                 *)
(* OrderIntentService.create_order_intent)                                 *)
THEOREM RepeatsIdle == Spec => []RepeatsStageNothing
<1>1. Safe => RepeatsStageNothing
  BY Zenon DEF Safe, Repeated, RepeatsStageNothing, At
<1> QED
  BY <1>1, SafeAlways, PTL
=============================================================================
