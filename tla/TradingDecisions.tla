-------------------------- MODULE TradingDecisions --------------------------
(***************************************************************************)
(* The rules that turn a strategy's backtest into a strategy result, a     *)
(* result into a trade signal, a setup and a quote into a trade readiness, *)
(* and all of them into an authorization: src/platform/services/           *)
(* strategy_validation.py, trade_signal.py, trade_readiness.py,            *)
(* autonomous_authorization.py and the domain classes.                     *)
(*                                                                         *)
(* Prices are whole numbers and a ratio is compared by multiplying out.    *)
(***************************************************************************)
EXTENDS Providers

CONSTANTS
  Prices,         \* a finite set of positive numbers
  MaxRate,        \* win rates and drawdowns are fractions of this number
  Iso             \* a time that was given as a text

ASSUME DecisionsAssumption == Prices \subseteq Nat /\ MaxRate \in Nat

Directions == {"buy", "sell"}
Actions == {"buy", "sell", "hold", "no-signal"}
RiskLevels == {"low", "medium", "moderate", "minimal", "high", "critical"}

(* The prices of a setup are in order; for a sale the targets may be equal.*)
Setup ==
  {s \in [direction : Directions, entry : Prices, stop : Prices,
          tp1 : Prices, tp2 : Prices, tp3 : Prices] :
     IF s.direction = "buy"
       THEN s.stop < s.entry /\ s.entry < s.tp1 /\ s.tp1 < s.tp2 /\ s.tp2 < s.tp3
       ELSE s.stop > s.entry /\ s.entry > s.tp1 /\ s.tp1 >= s.tp2 /\ s.tp2 >= s.tp3}

Distance(a, b) == IF a < b THEN b - a ELSE a - b
Risk(s) == Distance(s.entry, s.stop)
Reward(s) == Distance(s.tp1, s.entry)

----------------------------------------------------------------------------
(* The validation of a strategy. *)

Backtest ==
  [trades : Nat, drawdown : 0..MaxRate, wins : 0..MaxRate, risk : RiskLevels \cup {None}]

MinTrades == 5
AllowedRisks == {"low", "medium"}

ValidationOf(b) ==
  CASE b = None -> "UNVALIDATED"
    [] b # None /\ (\/ b.trades < MinTrades
                    \/ 4 * b.drawdown > MaxRate
                    \/ 2 * b.wins < MaxRate
                    \/ b.risk \notin AllowedRisks \cup {None}) -> "REJECTED"
    [] OTHER -> "VALIDATED"

(* What a strategy says.                                                   *)
Result ==
  [action : Actions, approved : BOOLEAN, risk : RiskLevels, setup : Setup \cup {None},
   at : Nat \cup {Iso}]

(* A strategy of unknown stability counts as critical.                     *)
ResultOf(b, action, setup, at) ==
  [action |-> action, approved |-> ValidationOf(b) = "VALIDATED",
   risk |-> IF b = None \/ b.risk = None THEN "critical" ELSE b.risk,
   setup |-> setup, at |-> at]

(* The result a workflow makes up when it is given none.                   *)
NoResult(at) ==
  [action |-> "no-signal", approved |-> FALSE, risk |-> "high", setup |-> None, at |-> at]

----------------------------------------------------------------------------
(* The trade signal. *)

Unstable == {"high", "critical"}

Blocked(r) ==
  \/ ~r.approved
  \/ r.risk \in Unstable
  \/ r.action \in {"hold", "no-signal"}
  \/ r.setup = None
  \/ r.setup # None /\ r.setup.direction # r.action

Signal == [tradable : BOOLEAN, action : Actions, setup : Setup \cup {None}]

SignalOf(r) ==
  IF Blocked(r) THEN [tradable |-> FALSE, action |-> "no-signal", setup |-> None]
  ELSE [tradable |-> TRUE, action |-> r.action, setup |-> r.setup]

----------------------------------------------------------------------------
(* The trade readiness. *)

(* A buyer pays the ask, a seller gets the bid.                            *)
PriceFor(quote, direction) == IF direction = "buy" THEN quote.ask ELSE quote.bid

LevelsSane(s, price) ==
  IF s.direction = "buy"
    THEN s.stop < price /\ \A t \in {s.tp1, s.tp2, s.tp3} : t > price
    ELSE s.stop > price /\ \A t \in {s.tp1, s.tp2, s.tp3} : t < price

(* A side of the quote that has no price leaves the levels not sane.       *)
ReadinessOf(s, quote) ==
  LET price == PriceFor(quote, s.direction)
  IN  [setup |-> s, price |-> price, risk |-> Risk(s), reward |-> Reward(s),
       sane |-> price # None /\ LevelsSane(s, price)]

----------------------------------------------------------------------------
(* The authorization. *)

(* selection is None when no selection was made.                           *)
Unselected(selection, required) ==
  IF selection = None THEN required ELSE selection # "SELECTED"

(* Neither the direction nor the prices of the readiness are compared with *)
(* the signal's: the two may be of different setups.                       *)
NotReady(readiness, least) ==
  /\ readiness # None
  /\ \/ ~readiness.sane
     \/ least # None /\ readiness.reward < least * readiness.risk

Authorized(signal, selection, readiness, least, required) ==
  /\ signal.tradable /\ signal.action \in Directions
  /\ ~Unselected(selection, required)
  /\ ~NotReady(readiness, least)
=============================================================================
