-------------------------- MODULE MCTradingWorkflow --------------------------
(* Instances of TradingWorkflow for TLC.                                   *)
EXTENDS TradingWorkflow, TLC

CONSTANTS r1, r2

MCOrder == <<"a", "b">>

Said(status, availability, capable) ==
  [status |-> status, availability |-> availability, capable |-> capable]

MCDescriptions ==
  {Said(None, None, None), Said("healthy", None, TRUE), Said("unhealthy", None, None),
   Said(None, "unhealthy", None), Said(None, None, FALSE)}

Number(t) == [form |-> "number", at |-> t]
MCCandles ==
  {<<>>, <<Number(0)>>, <<Number(0), Number(2)>>, <<[form |-> "odd", at |-> 0], Number(0)>>}

QuoteAt(t, bid, ask, gone) == [stamp |-> Number(t), bid |-> bid, ask |-> ask, unavailable |-> gone]
MCQuotes ==
  {QuoteAt(0, 3, 3, FALSE), QuoteAt(2, 4, None, FALSE), QuoteAt(1, 5, 6, FALSE),
   QuoteAt(0, 3, 3, TRUE)}

Buy(stop, entry, tp) ==
  [direction |-> "buy", entry |-> entry, stop |-> stop, tp1 |-> tp, tp2 |-> tp + 1, tp3 |-> tp + 2]
Sell(stop, entry, tp) ==
  [direction |-> "sell", entry |-> entry, stop |-> stop, tp1 |-> tp, tp2 |-> tp, tp3 |-> tp]

MCLab == {Buy(2, 3, 5), Sell(5, 3, 2)}

Good == [action |-> "buy", approved |-> TRUE, risk |-> "low", setup |-> Buy(1, 2, 4), at |-> 0]
Tested(trades, wins, risk) ==
  [backtest |-> [trades |-> trades, drawdown |-> 1, wins |-> wins, risk |-> risk],
   action |-> "sell", setup |-> Sell(5, 3, 1), at |-> 1]

Strategies ==
  {None, Good, [Good EXCEPT !.at = Iso], [Good EXCEPT !.risk = "high"], [Good EXCEPT !.action = "sell"],
   Tested(5, 2, "medium"), Tested(4, 2, "low"), Tested(5, 1, "low"), Tested(5, 2, None)}

Ask(category, symbol, monitored, reference, paired) ==
  [category |-> category, symbol |-> symbol, monitored |-> monitored, reference |-> reference,
   paired |-> paired]

Select(ask, preferred) ==
  [kind |-> "select", ask |-> ask, preferred |-> preferred, selecting |-> TRUE, assessing |-> FALSE,
   staging |-> FALSE, strategy |-> None, candles |-> None, quote |-> None, at |-> None,
   least |-> None, required |-> FALSE, user |-> None, key |-> None]

Selects ==
  {Select(Ask("market_data", TRUE, TRUE, 2, None), None),
   Select(Ask("market_data", TRUE, FALSE, None, None), "b"),
   Select(Ask("market_data", FALSE, TRUE, None, None), None),
   Select(Ask("quote", TRUE, TRUE, None, "a"), "b"),
   Select(Ask("quote", TRUE, FALSE, 2, None), None),
   Select(Ask("quote", TRUE, TRUE, None, None), None)}

Full(preferred, strategy, quote, user, key) ==
  [kind |-> "workflow", ask |-> Ask("market_data", TRUE, TRUE, None, None), preferred |-> preferred,
   selecting |-> TRUE, assessing |-> TRUE, staging |-> TRUE, strategy |-> strategy,
   candles |-> "b", quote |-> quote, at |-> None, least |-> 2, required |-> TRUE,
   user |-> user, key |-> key]

Light(user, key, strategy) ==
  [Full(None, strategy, None, user, key) EXCEPT !.selecting = FALSE, !.required = FALSE,
     !.assessing = FALSE]

Workflows ==
  {Full("a", Good, "b", None, None),
   [Full(None, Good, "b", "ann", None) EXCEPT !.selecting = FALSE, !.required = FALSE],
   [Full(None, Tested(5, 2, "medium"), "b", None, None) EXCEPT !.selecting = FALSE],
   [Full("a", Good, None, "ann", None) EXCEPT !.candles = None]}
    \cup {Light(None, None, s) : s \in Strategies}

(* The second run gives the first one's default key as its own, or is of a *)
(* user whose id and key join to the same text and who may create nothing. *)
Lights == {Light("ann", "wf_fx:eur_0", Good), Light("ann:wf_fx", "eur_0", Good)}

MCOffered == [r \in Runs |-> IF r = r1 THEN Selects \cup Workflows ELSE Lights]

(* Nothing keeps a colon out of a user id, a key or a symbol.              *)
MCJoin(u, k) == u \o ":" \o k
MCDefaultKey(t) == "wf_fx:eur_" \o ToString(t)

(* A canonical intent under the key, and an intent of the user whose id    *)
(* and key join to the same text.                                          *)
MCOthers ==
  {[user |-> "ann", key |-> "wf_fx:eur_0", setup |-> Sell(6, 3, 1)],
   [user |-> "ann:wf_fx", key |-> "eur_0", setup |-> Buy(1, 3, 5)]}

MCRegistrations ==
  [key : {[category |-> "market_data", id |-> "a"]}, described : {Said(None, None, None), Raised},
   metadata : {None, Said("healthy", None, None)}]

MCInitial ==
  [k \in Key |-> IF k.id = "b" THEN Said("healthy", None, None) ELSE None]
=============================================================================
