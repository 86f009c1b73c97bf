------------------------------ MODULE Providers ------------------------------
(***************************************************************************)
(* The registry of data providers and what the platform concludes about a  *)
(* provider from its answers: src/platform/services/provider_registry.py,  *)
(* provider_access.py, provider_validation.py, provider_operations.py,     *)
(* provider_monitoring.py, provider_readiness.py, market_data.py, quote.py *)
(* and the domain classes of a candle, a quote and their freshness.        *)
(*                                                                         *)
(* Everything here is a function of the registry's entries and of what the *)
(* provider answers at that moment: no conclusion is kept.  Prices of      *)
(* candles, names, symbols and wording of reasons are left out.            *)
(***************************************************************************)
EXTENDS Integers, Sequences, SequencesExt

CONSTANTS
  IdOrder,        \* the provider ids, in the order the registry lists them
  MaxAge,         \* max_age_seconds: older data is stale
  Raised,         \* describe() raised, or did not answer a dict
  Failed,         \* a fetch that raised, or answered what cannot be used
  None

Ids == ToSet(IdOrder)
Categories == {"market_data", "quote"}
Key == [category : Categories, id : Ids]

(* What the words of a status say of a provider's health.                  *)
Health == {"healthy", "unhealthy", "unknown"}

(* What describe() says, and what is kept of it, or of the metadata the    *)
(* caller gives, when the provider is registered.                          *)
Description ==
  [status : Health \cup {None}, availability : Health \cup {None},
   capable : BOOLEAN \cup {None}]
Silent == [status |-> None, availability |-> None, capable |-> None]

Entries == [Key -> Description \cup {None}]

(* The time in an answer: a number, an ISO text, or a text that is no time.*)
Stamp == [form : {"number", "iso", "odd"}, at : Nat]

(* Only the times of candles matter here.                                  *)
Candles == Seq(Stamp)

Price == Nat \cup {None}

(* A quote has at least one price; the middle and the last are left out.   *)
Quote == [stamp : Stamp, bid : Price, ask : Price, unavailable : BOOLEAN]

ASSUME ProvidersAssumption ==
  /\ MaxAge \in Nat
  /\ None \notin Ids /\ None \notin Quote /\ None \notin Nat
  /\ None \notin BOOLEAN /\ None \notin Health

----------------------------------------------------------------------------
(* The registry. *)

CanRegister(entries, k, described, metadata) ==
  /\ entries[k] = None
  /\ metadata # None \/ described # Raised

Snapshot(described, metadata) == IF metadata # None THEN metadata ELSE described

Listed(entries, category) ==
  {i \in Ids : entries[[category |-> category, id |-> i]] # None}

Before(i, j) ==
  \E m, n \in DOMAIN IdOrder : m < n /\ IdOrder[m] = i /\ IdOrder[n] = j

(* A fetch is from the provider that was named and from no other; one that *)
(* is not registered raises.                                               *)
FetchCandles(entries, id, answer) ==
  IF entries[[category |-> "market_data", id |-> id]] = None THEN Failed ELSE answer

FetchQuote(entries, id, answer) ==
  IF entries[[category |-> "quote", id |-> id]] = None THEN Failed ELSE answer

----------------------------------------------------------------------------
(* Validation: what the provider says now comes before what was kept of it *)
(* when it was registered, word by word: a status kept is believed before  *)
(* an availability that is told now.                                       *)

FirstOf(a, b) == IF a # None THEN a ELSE b

Capable(raw, kept) == FirstOf(raw.capable, kept.capable) # FALSE

(* Mutant: the status kept from the registration is believed first.        *)
ReportedAsKept(raw, kept) ==
  FirstOf(FirstOf(kept.status, raw.status), FirstOf(raw.availability, kept.availability))

Reported(raw, kept) ==
  FirstOf(FirstOf(raw.status, kept.status), FirstOf(raw.availability, kept.availability))

HealthOf(raw, kept) == FirstOf(Reported(raw, kept), "unknown")

Validate(entry, described) ==
  CASE entry = None -> "unavailable"
    [] entry # None /\ described = Raised -> "unhealthy"
    [] OTHER -> IF Capable(described, entry) THEN HealthOf(described, entry) ELSE "capability"

----------------------------------------------------------------------------
(* Monitoring: the freshness of the newest candle and of a quote.          *)

(* Times of two forms cannot be compared, so the first candle tells which  *)
(* form counts; the latest candles, all of one age, are as new as any.     *)
IsNewer(c, d) == c.form = d.form /\ c.form # "odd" /\ c.at > d.at
Latest(candles) ==
  {c \in ToSet(candles) :
     c.form = candles[1].form /\ \A d \in ToSet(candles) : ~IsNewer(d, c)}

(* No age for a time that cannot be read or is after the reference.        *)
Age(stamp, reference) ==
  IF stamp.form = "odd" \/ stamp.at > reference THEN None ELSE reference - stamp.at

Ages(candles, quote, reference) ==
  {Age(s, reference) : s \in
     Latest(candles) \cup (IF quote = None THEN {} ELSE {quote.stamp})} \ {None}

Freshness(candles, quote, reference) ==
  CASE quote # None /\ quote.unavailable -> "unavailable"
    [] Ages(candles, quote, reference) = {} /\ (quote = None \/ ~quote.unavailable) -> "unknown"
    [] OTHER -> IF \A a \in Ages(candles, quote, reference) : a <= MaxAge THEN "fresh" ELSE "stale"

Monitor(candles, quote, reference) ==
  IF Failed \in {candles, quote} THEN Failed ELSE Freshness(candles, quote, reference)

----------------------------------------------------------------------------
(* Readiness: a provider is ready unless something speaks against it.      *)

Verdicts == {"ready", "unavailable", "capability", "unhealthy", "stale"}

OfFreshness(f) ==
  CASE f = Failed -> "unhealthy"
    [] f \in {"stale", "unavailable"} -> f
    [] OTHER -> "ready"

(* Without a monitor, or without the id of a provider of candles, a quote  *)
(* is fetched directly and has an age only if the caller gave a reference. *)
OfQuote(quote, reference) ==
  CASE quote = Failed -> "unhealthy"
    [] quote # Failed /\ quote.unavailable -> "unavailable"
    [] OTHER ->
         IF reference # None /\ Age(quote.stamp, reference) # None
              /\ Age(quote.stamp, reference) > MaxAge
           THEN "stale" ELSE "ready"

(* What the caller asks: whether there is a symbol to fetch, whether the   *)
(* service has a monitor, the reference time or None, and the provider of  *)
(* candles to compare a quote with, or None.                               *)
Question ==
  [category : Categories, symbol : BOOLEAN, monitored : BOOLEAN, reference : Nat \cup {None},
   paired : Ids \cup {None}]

(* The clock is read when a monitor is given no reference.                 *)
DataVerdict(ask, candles, quote, now) ==
  LET reference == FirstOf(ask.reference, now)
  IN  CASE ~ask.symbol -> "ready"
        [] ask.symbol /\ ask.category = "market_data" /\ ask.monitored ->
             OfFreshness(Monitor(candles, None, reference))
        [] ask.symbol /\ ask.category = "quote" /\ ask.monitored /\ ask.paired # None ->
             OfFreshness(Monitor(candles, quote, reference))
        [] ask.symbol /\ ask.category = "quote" /\ ~(ask.monitored /\ ask.paired # None) ->
             OfQuote(quote, ask.reference)
        [] OTHER -> "ready"

Assess(ask, entry, described, candles, quote, now) ==
  IF Validate(entry, described) \in {"unavailable", "capability", "unhealthy"}
    THEN Validate(entry, described)
    ELSE DataVerdict(ask, candles, quote, now)
=============================================================================
