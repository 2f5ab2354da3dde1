--------------------------------- MODULE Rates ---------------------------------
(***************************************************************************)
(* The EUR rate: a median of public tickers, cached in the process, shared *)
(* by the requests that only suggest an amount and by the creations that   *)
(* freeze it into a shipment for life.                                     *)
(*                                                                         *)
(* Sources: apps/api/src/lib/eur-rate.ts (ADR-025), its callers in         *)
(* routes/shipments.ts and routes/trips.ts.  The tickers are external: one *)
(* of them may quote anything, the others quote the market or nothing.     *)
(* Rates are small integers; a quote outside Plausible is a broken feed.   *)
(***************************************************************************)
EXTENDS Integers, FiniteSets

CONSTANTS
  Source,        \* the tickers configured
  Wrong,         \* the one that may quote anything, a member of Source or not
  Quotable,      \* bound: what a ticker may put in a quote
  Plausible,     \* quotes within MIN_EUR_PER_BTC and MAX_EUR_PER_BTC
  Market,        \* quotes of the tickers that are right
  MinSources,    \* DEFAULT_MIN_SOURCES
  Ttl,           \* DEFAULT_TTL_MS, in ticks
  MaxAge,        \* DEFAULT_MAX_AGE_MS, in ticks
  Caller,        \* requests in flight
  LastTick       \* bound: when the clock stops

\* createMarketEurRateProvider refuses fewer sources than the quorum.
QuorumIsConfigured ==
  IsFiniteSet(Source) /\ MinSources \in Nat \ {0} /\ Cardinality(Source) >= MinSources

\* A price is positive; the tickers that are right quote within one range, and
\* what a wrong one says within that range is right too.
MarketIsARange ==
  /\ Plausible \subseteq Nat \ {0}
  /\ \A q \in Plausible, low, high \in Plausible \cap Market :
       low <= q /\ q <= high => q \in Market

\* Five minutes and six hours in the code.
AgesAreOrdered == Ttl \in Nat /\ MaxAge \in Nat \ {0} /\ Ttl <= MaxAge

VARIABLES
  tick,       \* the clock of the process
  cached,     \* the snapshot kept, or NoRate
  inFlight,   \* the round of fetches under way, or NoFlight
  callers,    \* by request: "idle", or the use it waits for an answer for
  frozen,     \* the last snapshot frozen into a shipment, with the age it had
  restarted    \* whether the process has restarted

rateVars == <<tick, cached, inFlight, callers, frozen, restarted>>

NoRate == [rate |-> 0]
NoFlight == [at |-> -1]
NoQuote == 0        \* nothing usable: no answer, an error, an odd shape
Waiting == -1

----------------------------------------------------------------------------
(* What a round of fetches makes of its quotes.                            *)

\* quote: satsPerEurScaled8 is null for a quote that is not a plausible price.
Parsed(raw) == IF raw \in Plausible THEN raw ELSE NoQuote

Quotes(flight) == {s \in Source : flight.quotes[s] # NoQuote}

\* The lower-middle median: the quote at rank (n - 1) div 2, counted from 0, of the
\* n usable ones in ascending order.
Median(flight) ==
  LET rank == (Cardinality(Quotes(flight)) - 1) \div 2
  IN CHOOSE q \in {flight.quotes[s] : s \in Quotes(flight)} :
       /\ Cardinality({s \in Quotes(flight) : flight.quotes[s] < q}) <= rank
       /\ Cardinality({s \in Quotes(flight) : flight.quotes[s] <= q}) > rank

\* The outcome of refresh: the new snapshot, dated by the start of the round, or
\* NoRate when too few answered.
Refreshed(flight) ==
  IF Cardinality(Quotes(flight)) < MinSources THEN NoRate
  ELSE [rate |-> Median(flight), at |-> flight.at, backing |-> Quotes(flight)]

----------------------------------------------------------------------------
(* snapshot(use).                                                          *)

\* Fault: a suggestion and a freeze take the same cached rate.
TooStale_never(use, age) == FALSE
TooStale(use, age) == use = "freeze" /\ age > MaxAge

Freeze(use, snap) ==
  frozen' = IF use = "freeze" THEN {[snap |-> snap, age |-> tick - snap.at]} ELSE frozen

\* A cached rate that is fresh enough is served at once; otherwise the caller
\* joins the round under way, or starts one.
snapshot(c, use) ==
  /\ callers[c] = "idle"
  /\ IF cached # NoRate /\ tick - cached.at < Ttl
     THEN /\ Freeze(use, cached)
          /\ UNCHANGED <<inFlight, callers>>
     ELSE /\ callers' = [callers EXCEPT ![c] = use]
          /\ inFlight' = IF inFlight # NoFlight THEN inFlight
                         ELSE [at |-> tick, quotes |-> [s \in Source |-> Waiting]]
          /\ UNCHANGED frozen
  /\ UNCHANGED <<tick, cached, restarted>>

QuoteArrives(s) ==
  /\ inFlight # NoFlight
  /\ inFlight.quotes[s] = Waiting
  /\ \E raw \in (IF s = Wrong THEN Quotable ELSE Market) \cup {NoQuote} :
       inFlight' = [inFlight EXCEPT !.quotes[s] = Parsed(raw)]
  /\ UNCHANGED <<tick, cached, callers, frozen, restarted>>

\* The round has ended: everyone who waited for it resumes, with the new rate,
\* or else with the cached one when it may, or with an error.
RoundEnds ==
  LET fresh == Refreshed(inFlight)
      held == IF fresh # NoRate THEN fresh ELSE cached
      served == {c \in Caller : callers[c] # "idle" /\ held # NoRate
                                /\ (fresh # NoRate \/ ~TooStale(callers[c], tick - held.at))}
  IN
  /\ inFlight # NoFlight
  /\ \A s \in Source : inFlight.quotes[s] # Waiting
  /\ cached' = held
  /\ inFlight' = NoFlight
  /\ callers' = [c \in Caller |-> "idle"]
  /\ frozen' = IF \E c \in served : callers[c] = "freeze"
               THEN {[snap |-> held, age |-> tick - held.at]} ELSE frozen
  /\ UNCHANGED <<tick, restarted>>

\* A fetch is given up after DEFAULT_TIMEOUT_MS: a round spans one tick at most.
Tick ==
  /\ tick < LastTick
  /\ inFlight = NoFlight \/ inFlight.at = tick
  /\ tick' = tick + 1
  /\ UNCHANGED <<cached, inFlight, callers, frozen, restarted>>

Restart ==
  /\ ~restarted
  /\ restarted' = TRUE
  /\ cached' = NoRate /\ inFlight' = NoFlight
  /\ callers' = [c \in Caller |-> "idle"]
  /\ UNCHANGED <<tick, frozen>>

RatesInit ==
  /\ tick = 0
  /\ cached = NoRate /\ inFlight = NoFlight
  /\ callers = [c \in Caller |-> "idle"]
  /\ frozen = {} /\ restarted = FALSE

RatesNext ==
  \/ \E c \in Caller, use \in {"freeze", "suggest"} : snapshot(c, use)
  \/ \E s \in Source : QuoteArrives(s)
  \/ RoundEnds \/ Tick \/ Restart

----------------------------------------------------------------------------
(* Properties.                                                             *)

\* Whatever round it came from and whoever started it, a rate frozen for life was
\* observed at most MaxAge before, is backed by enough tickers, and once three of
\* them answered a single wrong one cannot move it out of the market (ADR-025).
FrozenRateTrusted ==
  \A f \in frozen :
    /\ f.age <= MaxAge
    /\ Cardinality(f.snap.backing) >= MinSources
    /\ Cardinality(f.snap.backing) >= 3 => f.snap.rate \in Market
=============================================================================
