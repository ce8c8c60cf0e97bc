----------------------------- MODULE Telemetry -----------------------------
(***************************************************************************)
(* Where the agent's figures come from: the Prometheus client with its     *)
(* synthetic fallbacks, and the feature extractor with its cache.          *)
(*                                                                         *)
(* A feature set is reduced to the request rate of one tier in one region  *)
(* and to where that rate is from.  Rates are multiples of 3 rps, ages of  *)
(* 10 s, counted as far as they matter.  Any query of a tick may fail;     *)
(* queries that hang make the tick longer.                                 *)
(***************************************************************************)
EXTENDS DeciderRules

CONSTANTS Recent,        \* the 15 s by which extract() takes a tick for live, rounded up
          Stale,         \* STALE_WINDOW_SECONDS
          RealRates,     \* what Prometheus may report
          SyntheticRates \* _MOCK_BASE_RPS of the tier, 20 % up or down

ASSUME TelemetryAssumption ==
    /\ Recent \in Nat \ {0} /\ Stale \in Nat \ {0}
    /\ RealRates \subseteq Nat /\ SyntheticRates \subseteq Nat

VARIABLES
    connected,  \* some query has succeeded since the agent started
    sinceLive,  \* seconds_since_live(), if connected
    cache,      \* _cache, the features last taken for live
    cacheAge,   \* time since they were
    features    \* what extract() returned last

telemetryVars == <<connected, sinceLive, cache, cacheAge, features>>

Rates == RealRates \union SyntheticRates \union {0}
Features == [rps : Rates, from : {"real", "synthetic", "static"}]

NoFeatures == [rps |-> 0, from |-> "none"]
StaticDefaults == [rps |-> 0, from |-> "static"]

TelemetryInit ==
    /\ connected = FALSE
    /\ sinceLive = Recent + Stale
    /\ cache = NoFeatures
    /\ cacheAge = Stale
    /\ features = NoFeatures

-----------------------------------------------------------------------------
\* request_rate: the row of the tier, no row (a rate of 0) or, when the query failed, the
\* synthetic figures.
Fetched(ok) ==
    IF ok THEN [rps : RealRates, from : {"real"}]
    ELSE [rps : SyntheticRates, from : {"synthetic"}]

\* seconds_since_live() < 15, after the two queries of the tick.
Live(success) == success \/ (connected /\ sinceLive < Recent)

FaultyCacheAge(live) == 0

\* _cache_at is set when features are taken for live, not when they are served.
CacheAge(live) == IF live THEN 0 ELSE cacheAge

\* The query of a tick that is answered first.  Which of the later ones are answered makes
\* no difference.
Answers == {"rates", "rejections", "top user", "none"}

\* extract: the rates, the rejection rates (not followed), then live features, cached ones
\* or zeros.  top_user_share, after the prediction, is one query more.
Extract(first) ==
    /\ LET live == Live(first \in {"rates", "rejections"}) IN
       /\ \E fetched \in Fetched(first = "rates") :
             /\ cache' = IF live THEN fetched ELSE cache
             /\ features' = IF live THEN fetched
                            ELSE IF cache # NoFeatures /\ cacheAge < Stale THEN cache
                            ELSE StaticDefaults
       /\ cacheAge' = CacheAge(live)
    /\ connected' = (connected \/ first # "none")
    /\ sinceLive' = IF first # "none" THEN 0 ELSE sinceLive

\* The agent sleeps.
TelemetryElapse(d) ==
    /\ sinceLive' = Later(sinceLive, d, Recent + Stale)
    /\ cacheAge' = Later(cacheAge, d, Stale)
    /\ UNCHANGED <<connected, cache, features>>

-----------------------------------------------------------------------------
\* Every component stays in its domain; features are never taken from an empty cache.
TelemetryTypeOK ==
    /\ connected \in BOOLEAN
    /\ sinceLive \in 0 .. Recent + Stale
    /\ cache \in Features \union {NoFeatures}
    /\ cacheAge \in 0 .. Stale
    /\ features \in Features \union {NoFeatures}
=============================================================================
