------------------------- MODULE TrafficAgentProofs -------------------------
(***************************************************************************)
(* Proofs about the agent's telemetry and predictor, for any rates, ages,  *)
(* periods, capacity and lengths of a tick.                                *)
(***************************************************************************)
EXTENDS TrafficAgent, DeciderRulesProofs, TLAPS

-----------------------------------------------------------------------------
(* What the helpers return.                                                 *)

\* An average of rates is a rate.
LEMMA SmoothedType ==
    ASSUME NEW x \in Nat, NEW p \in Nat
    PROVE  Smoothed(x, p) \in Nat
<1>1. (3 * x + 7 * p + 5) \div 10 \in Nat
  OBVIOUS
<1> QED  BY <1>1 DEF Smoothed

\* A rate is at one of the levels.
LEMMA AverageType ==
    ASSUME NEW p
    PROVE  Average(p) \in [by : {"ewma", "holt-winters"}, level : Levels]
<1>1. LevelOf(p) \in Levels
  BY DEF LevelOf, Levels
<1> QED  BY <1>1 DEF Average

\* A sequence as the other lemmas see it.
Aligned(q) == \A k \in 1 .. Len(q) : q[k] = k - 1

Forecasts == {q \in Seq(Int) : Len(q) <= RetrainEvery}

\* A fit, and what is left of one after a tick, is aligned.
LEMMA FittedAligned ==
    ASSUME NEW q
    PROVE  Fitted(q) \in Forecasts /\ Aligned(Fitted(q)) /\ Len(Fitted(q)) = RetrainEvery
  BY ForecastAssumption DEF Fitted, Forecasts, Aligned

LEMMA ServedAligned ==
    ASSUME NEW q \in Forecasts, q # <<>>
    PROVE  /\ Served(q) \in Seq(Int)
           /\ Len(Served(q)) = Len(q) - 1
           /\ Aligned(q) => Aligned(Served(q))
<1>1. Len(q) \in Nat \ {0} /\ \A k \in 1 .. Len(q) : q[k] \in Int
  BY DEF Forecasts
<1>2. Len(q) - 1 \in Nat
  BY <1>1
<1>3. \A k \in 1 .. Len(q) - 1 : q[k + 1] - 1 \in Int
  BY <1>1
<1>4. Served(q) \in [1 .. Len(q) - 1 -> Int]
  BY <1>3 DEF Served
<1>5. Served(q) \in Seq(Int)
  BY <1>2, <1>4
<1>6. Len(Served(q)) = Len(q) - 1
  BY <1>2, <1>4, <1>5
<1>7. Aligned(q) => Aligned(Served(q))
  BY <1>1, <1>6 DEF Aligned, Served
<1> QED  BY <1>5, <1>6, <1>7

-----------------------------------------------------------------------------
\* The types at the start.
LEMMA TypeInit == Init => TypeOK
<1> SUFFICES ASSUME Init PROVE TypeOK
  OBVIOUS
<1>1. TelemetryTypeOK
  <2>1. connected \in BOOLEAN
    BY DEF Init, TelemetryInit
  <2>2. /\ sinceLive \in 0 .. Recent + Stale /\ cacheAge \in 0 .. Stale
        /\ cache = NoFeatures /\ features = NoFeatures
    BY TelemetryAssumption DEF Init, TelemetryInit
  <2> QED  BY <2>1, <2>2 DEF TelemetryTypeOK
<1>2. ForecastTypeOK
  <2>1. trained \in BOOLEAN /\ served \in [by : {"ewma", "holt-winters"}, level : Levels]
    BY AverageType DEF Init, ForecastInit
  <2>2. /\ samples \in 0 .. MinFit /\ turn \in 0 .. RetrainEvery - 1
        /\ hw = <<>>
    BY ForecastAssumption DEF Init, ForecastInit
  <2>4. ewma \in Nat
    <3>1. ewma = 0 \/ ewma \in WarmRates
      BY DEF Init, ForecastInit
    <3>2. ASSUME NEW w \in WarmRates PROVE w \in Nat
      BY <3>2, ForecastAssumption
    <3> QED  BY <3>1, <3>2
  <2>3. <<>> \in Seq(Int) /\ Len(<<>>) < RetrainEvery
    BY ForecastAssumption
  <2> QED  BY <2>1, <2>2, <2>3, <2>4 DEF ForecastTypeOK
<1>3. decider \in TierState /\ asleep \in BOOLEAN /\ settled \in BOOLEAN
  <2>1. asleep \in BOOLEAN /\ settled \in BOOLEAN /\ decider = Fresh
    BY DEF Init
  <2>2. Fresh \in TierState
    BY RulesAssumption DEF Fresh, TierState
  <2> QED  BY <2>1, <2>2
<1> QED  BY <1>1, <1>2, <1>3 DEF TypeOK

\* Features keep their type, and their rate is one the predictor can be given.
LEMMA ExtractType ==
    ASSUME TelemetryTypeOK, NEW first \in Answers, Extract(first)
    PROVE  TelemetryTypeOK' /\ features'.rps \in Nat
<1> DEFINE live == Live(first \in {"rates", "rejections"})
<1>1. PICK fetched \in Fetched(first = "rates") :
         /\ cache' = IF live THEN fetched ELSE cache
         /\ features' = IF live THEN fetched
                        ELSE IF cache # NoFeatures /\ cacheAge < Stale THEN cache
                        ELSE StaticDefaults
  BY DEF Extract
<1>2. fetched \in Features
  BY DEF Fetched, Features, Rates
<1>3. StaticDefaults \in Features
  BY DEF StaticDefaults, Features, Rates
<1>4. cache' \in Features \union {NoFeatures} /\ features' \in Features
  BY <1>1, <1>2, <1>3 DEF TelemetryTypeOK
<1>5. features'.rps \in Nat
  <2>1. features'.rps \in Rates
    BY <1>4 DEF Features
  <2>2. ASSUME NEW x \in Rates PROVE x \in Nat
    BY <2>2, TelemetryAssumption DEF Rates
  <2> QED  BY <2>1, <2>2
<1>6. cacheAge' \in 0 .. Stale
  BY TelemetryAssumption DEF Extract, CacheAge, TelemetryTypeOK
<1>7. connected' \in BOOLEAN /\ sinceLive' \in 0 .. Recent + Stale
  BY TelemetryAssumption DEF Extract, TelemetryTypeOK
<1> QED  BY <1>4, <1>5, <1>6, <1>7 DEF TelemetryTypeOK

\* The forecasts left are those of a fit, or a rest of them; both keep their type.
LEMMA UpdateHw ==
    ASSUME ForecastTypeOK, NEW x \in Nat, NEW fits \in BOOLEAN, NEW level, NEW anomaly,
           Update(x, fits, level, anomaly)
    PROVE  /\ hw' \in Seq(Int) /\ Len(hw') < RetrainEvery
           /\ Aligned(hw) => Aligned(hw')
<1> DEFINE enough == samples + 1 >= MinFit
           cached == Refit(enough, fits)
<1>1. hw \in Forecasts /\ Len(hw) < RetrainEvery
  BY ForecastAssumption DEF ForecastTypeOK, Forecasts
<1>2. cached \in Forecasts /\ (Aligned(hw) => Aligned(cached))
  BY <1>1, FittedAligned DEF Refit
<1>3. ~enough => cached = hw
  BY DEF Refit
<1>4. CASE enough /\ cached # <<>> /\ hw' = Served(cached)
  <2>1. Len(cached) \in Nat /\ Len(cached) <= RetrainEvery
    BY <1>2 DEF Forecasts
  <2> HIDE DEF cached
  <2> QED  BY <1>2, <1>4, <2>1, ServedAligned, ForecastAssumption
<1>5. CASE (~enough \/ cached = <<>>) /\ hw' = cached
  <2>1. CASE cached = <<>>
    <3> HIDE DEF cached
    <3>1. hw' = <<>>
      BY <1>5, <2>1
    <3> QED  BY <3>1, ForecastAssumption DEF Aligned
  <2>2. CASE ~enough
    <3>1. hw' = hw
      BY <1>3, <1>5, <2>2
    <3> QED  BY <1>1, <3>1 DEF Forecasts
  <2> QED  BY <1>5, <2>1, <2>2
<1> QED  BY <1>4, <1>5 DEF Update

LEMMA UpdateType ==
    ASSUME ForecastTypeOK, NEW x \in Nat, NEW fits \in BOOLEAN, NEW level \in Levels, NEW anomaly,
           Update(x, fits, level, anomaly)
    PROVE  ForecastTypeOK'
<1>1. samples' \in 0 .. MinFit
  BY LaterBounds, ForecastAssumption DEF Update, ForecastTypeOK
<1>2. turn' \in 0 .. RetrainEvery - 1
  BY ForecastAssumption DEF Update, ForecastTypeOK
<1>3. hw' \in Seq(Int) /\ Len(hw') < RetrainEvery
  BY UpdateHw
<1>4. ewma' \in Nat
  <2>1. ewma' = ewma \/ ewma' = Smoothed(x, ewma)
    BY DEF Update
  <2> QED  BY <2>1, SmoothedType DEF ForecastTypeOK
<1>5. served' \in [by : {"ewma", "holt-winters"}, level : Levels]
  <2>1. served' = [by |-> "holt-winters", level |-> level] \/ served' = Average(ewma')
    BY DEF Update
  <2> QED  BY <2>1, AverageType
<1>6. trained' \in BOOLEAN
  <2>1. trained' = (samples + 1 >= MinFit /\ (trained \/ turn = 0))
    BY DEF Update
  <2> QED  BY <2>1
<1> QED  BY <1>1, <1>2, <1>3, <1>4, <1>5, <1>6 DEF ForecastTypeOK

\* Sleeping keeps the types.
LEMMA SleepType ==
    ASSUME TypeOK, Sleep
    PROVE  TypeOK'
<1>1. PICK d \in TickLengths :
         /\ TelemetryElapse(d)
         /\ decider' = [decider EXCEPT !.age = Later(@, d, Hysteresis)]
  BY DEF Sleep
<1>2. d \in Nat
  BY TickAssumption
<1>3. TelemetryTypeOK'
  <2>1. Later(sinceLive, d, Recent + Stale) \in 0 .. Recent + Stale
    <3>1. Recent + Stale \in Nat /\ sinceLive \in 0 .. Recent + Stale
      BY TelemetryAssumption DEF TypeOK, TelemetryTypeOK
    <3> QED  BY <1>2, <3>1, LaterBounds
  <2>2. Later(cacheAge, d, Stale) \in 0 .. Stale
    BY <1>2, LaterBounds, TelemetryAssumption DEF TypeOK, TelemetryTypeOK
  <2> QED  BY <1>1, <2>1, <2>2 DEF TelemetryElapse, TypeOK, TelemetryTypeOK
<1>4. ForecastTypeOK'
  BY DEF Sleep, forecastVars, TypeOK, ForecastTypeOK
<1>5. decider' \in TierState
  <2>1. Later(decider.age, d, Hysteresis) \in 0 .. Hysteresis
    BY <1>2, LaterBounds, RulesAssumption DEF TypeOK, TierState
  <2> QED  BY <1>1, <2>1 DEF TypeOK, TierState
<1>6. asleep' \in BOOLEAN /\ settled' \in BOOLEAN
  BY DEF Sleep, TypeOK
<1> QED  BY <1>3, <1>4, <1>5, <1>6 DEF TypeOK

LEMMA TickType ==
    ASSUME TypeOK, Tick
    PROVE  TypeOK'
<1>1. TelemetryTypeOK' /\ features'.rps \in Nat
  BY ExtractType DEF Tick, TypeOK
<1>2. PICK fits \in BOOLEAN, level \in Levels, anomaly \in BOOLEAN :
         /\ Update(features'.rps, fits, level, anomaly)
         /\ decider' = Decided(decider, level, anomaly)
  BY DEF Tick
<1>3. ForecastTypeOK'
  BY <1>1, <1>2, UpdateType DEF TypeOK
<1>4. decider' \in TierState
  BY <1>2, DecidedType DEF TypeOK
<1>5. asleep' \in BOOLEAN /\ settled' \in BOOLEAN
  BY DEF Tick, Settled
<1> QED  BY <1>1, <1>3, <1>4, <1>5 DEF TypeOK

LEMMA TypeStep == TypeOK /\ [Next]_vars => TypeOK'
<1> SUFFICES ASSUME TypeOK, [Next]_vars PROVE TypeOK'
  OBVIOUS
<1>1. CASE Tick
  BY <1>1, TickType
<1>2. CASE Sleep
  BY <1>2, SleepType
<1>3. CASE UNCHANGED vars
  BY <1>3 DEF vars, telemetryVars, forecastVars, TypeOK, TelemetryTypeOK, ForecastTypeOK
<1> QED  BY <1>1, <1>2, <1>3 DEF Next

\* Every reachable state of the agent's loop is well-typed; in particular fewer forecasts
\* are kept than ticks until the next fit.
THEOREM TypeCorrect == Spec => []TypeOK
<1> QED  BY TypeInit, TypeStep, PTL DEF Spec

-----------------------------------------------------------------------------
\* The forecast served in a tick is the one made for its window, whatever fits fail.
THEOREM ForecastsAreAligned == Spec => []ForecastAligned
<1>1. Init => ForecastAligned
  BY DEF Init, ForecastInit, ForecastAligned
<1>2. TypeOK /\ ForecastAligned /\ [Next]_vars => ForecastAligned'
  <2> SUFFICES ASSUME TypeOK, ForecastAligned, [Next]_vars PROVE ForecastAligned'
    OBVIOUS
  <2>1. CASE Tick
    <3>1. features'.rps \in Nat
      BY <2>1, ExtractType DEF Tick, TypeOK
    <3>2. PICK fits \in BOOLEAN, level \in Levels, anomaly \in BOOLEAN :
             Update(features'.rps, fits, level, anomaly)
      BY <2>1 DEF Tick
    <3>3. Aligned(hw')
      BY <3>1, <3>2, UpdateHw DEF TypeOK, ForecastAligned, Aligned
    <3> QED  BY <3>3 DEF ForecastAligned, Aligned
  <2>2. CASE Sleep \/ UNCHANGED vars
    BY <2>2 DEF Sleep, vars, forecastVars, ForecastAligned
  <2> QED  BY <2>1, <2>2 DEF Next
<1> QED  BY <1>1, <1>2, TypeCorrect, PTL DEF Spec

-----------------------------------------------------------------------------
\* What makes Freshness inductive: only features taken for live are cached, and at that
\* moment the last answer was recent.  From then on both ages grow together.
CacheInv ==
    /\ cache # NoFeatures => connected /\ cache.from \in {"real", "synthetic"}
    /\ cache # NoFeatures /\ cacheAge < Stale => sinceLive < Recent + cacheAge

LEMMA CacheStep == TypeOK /\ CacheInv /\ [Next]_vars => CacheInv'
<1> SUFFICES ASSUME TypeOK, CacheInv, [Next]_vars PROVE CacheInv'
  OBVIOUS
<1>1. CASE Tick
  <2>1. PICK first \in Answers : Extract(first)
    BY <1>1 DEF Tick
  <2> DEFINE live == Live(first \in {"rates", "rejections"})
  <2>2. CASE live
    <3>1. cache'.from \in {"real", "synthetic"}
      BY <2>1, <2>2 DEF Extract, Fetched
    <3>2. cacheAge' = 0 /\ sinceLive' < Recent
      BY <2>1, <2>2, TelemetryAssumption DEF Extract, Live, CacheAge
    <3>4. connected'
      BY <2>1, <2>2 DEF Extract, Live
    <3> QED  BY <3>1, <3>2, <3>4, TelemetryAssumption DEF CacheInv, TypeOK, TelemetryTypeOK
  <2>3. CASE ~live
    <3>1. cache' = cache /\ cacheAge' = cacheAge /\ (connected => connected')
      BY <2>1, <2>3 DEF Extract, CacheAge
    <3>2. sinceLive' \in {0, sinceLive}
      BY <2>1 DEF Extract
    <3> QED  BY <3>1, <3>2, TelemetryAssumption DEF CacheInv, TypeOK, TelemetryTypeOK
  <2> QED  BY <2>2, <2>3
<1>2. CASE Sleep
  <2>1. PICK d \in TickLengths : TelemetryElapse(d)
    BY <1>2 DEF Sleep
  <2>2. d \in Nat
    BY TickAssumption
  <2>3. sinceLive' <= sinceLive + d /\ sinceLive' \in 0 .. Recent + Stale
    BY <2>1, <2>2, LaterBounds, TelemetryAssumption DEF TelemetryElapse, TypeOK, TelemetryTypeOK
  <2>4. cacheAge' \in 0 .. Stale /\ (cacheAge' < Stale => cacheAge' = cacheAge + d)
    BY <2>1, <2>2, LaterBounds, TelemetryAssumption DEF TelemetryElapse, TypeOK, TelemetryTypeOK
  <2>5. cache' = cache /\ connected' = connected
    BY <2>1 DEF TelemetryElapse
  <2>6. cache # NoFeatures /\ cacheAge' < Stale => sinceLive' < Recent + cacheAge'
    BY <2>2, <2>3, <2>4, TelemetryAssumption DEF CacheInv, TypeOK, TelemetryTypeOK
  <2> QED  BY <2>5, <2>6 DEF CacheInv
<1>3. CASE UNCHANGED vars
  BY <1>3 DEF vars, telemetryVars, CacheInv
<1> QED  BY <1>1, <1>2, <1>3 DEF Next

LEMMA FreshStep == TypeOK /\ CacheInv /\ Freshness /\ [Next]_vars => Freshness'
<1> SUFFICES ASSUME TypeOK, CacheInv, Freshness, [Next]_vars PROVE Freshness'
  OBVIOUS
<1>1. CASE Tick
  <2>1. PICK first \in Answers : Extract(first)
    BY <1>1 DEF Tick
  <2> DEFINE live == Live(first \in {"rates", "rejections"})
  <2>2. CASE live
    <3>1. features'.from \in {"real", "synthetic"}
      BY <2>1, <2>2 DEF Extract, Fetched
    <3>2. cacheAge' = 0 /\ sinceLive' < Recent
      BY <2>1, <2>2, TelemetryAssumption DEF Extract, Live, CacheAge
    <3>4. connected'
      BY <2>1, <2>2 DEF Extract, Live
    <3>3. sinceLive' \in Nat
      BY <2>1 DEF Extract, TypeOK, TelemetryTypeOK
    <3> QED  BY <3>1, <3>2, <3>3, <3>4, TelemetryAssumption DEF Freshness
  <2>3. CASE ~live /\ cache # NoFeatures /\ cacheAge < Stale
    <3>1. features' = cache /\ cache' = cache /\ cacheAge' = cacheAge
      BY <2>1, <2>3 DEF Extract, CacheAge
    <3>2. connected' /\ cache.from \in {"real", "synthetic"}
      BY <2>1, <2>3 DEF Extract, CacheInv
    <3>3. sinceLive' < Recent + Stale
      BY <2>1, <2>3, TelemetryAssumption DEF Extract, CacheInv, TypeOK, TelemetryTypeOK
    <3> QED  BY <2>3, <3>1, <3>2, <3>3 DEF Freshness
  <2>4. CASE ~live /\ ~(cache # NoFeatures /\ cacheAge < Stale)
    <3>1. features' = StaticDefaults /\ cache' = cache /\ cacheAge' = cacheAge
      BY <2>1, <2>4 DEF Extract, CacheAge
    <3>2. cache = NoFeatures \/ cacheAge = Stale
      BY <2>4, TelemetryAssumption DEF TypeOK, TelemetryTypeOK
    <3> QED  BY <3>1, <3>2 DEF Freshness, StaticDefaults
  <2> QED  BY <2>2, <2>3, <2>4
<1>2. CASE Sleep
  BY <1>2 DEF Sleep, Freshness
<1>3. CASE UNCHANGED vars
  BY <1>3 DEF vars, telemetryVars, Freshness
<1> QED  BY <1>1, <1>2, <1>3 DEF Next

\* Features are never older than the cache may serve them, synthetic ones taken for live
\* included, and zeros are served only when there is nothing better.
THEOREM FeaturesAreFresh == Spec => []Freshness
<1>1. Init => CacheInv /\ Freshness
  BY DEF Init, TelemetryInit, CacheInv, Freshness
<1> QED  BY <1>1, CacheStep, FreshStep, TypeCorrect, PTL DEF Spec

-----------------------------------------------------------------------------
\* What makes SilenceIsNoSpike inductive: what the average called for in a tick past the
\* hysteresis was done.
DueInv ==
    /\ served.by = "ewma" => served.level = LevelOf(ewma)
    /\ (settled /\ served.by = "ewma" /\ served.level = "high") => decider.throttled

LEMMA DueInit == Init => DueInv
BY DEF Init, ForecastInit, Average, DueInv

LEMMA DueStep == TypeOK /\ DueInv /\ [Next]_vars => DueInv'
<1> SUFFICES ASSUME TypeOK, DueInv, [Next]_vars PROVE DueInv'
  OBVIOUS
<1>1. CASE Tick
  <2>1. PICK fits \in BOOLEAN, level \in Levels, anomaly \in BOOLEAN :
           /\ Update(features'.rps, fits, level, anomaly)
           /\ decider' = Decided(decider, level, anomaly)
    BY <1>1 DEF Tick
  <2>2. CASE served' = [by |-> "holt-winters", level |-> level]
    BY <2>2 DEF DueInv
  <2>3. CASE served' = Average(ewma') /\ level = served'.level
    <3>1. served'.level = LevelOf(ewma') /\ level = LevelOf(ewma')
      BY <2>3 DEF Average
    <3>2. (settled' /\ level = "high") => decider'.throttled
      BY <1>1, <2>1, DecidedHigh DEF Tick, TypeOK
    <3> QED  BY <2>3, <3>1, <3>2 DEF DueInv
  <2> QED  BY <2>1, <2>2, <2>3 DEF Update
<1>2. CASE Sleep
  <2>1. decider'.throttled = decider.throttled /\ UNCHANGED <<served, ewma, settled>>
    BY <1>2 DEF Sleep, forecastVars, TypeOK, TierState
  <2> QED  BY <2>1 DEF DueInv
<1>3. CASE UNCHANGED vars
  BY <1>3 DEF vars, forecastVars, DueInv
<1> QED  BY <1>1, <1>2, <1>3 DEF Next

\* With nothing added, only an average above 80 % stays above 60 %: 0.7 * 0.8 < 0.6.  The
\* unit of the rates has to be fine enough for the rounding not to matter.
LEMMA SilenceCools ==
    ASSUME Capacity > 10, NEW p \in Nat, LevelOf(Smoothed(0, p)) \in {"warm", "high"}
    PROVE  LevelOf(p) = "high"
<1>1. Capacity \in Nat
  BY ForecastAssumption
<1>2. ~(10 * Smoothed(0, p) <= 6 * Capacity)
  BY DEF LevelOf
<1>3. p > 0 /\ Smoothed(0, p) = (7 * p + 5) \div 10
  <2>1. p # 0
    BY <1>1, <1>2 DEF Smoothed
  <2>2. ~(7 * p < 5)
    BY <2>1
  <2> QED  BY <2>1, <2>2 DEF Smoothed
<1>4. 10 * ((7 * p + 5) \div 10) <= 7 * p + 5
  OBVIOUS
<1>5. 7 * p + 5 > 6 * Capacity
  <2>1. (7 * p + 5) \div 10 \in Nat
    OBVIOUS
  <2> QED  BY <1>1, <1>2, <1>3, <1>4, <2>1
<1>6. 10 * p > 8 * Capacity
  BY <1>1, <1>5
<1> QED  BY <1>1, <1>6 DEF LevelOf

\* A tick without traffic cuts no limit of its own, for any rates, lengths of ticks, life of
\* the cache and hysteresis: what it cuts was due, and withheld, in the tick before.
THEOREM SilenceCutsNothing ==
    ASSUME Capacity > 10
    PROVE  Spec => SilenceIsNoSpike
<1>1. TypeOK /\ DueInv /\ [Next]_vars =>
         [(/\ Tick /\ features'.rps = 0
           /\ served.by = "ewma" /\ served'.by = "ewma"
           /\ ~decider.throttled /\ decider'.throttled)
             => ~settled /\ served.level = "high"]_vars
  <2> SUFFICES ASSUME TypeOK, DueInv, Tick, features'.rps = 0,
                      served.by = "ewma", served'.by = "ewma",
                      ~decider.throttled, decider'.throttled
               PROVE  ~settled /\ served.level = "high"
    OBVIOUS
  <2>1. PICK fits \in BOOLEAN, level \in Levels, anomaly \in BOOLEAN :
           /\ Update(features'.rps, fits, level, anomaly)
           /\ decider' = Decided(decider, level, anomaly)
    BY DEF Tick
  <2>2. ewma' = Smoothed(0, ewma) /\ level = LevelOf(ewma')
    BY <2>1 DEF Update, Average
  <2>3. level \in {"warm", "high"}
    BY <2>1, DecidedCuts DEF TypeOK
  <2>4. LevelOf(ewma) = "high"
    BY <2>2, <2>3, SilenceCools DEF TypeOK, ForecastTypeOK
  <2> QED  BY <2>4 DEF DueInv
<1> QED  BY <1>1, DueInit, DueStep, TypeCorrect, PTL DEF Spec, SilenceIsNoSpike
=============================================================================
