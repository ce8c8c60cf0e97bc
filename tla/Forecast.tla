------------------------------ MODULE Forecast ------------------------------
(***************************************************************************)
(* The predictor of one series: Holt-Winters, refitted every few ticks,    *)
(* whose forecasts are cached and served one per tick, with an EWMA in its *)
(* place while there is too little history or no fit; and the anomaly      *)
(* detector, retrained at the same ticks.                                  *)
(*                                                                         *)
(* The EWMA is computed, in multiples of 3 rps; what a Holt-Winters fit    *)
(* forecasts and an isolation forest flags is arbitrary.                   *)
(***************************************************************************)
EXTENDS Naturals, Integers, Sequences, DeciderRules

CONSTANTS MinFit,       \* _min_fit: two seasons of samples
          RetrainEvery, \* retrain_every
          Capacity,     \* TIER_CAPACITY_RPS["free"], in the unit of the rates
          WarmRates     \* what the EWMA may be after warm_up

ASSUME ForecastAssumption ==
    /\ MinFit \in Nat \ {0} /\ RetrainEvery \in Nat \ {0} /\ Capacity \in Nat
    /\ WarmRates \subseteq Nat

VARIABLES
    samples,  \* len(_history), as far as it matters
    turn,     \* _tick, modulo retrain_every
    hw,       \* _hw_cache: of each forecast left, in how many ticks its window comes
    ewma,     \* _ewma
    trained,  \* _iso is not None
    served    \* history: the level of the last forecast, and which of the two made it

forecastVars == <<samples, turn, hw, ewma, trained, served>>

\* The decider's thresholds: 50 %, 60 % and 80 % of capacity.
LevelOf(rate) ==
    IF 10 * rate < 5 * Capacity THEN "calm"
    ELSE IF 10 * rate <= 6 * Capacity THEN "mid"
    ELSE IF 10 * rate <= 8 * Capacity THEN "warm"
    ELSE "high"

\* The EWMA as a forecast.
Average(p) == [by |-> "ewma", level |-> LevelOf(p)]

\* The history given to warm_up is as long as Prometheus has data; a series it lacks
\* starts from nothing.
ForecastInit ==
    /\ \/ samples = 0 /\ ewma = 0
       \/ samples \in 1 .. MinFit /\ ewma \in WarmRates
    /\ turn = 0
    /\ hw = <<>>
    /\ trained = FALSE
    /\ served = Average(ewma)

-----------------------------------------------------------------------------
\* A factor of 0.1 in place of 0.3.
FaultySlow(x, p) ==
    IF p = 0 THEN x
    ELSE IF x + p > 0 /\ x + 9 * p < 5 THEN 1 ELSE (x + 9 * p + 5) \div 10

FaultySmoothed(x, p) == IF p = 0 THEN x ELSE IF x = 0 THEN p ELSE (3 * x + 7 * p + 5) \div 10

\* 0.3 x + 0.7 p, rounded; a positive average stays positive.  From 0 it starts over.
Smoothed(x, p) ==
    IF p = 0 THEN x
    ELSE IF x + p > 0 /\ 3 * x + 7 * p < 5 THEN 1 ELSE (3 * x + 7 * p + 5) \div 10

FaultyFitted(old) == old \o [k \in 1 .. RetrainEvery |-> k - 1]

\* A fit forecasts the coming windows, in place of what was left of the last one.
Fitted(old) == [k \in 1 .. RetrainEvery |-> k - 1]

\* Refit when it is time or nothing is left; a failing fit leaves the cache as it was.
Refit(enough, fits) ==
    IF enough /\ fits /\ (turn = 0 \/ hw = <<>>) THEN Fitted(hw) ELSE hw

FaultyServed(cached) == [k \in 1 .. Len(cached) - 1 |-> cached[k] - 1]

\* What is left when the first forecast has been served and its window has come.
Served(cached) == [k \in 1 .. Len(cached) - 1 |-> cached[k + 1] - 1]

\* update() with the current rate x; it returns the level of the forecast and the flag.
Update(x, fits, level, anomaly) ==
    LET enough == samples + 1 >= MinFit
        cached == Refit(enough, fits)
        detects == enough /\ (trained \/ turn = 0)
    IN  /\ samples' = Later(samples, 1, MinFit)
        /\ turn' = (turn + 1) % RetrainEvery
        /\ trained' = detects
        /\ anomaly => detects
        /\ \/ /\ enough /\ cached # <<>>
              /\ hw' = Served(cached)
              /\ served' = [by |-> "holt-winters", level |-> level]
              /\ UNCHANGED ewma
           \/ /\ ~enough \/ cached = <<>>
              /\ hw' = cached
              /\ ewma' = Smoothed(x, ewma)
              /\ served' = Average(ewma')
              /\ level = served'.level

-----------------------------------------------------------------------------
ForecastTypeOK ==
    /\ samples \in 0 .. MinFit
    /\ turn \in 0 .. RetrainEvery - 1
    /\ hw \in Seq(Int) /\ Len(hw) < RetrainEvery
    /\ ewma \in Nat
    /\ trained \in BOOLEAN
    /\ served \in [by : {"ewma", "holt-winters"}, level : Levels]

\* The forecast served in a tick is the one its fit made for that tick's window, whichever
\* fits failed in between (HoltWintersPredictor: "consumed one-step-at-a-time").
ForecastAligned == \A k \in 1 .. Len(hw) : hw[k] = k - 1
=============================================================================
