------------------------------- MODULE Scoring ------------------------------
(***************************************************************************)
(* CalculatePoolScores (internal/analyzer/CalculatePoolScore.go): the      *)
(* score of a pool by its data and the parameters.                         *)
(*                                                                         *)
(* Scores are only compared, added and divided by each other, so they are  *)
(* all multiplied by the one number that makes them whole, Scale.  What    *)
(* GetPools never sets has its effect left out: no pool has a current      *)
(* position or a sentiment score (CalculateContinuityBonus and             *)
(* CalculateSentimentAdjustment return 0), and all pools have the same     *)
(* age.  Values are finite, and small enough for every product.            *)
(***************************************************************************)
EXTENDS Integers

CONSTANTS
  Log,         \* math.Log10 of the volumes and TVLs, in some unit
  ShieldParts  \* what SmartShieldReductionFactor is a number of parts of

ASSUME ScoringAssumption ==
  /\ ShieldParts \in Nat \ {0}
  /\ DOMAIN Log \subseteq Nat
  /\ \A x \in DOMAIN Log : Log[x] \in Int
  /\ \A x, y \in DOMAIN Log : x <= y => Log[x] <= Log[y]

\* The parameters of the scores are a record of
\*   apr, edenWeight, usdcWeight, impactWeight   the coefficient and weights of APRs
\*   volumeC, ilC, volatilityC, tvlC             further coefficients
\*   shieldBonus, newPoolC                       bonus and penalty
\*   confidence, holding                         factors of the IL risk
\*   reduction                                   parts of it a shield takes off
\*   minTvl, maturity                            thresholds

Weights == {"apr", "edenWeight", "usdcWeight", "impactWeight", "volumeC", "ilC", "volatilityC",
            "tvlC", "shieldBonus", "newPoolC", "confidence", "holding", "reduction", "minTvl",
            "maturity"}

\* GetPools writes it into every pool.
AgeInDays == 30

TotalWeight(par) == par.edenWeight + par.usdcWeight + par.impactWeight

Maturity(par) == IF par.maturity = 0 THEN 1 ELSE par.maturity

Scale(par) == TotalWeight(par) * ShieldParts * Maturity(par)

\* ValidateScoringParameters, and the check of MinTVLThreshold that only
\* CalculateLiquidityScore makes.
ValidScoring(par) ==
  /\ 0 <= par.edenWeight /\ 0 <= par.usdcWeight /\ 0 <= par.impactWeight
  /\ 0 < TotalWeight(par)
  /\ 0 <= par.maturity /\ 0 < par.holding /\ 0 < par.confidence
  /\ par.reduction \in 0..ShieldParts
  /\ 0 < par.minTvl

\* A pool without liquidity has no score, and without the score of every pool
\* there is none.
Scorable(pool) == 0 < pool.tvl

\* CalculateWeightedAPR, before it is divided by TotalWeight.
WeightedAPR(pool, par) ==
  pool.eden * par.edenWeight + pool.usdc * par.usdcWeight + pool.saved * par.impactWeight

RewardScore(pool, par) ==
  par.apr * WeightedAPR(pool, par) * (ShieldParts * Maturity(par))
    + (IF pool.volume = 0 THEN 0 ELSE par.volumeC * Log[pool.volume] * Scale(par))

\* CalculateILRisk, times ShieldParts.
ILRisk(pool, par) ==
  par.confidence * par.holding * (pool.volatility * pool.volatility)
    * (ShieldParts - (IF pool.shielded THEN par.reduction ELSE 0))

\* CalculateAgePenalty, times Maturity: the same for all pools.
AgePenalty(par) ==
  IF par.maturity = 0 \/ AgeInDays >= par.maturity THEN 0
  ELSE par.newPoolC * (par.maturity - AgeInDays)

RiskScore(pool, par) ==
  par.ilC * ILRisk(pool, par) * (TotalWeight(par) * Maturity(par))
    + par.volatilityC * pool.volatility * Scale(par)
    + AgePenalty(par) * (TotalWeight(par) * ShieldParts)

\* A pool below the threshold is scored as if it had it.
LiquidityScore(pool, par) ==
  par.tvlC * Log[IF pool.tvl < par.minTvl THEN par.minTvl ELSE pool.tvl] * Scale(par)

BonusScore(pool, par) == IF pool.shielded THEN par.shieldBonus * Scale(par) ELSE 0

Score(pool, par) ==
  RewardScore(pool, par) + RiskScore(pool, par) + LiquidityScore(pool, par)
    + BonusScore(pool, par)
=============================================================================
