--------------------------- MODULE Analysis_proofs ---------------------------
(***************************************************************************)
(* What is proved of reading and of allocating holds when the pools are     *)
(* read, scored and allocated one after the other, and no pool is left out *)
(* for one that is worse in everything, for all markets and parameters.    *)
(* The last has three parts: a pool read has what is its own               *)
(* (MarketData_proofs), a better pool has the higher score, and no pool    *)
(* left out has a higher score than one selected (Allocation_proofs).      *)
(***************************************************************************)
EXTENDS Analysis, MarketData_proofs, Allocation_proofs

-----------------------------------------------------------------------------
\* Products

LEMMA TimesPositive ==
  ASSUME NEW k \in Int, NEW l \in Int, k > 0, l > 0 PROVE k * l \in Int /\ k * l > 0
OBVIOUS

LEMMA TimesLess ==
  ASSUME NEW x \in Int, NEW y \in Int, NEW k \in Int, k > 0, x < y
  PROVE  /\ k * x \in Int /\ k * y \in Int /\ k * x < k * y
         /\ x * k \in Int /\ y * k \in Int /\ x * k < y * k
OBVIOUS

LEMMA TimesAtMost ==
  ASSUME NEW x \in Int, NEW y \in Int, NEW k \in Int, k >= 0, x <= y
  PROVE  /\ k * x \in Int /\ k * y \in Int /\ k * x <= k * y
         /\ x * k \in Int /\ y * k \in Int /\ x * k <= y * k
OBVIOUS

LEMMA TimesAtLeast ==
  ASSUME NEW x \in Int, NEW y \in Int, NEW k \in Int, k <= 0, x <= y
  PROVE  k * x \in Int /\ k * y \in Int /\ k * y <= k * x
OBVIOUS

-----------------------------------------------------------------------------
\* Scores

\* What the score of a pool is computed from.
PoolData(pool) ==
  /\ pool.eden \in Int /\ pool.usdc \in Int /\ pool.saved \in Int
  /\ pool.volume \in DOMAIN Log /\ 0 < pool.volume
  /\ pool.tvl \in DOMAIN Log /\ 0 < pool.tvl
  /\ pool.volatility \in Nat

\* Parameters that reward what earns and punish what is at risk.
SensibleScoring(par) ==
  /\ \A w \in Weights : par[w] \in Int
  /\ par.minTvl \in DOMAIN Log
  /\ ValidScoring(par)
  /\ 0 < par.apr /\ 0 < par.edenWeight
  /\ 0 <= par.volumeC /\ 0 <= par.tvlC /\ 0 <= par.shieldBonus
  /\ par.ilC <= 0 /\ par.volatilityC <= 0

\* Pool b is nowhere worse than a, and earns more.
Better(b, a) ==
  /\ a.eden < b.eden /\ a.usdc <= b.usdc /\ a.saved <= b.saved
  /\ a.tvl <= b.tvl /\ a.volume <= b.volume
  /\ b.volatility <= a.volatility
  /\ a.shielded => b.shielded

LEMMA Scales ==
  ASSUME NEW par, SensibleScoring(par)
  PROVE  /\ TotalWeight(par) \in Int /\ 0 < TotalWeight(par)
         /\ Maturity(par) \in Int /\ 0 < Maturity(par)
         /\ ShieldParts \in Int /\ 0 < ShieldParts
         /\ Scale(par) \in Int /\ 0 < Scale(par)
         /\ ShieldParts * Maturity(par) \in Int /\ 0 < ShieldParts * Maturity(par)
         /\ TotalWeight(par) * Maturity(par) \in Int /\ 0 < TotalWeight(par) * Maturity(par)
<1>1. TotalWeight(par) \in Int /\ 0 < TotalWeight(par)
  BY DEF SensibleScoring, ValidScoring, TotalWeight, Weights
<1>2. Maturity(par) \in Int /\ 0 < Maturity(par)
  BY DEF SensibleScoring, ValidScoring, Maturity, Weights
<1>3. ShieldParts \in Int /\ 0 < ShieldParts
  BY ScoringAssumption
<1>4. TotalWeight(par) * ShieldParts \in Int /\ 0 < TotalWeight(par) * ShieldParts
  BY <1>1, <1>3, TimesPositive
<1>5. Scale(par) \in Int /\ 0 < Scale(par)
  BY <1>2, <1>4, TimesPositive DEF Scale
<1>6. /\ ShieldParts * Maturity(par) \in Int /\ 0 < ShieldParts * Maturity(par)
      /\ TotalWeight(par) * Maturity(par) \in Int /\ 0 < TotalWeight(par) * Maturity(par)
  BY <1>1, <1>2, <1>3, TimesPositive
<1> QED
  BY <1>1, <1>2, <1>3, <1>5, <1>6

\* A better pool has the better reward.
LEMMA RewardMonotone ==
  ASSUME NEW par, NEW a, NEW b,
         SensibleScoring(par), PoolData(a), PoolData(b), Better(b, a)
  PROVE  RewardScore(a, par) \in Int /\ RewardScore(b, par) \in Int
         /\ RewardScore(a, par) < RewardScore(b, par)
<1> DEFINE wa == WeightedAPR(a, par)
           wb == WeightedAPR(b, par)
           K == ShieldParts * Maturity(par)
           S == Scale(par)
           la == Log[a.volume]
           lb == Log[b.volume]
<1>1. /\ par.apr \in Int /\ par.edenWeight \in Int /\ par.usdcWeight \in Int
      /\ par.impactWeight \in Int /\ par.volumeC \in Int
      /\ 0 < par.apr /\ 0 < par.edenWeight /\ 0 <= par.usdcWeight /\ 0 <= par.impactWeight
      /\ 0 <= par.volumeC
  BY DEF SensibleScoring, ValidScoring, Weights
<1>2. /\ a.eden * par.edenWeight \in Int /\ b.eden * par.edenWeight \in Int
      /\ a.eden * par.edenWeight < b.eden * par.edenWeight
  BY <1>1, TimesLess DEF PoolData, Better
<1>3. /\ a.usdc * par.usdcWeight \in Int /\ b.usdc * par.usdcWeight \in Int
      /\ a.usdc * par.usdcWeight <= b.usdc * par.usdcWeight
  BY <1>1, TimesAtMost DEF PoolData, Better
<1>4. /\ a.saved * par.impactWeight \in Int /\ b.saved * par.impactWeight \in Int
      /\ a.saved * par.impactWeight <= b.saved * par.impactWeight
  BY <1>1, TimesAtMost DEF PoolData, Better
<1>5. wa \in Int /\ wb \in Int /\ wa < wb
  BY <1>2, <1>3, <1>4 DEF WeightedAPR
<1>6. K \in Int /\ 0 < K /\ S \in Int /\ 0 < S
  BY Scales
<1>7. la \in Int /\ lb \in Int /\ la <= lb
  BY ScoringAssumption DEF PoolData, Better
<1> HIDE DEF wa, wb, K, S, la, lb
<1>8. par.apr * wa \in Int /\ par.apr * wb \in Int /\ par.apr * wa < par.apr * wb
  BY <1>1, <1>5, TimesLess
<1>9. /\ par.apr * wa * K \in Int /\ par.apr * wb * K \in Int
      /\ par.apr * wa * K < par.apr * wb * K
  BY <1>6, <1>8, TimesLess
<1>10. par.volumeC * la \in Int /\ par.volumeC * lb \in Int /\ par.volumeC * la <= par.volumeC * lb
  BY <1>1, <1>7, TimesAtMost
<1>11. /\ par.volumeC * la * S \in Int /\ par.volumeC * lb * S \in Int
       /\ par.volumeC * la * S <= par.volumeC * lb * S
  BY <1>6, <1>10, TimesAtMost
<1>12. /\ RewardScore(a, par) = par.apr * wa * K + par.volumeC * la * S
       /\ RewardScore(b, par) = par.apr * wb * K + par.volumeC * lb * S
  BY DEF RewardScore, wa, wb, K, S, la, lb, PoolData
<1> QED
  BY <1>9, <1>11, <1>12

\* A better pool is at no higher risk.
LEMMA RiskMonotone ==
  ASSUME NEW par, NEW a, NEW b,
         SensibleScoring(par), PoolData(a), PoolData(b), Better(b, a)
  PROVE  RiskScore(a, par) \in Int /\ RiskScore(b, par) \in Int
         /\ RiskScore(a, par) <= RiskScore(b, par)
<1> DEFINE fa == ShieldParts - (IF a.shielded THEN par.reduction ELSE 0)
           fb == ShieldParts - (IF b.shielded THEN par.reduction ELSE 0)
           c == par.confidence * par.holding
           va == a.volatility * a.volatility
           vb == b.volatility * b.volatility
           K == TotalWeight(par) * Maturity(par)
           S == Scale(par)
           A == AgePenalty(par) * (TotalWeight(par) * ShieldParts)
<1>1. /\ par.ilC \in Int /\ par.volatilityC \in Int /\ par.confidence \in Int
      /\ par.holding \in Int /\ par.reduction \in Int /\ par.newPoolC \in Int
      /\ par.maturity \in Int
      /\ par.ilC <= 0 /\ par.volatilityC <= 0 /\ 0 < par.confidence /\ 0 < par.holding
      /\ 0 <= par.reduction /\ par.reduction <= ShieldParts
  BY ScoringAssumption DEF SensibleScoring, ValidScoring, Weights
<1>2. /\ TotalWeight(par) \in Int /\ ShieldParts \in Int
      /\ K \in Int /\ 0 < K /\ S \in Int /\ 0 < S
  BY Scales
<1>3. fa \in Int /\ fb \in Int /\ 0 <= fb /\ fb <= fa
  BY <1>1, <1>2 DEF Better
<1>4. c \in Int /\ 0 < c
  BY <1>1, TimesPositive
<1>5. /\ a.volatility \in Int /\ b.volatility \in Int
      /\ 0 <= b.volatility /\ b.volatility <= a.volatility
  BY DEF PoolData, Better
<1>6. va \in Int /\ vb \in Int /\ 0 <= vb /\ vb <= va
  <2>1. /\ b.volatility * b.volatility <= b.volatility * a.volatility
        /\ 0 <= b.volatility * b.volatility
    BY <1>5, TimesAtMost
  <2>2. b.volatility * a.volatility <= a.volatility * a.volatility
    BY <1>5, TimesAtMost
  <2>3. va \in Int /\ vb \in Int /\ b.volatility * a.volatility \in Int
    BY <1>5
  <2> QED
    BY <2>1, <2>2, <2>3
<1>7. A \in Int
  <2>1. AgePenalty(par) \in Int
    BY <1>1 DEF AgePenalty, AgeInDays
  <2>2. TotalWeight(par) * ShieldParts \in Int
    BY <1>2
  <2> QED
    BY <2>1, <2>2
<1>8. /\ RiskScore(a, par) = par.ilC * (c * va * fa) * K + par.volatilityC * a.volatility * S + A
      /\ RiskScore(b, par) = par.ilC * (c * vb * fb) * K + par.volatilityC * b.volatility * S + A
  BY DEF RiskScore, ILRisk
<1> HIDE DEF fa, fb, c, va, vb, K, S, A
<1>9. c * va \in Int /\ c * vb \in Int /\ 0 <= c * vb /\ c * vb <= c * va
  <2>1. c * 0 <= c * vb
    BY <1>4, <1>6, TimesAtMost
  <2> QED
    BY <2>1, <1>4, <1>6, TimesAtMost
<1>10. c * va * fa \in Int /\ c * vb * fb \in Int /\ c * vb * fb <= c * va * fa
  <2>1. c * vb * fb \in Int /\ c * va * fb \in Int /\ c * vb * fb <= c * va * fb
    BY <1>3, <1>9, TimesAtMost
  <2>2. 0 <= c * va
    BY <1>9
  <2>3. c * va * fb <= c * va * fa /\ c * va * fa \in Int
    BY <1>3, <1>9, <2>2, TimesAtMost
  <2> QED
    BY <2>1, <2>3
<1>11. /\ par.ilC * (c * va * fa) \in Int /\ par.ilC * (c * vb * fb) \in Int
       /\ par.ilC * (c * va * fa) <= par.ilC * (c * vb * fb)
  BY <1>1, <1>10, TimesAtLeast
<1>12. /\ par.ilC * (c * va * fa) * K \in Int /\ par.ilC * (c * vb * fb) * K \in Int
       /\ par.ilC * (c * va * fa) * K <= par.ilC * (c * vb * fb) * K
  BY <1>2, <1>11, TimesAtMost
<1>13. /\ par.volatilityC * a.volatility \in Int /\ par.volatilityC * b.volatility \in Int
       /\ par.volatilityC * a.volatility <= par.volatilityC * b.volatility
  BY <1>1, <1>5, TimesAtLeast
<1>14. /\ par.volatilityC * a.volatility * S \in Int /\ par.volatilityC * b.volatility * S \in Int
       /\ par.volatilityC * a.volatility * S <= par.volatilityC * b.volatility * S
  BY <1>2, <1>13, TimesAtMost
<1> QED
  BY <1>7, <1>8, <1>12, <1>14

\* A better pool has the higher score.
LEMMA ScoreMonotone ==
  ASSUME NEW par, NEW a, NEW b,
         SensibleScoring(par), PoolData(a), PoolData(b), Better(b, a)
  PROVE  Score(a, par) \in Int /\ Score(b, par) \in Int /\ Score(a, par) < Score(b, par)
<1> DEFINE ta == IF a.tvl < par.minTvl THEN par.minTvl ELSE a.tvl
           tb == IF b.tvl < par.minTvl THEN par.minTvl ELSE b.tvl
           S == Scale(par)
<1>1. S \in Int /\ 0 < S
  BY Scales
<1>2. /\ par.tvlC \in Int /\ 0 <= par.tvlC
      /\ par.shieldBonus \in Int /\ 0 <= par.shieldBonus
  BY DEF SensibleScoring, Weights
<1>3. ta \in DOMAIN Log /\ tb \in DOMAIN Log /\ ta <= tb
  BY ScoringAssumption DEF SensibleScoring, PoolData, Better
<1>4. Log[ta] \in Int /\ Log[tb] \in Int /\ Log[ta] <= Log[tb]
  BY <1>3, ScoringAssumption
<1>5. par.tvlC * Log[ta] \in Int /\ par.tvlC * Log[tb] \in Int
      /\ par.tvlC * Log[ta] <= par.tvlC * Log[tb]
  BY <1>2, <1>4, TimesAtMost
<1>6. /\ LiquidityScore(a, par) = par.tvlC * Log[ta] * S
      /\ LiquidityScore(b, par) = par.tvlC * Log[tb] * S
  BY DEF LiquidityScore
<1> HIDE DEF ta, tb, S
<1>7. /\ LiquidityScore(a, par) \in Int /\ LiquidityScore(b, par) \in Int
      /\ LiquidityScore(a, par) <= LiquidityScore(b, par)
  BY <1>1, <1>5, <1>6, TimesAtMost
<1>8. par.shieldBonus * S \in Int /\ 0 <= par.shieldBonus * S
  <2>1. 0 * S <= par.shieldBonus * S
    BY <1>1, <1>2, TimesAtMost
  <2> QED
    BY <2>1, <1>1, <1>2
<1>9. /\ BonusScore(a, par) \in Int /\ BonusScore(b, par) \in Int
      /\ BonusScore(a, par) <= BonusScore(b, par)
  BY <1>8 DEF BonusScore, Better, S
<1> QED
  BY <1>7, <1>9, RewardMonotone, RiskMonotone DEF Score

\* A score is a number with any parameters that are valid.
LEMMA ScoreIsNumber ==
  ASSUME NEW par, \A w \in Weights : par[w] \in Int, par.minTvl \in DOMAIN Log,
         NEW a, PoolData(a)
  PROVE  Score(a, par) \in Int
<1> DEFINE W == TotalWeight(par)
           M == Maturity(par)
           S == Scale(par)
           K == ShieldParts * M
           L == W * M
           N == W * ShieldParts
           f == ShieldParts - (IF a.shielded THEN par.reduction ELSE 0)
           t == IF a.tvl < par.minTvl THEN par.minTvl ELSE a.tvl
<1>1. /\ par.apr \in Int /\ par.edenWeight \in Int /\ par.usdcWeight \in Int
      /\ par.impactWeight \in Int /\ par.volumeC \in Int /\ par.ilC \in Int
      /\ par.volatilityC \in Int /\ par.tvlC \in Int /\ par.shieldBonus \in Int
      /\ par.newPoolC \in Int /\ par.confidence \in Int /\ par.holding \in Int
      /\ par.reduction \in Int /\ par.maturity \in Int
  BY DEF Weights
<1>2. W \in Int /\ M \in Int /\ ShieldParts \in Int
  BY <1>1, ScoringAssumption DEF TotalWeight, Maturity
<1>3. N \in Int /\ K \in Int /\ L \in Int /\ S = N * M
  <2> HIDE DEF W, M
  <2> QED
    BY <1>2 DEF Scale, W, M
<1>4. S \in Int
  <2> HIDE DEF S, N, M
  <2> QED
    BY <1>2, <1>3
<1>5. Log[a.volume] \in Int /\ Log[t] \in Int
  BY ScoringAssumption DEF PoolData
<1>6. f \in Int /\ a.volatility \in Int
  BY <1>1, <1>2 DEF PoolData
<1>7. AgePenalty(par) \in Int
  BY <1>1 DEF AgePenalty, AgeInDays
<1>8. WeightedAPR(a, par) \in Int
  BY <1>1 DEF PoolData, WeightedAPR
<1> HIDE DEF W, M, S, K, L, N, f, t
<1>9. RewardScore(a, par) \in Int
  <2>1. RewardScore(a, par) = par.apr * WeightedAPR(a, par) * K + par.volumeC * Log[a.volume] * S
    BY DEF RewardScore, PoolData, K, S, M
  <2> QED
    BY <1>1, <1>3, <1>4, <1>5, <1>8, <2>1
<1>10. RiskScore(a, par) \in Int
  <2> DEFINE c == par.confidence * par.holding
             v == a.volatility * a.volatility
             il == c * v * f
  <2>1. c \in Int /\ v \in Int
    BY <1>1, <1>6
  <2>2. RiskScore(a, par) = par.ilC * il * L + par.volatilityC * a.volatility * S + AgePenalty(par) * N
    BY DEF RiskScore, ILRisk, f, L, S, N, W, M
  <2> HIDE DEF c, v
  <2>3. il \in Int
    BY <1>6, <2>1
  <2> HIDE DEF il
  <2>4. par.ilC * il * L \in Int
    BY <1>1, <1>3, <2>3
  <2>5. par.volatilityC * a.volatility * S \in Int
    BY <1>1, <1>4, <1>6
  <2>6. AgePenalty(par) * N \in Int
    BY <1>3, <1>7
  <2> QED
    BY <2>2, <2>4, <2>5, <2>6
<1>11. LiquidityScore(a, par) \in Int
  <2>1. LiquidityScore(a, par) = par.tvlC * Log[t] * S
    BY DEF LiquidityScore, t, S
  <2> QED
    BY <1>1, <1>4, <1>5, <2>1
<1>12. BonusScore(a, par) \in Int
  <2>1. par.shieldBonus * S \in Int
    BY <1>1, <1>4
  <2> QED
    BY <2>1 DEF BonusScore, S
<1> QED
  BY <1>9, <1>10, <1>11, <1>12 DEF Score

\* Which pools are selected does not matter for a score.
LEMMA ScoreSame ==
  ASSUME NEW par, NEW f, NEW pool, Weights \subseteq DOMAIN par
  PROVE  LET new == [par EXCEPT !.score = f]
         IN  /\ Score(pool, new) = Score(pool, par)
             /\ ValidScoring(new) = ValidScoring(par)
             /\ \A w \in Weights : new[w] = par[w]
<1> DEFINE new == [par EXCEPT !.score = f]
<1>1. \A w \in Weights : new[w] = par[w]
  BY DEF Weights
<1> HIDE DEF new
<1>2. /\ new.apr = par.apr /\ new.edenWeight = par.edenWeight
      /\ new.usdcWeight = par.usdcWeight /\ new.impactWeight = par.impactWeight
      /\ new.volumeC = par.volumeC /\ new.ilC = par.ilC /\ new.volatilityC = par.volatilityC
      /\ new.tvlC = par.tvlC /\ new.shieldBonus = par.shieldBonus /\ new.newPoolC = par.newPoolC
      /\ new.confidence = par.confidence /\ new.holding = par.holding
      /\ new.reduction = par.reduction /\ new.minTvl = par.minTvl /\ new.maturity = par.maturity
  BY <1>1 DEF Weights
<1>3. TotalWeight(new) = TotalWeight(par) /\ Maturity(new) = Maturity(par) /\ Scale(new) = Scale(par)
  BY <1>2 DEF TotalWeight, Maturity, Scale
<1>4. RewardScore(pool, new) = RewardScore(pool, par)
  BY <1>2, <1>3 DEF RewardScore, WeightedAPR
<1>5. RiskScore(pool, new) = RiskScore(pool, par)
  BY <1>2, <1>3 DEF RiskScore, ILRisk, AgePenalty
<1>6. LiquidityScore(pool, new) = LiquidityScore(pool, par) /\ BonusScore(pool, new) = BonusScore(pool, par)
  BY <1>2, <1>3 DEF LiquidityScore, BonusScore
<1>7. Score(pool, new) = Score(pool, par)
  BY <1>4, <1>5, <1>6 DEF Score
<1>8. ValidScoring(new) = ValidScoring(par)
  BY <1>2, <1>3 DEF ValidScoring
<1> QED
  BY <1>1, <1>7, <1>8 DEF new

-----------------------------------------------------------------------------
\* The inductive invariant

ParamInv ==
  /\ Weights \union {"score", "maxPools", "minAlloc", "maxAlloc", "elysMin"} \subseteq DOMAIN input
  /\ \A w \in Weights : input[w] \in Int
  /\ input.minTvl > 0 => input.minTvl \in DOMAIN Log

\* A pool as it has been read: with its own data, and with those of one info, its
\* own if all pages told of their pools.
AsRead(q) ==
  /\ OwnData(q)
  /\ \E info \in DOMAIN market.tvl : OfInfo(q, info)
  /\ Parallel => OfInfo(q, q.id)

\* Nothing is selected before the scores are there, and a score is that of the
\* pool it is kept for.
ScoredInv ==
  /\ step # "scored" => pc = "select"
  /\ step = "scored" =>
       /\ ValidScoring(input)
       /\ Scored = Investable
       /\ \A p \in Investable :
            \E q : q.id = p /\ AsRead(q) /\ Scorable(q) /\ input.score[p] = Score(q, input)

AnalysisInv == MarketInv /\ ParamInv /\ ScoredInv /\ AllocationInv

\* While the market stays what it is, so does what is said of a pool read.
LEMMA SameAsRead ==
  ASSUME market' = market
  PROVE  Investable' = Investable /\ Parallel' = Parallel /\ \A q : AsRead(q)' = AsRead(q)
<1>1. Parallel' = Parallel
  BY DEF Parallel, Told, PageAt
<1>2. \A q : AsRead(q)' = AsRead(q)
  BY <1>1, SameListing DEF AsRead
<1> QED
  BY <1>1, <1>2, SameListing

\* The pools GetPools returns are as read.
LEMMA PoolsAsRead ==
  ASSUME MarketInv, reader = "cycle", NEW i \in DOMAIN pools
  PROVE  AsRead(pools[i])
<1>1. /\ OwnData(pools[i])
      /\ \E info \in DOMAIN market.tvl : OfInfo(pools[i], info)
      /\ Told(i) => OfInfo(pools[i], pools[i].id)
  BY DEF MarketInv, BuiltInv
<1>2. market \in Markets /\ Len(market.listing) \in Nat
  BY ListingType DEF MarketInv
<1>3. i \in 1..Len(fetched) /\ Len(fetched) <= Len(market.listing)
  <2>1. fetched \in Seq(Listed) /\ i \in DOMAIN fetched /\ Len(fetched) <= Len(market.listing)
    BY DEF MarketInv, PagesInv, MarketTypeOK
  <2> QED
    BY <2>1, LenProperties
<1>4. Parallel => Told(i)
  <2>1. i \in Int /\ i <= Len(market.listing)
    BY <1>2, <1>3, LenProperties DEF MarketInv, PagesInv
  <2> QED
    BY <1>2, <2>1, ToldBefore DEF Parallel
<1> QED
  BY <1>1, <1>4 DEF AsRead

\* What a pool is scored by, taken from the market.
LEMMA OwnIsData ==
  ASSUME MarketInv, NEW p \in Investable, NEW q, q.id = p, AsRead(q), Scorable(q)
  PROVE  PoolData(q) /\ q.volatility \in Volatilities(p)
<1> USE DEF AsRead
<1>1. market \in Markets
  BY DEF MarketInv
<1>2. PICK k \in DOMAIN market.listing : p = market.listing[k]
  BY DEF Investable
<1>3. market.assets[p] \in Seq(DOMAIN market.volatility)
  BY <1>1, <1>2, AnalysisAssumption
<1>4. /\ \A d \in DOMAIN market.volatility : market.volatility[d] \in Nat
      /\ \A j \in DOMAIN market.yield :
           market.yield[j].eden \in Int /\ market.yield[j].usdc \in Int
      /\ \A j \in DOMAIN market.weeks : market.weeks[j].volume \in DOMAIN Log \union {0}
  BY <1>1, AnalysisAssumption
<1> DEFINE d1 == market.assets[p][1]
           d2 == market.assets[p][2]
<1>5. d1 \in DOMAIN market.volatility /\ d2 \in DOMAIN market.volatility
  BY <1>3 DEF Investable, SupportedPool
<1>6. /\ {q.tokenA, q.tokenB} = {d1, d2}
      /\ q.tokenA \in Usdc => q.tokenB \in Usdc
      /\ q.volatility = market.volatility[q.tokenA]
  BY DEF OwnData
<1>7. q.volatility \in Nat
  BY <1>4, <1>5, <1>6
<1>8. q.volume \in DOMAIN Log /\ 0 < q.volume
  <2>1. q.volume \in LastVolumes(p)
    BY DEF OwnData
  <2>2. q.volume = 1 \/ \E j \in Traded(market.weeks) : q.volume = market.weeks[j].volume
    BY <2>1 DEF LastVolumes
  <2>3. \A j \in Traded(market.weeks) :
          market.weeks[j].volume > 0 /\ market.weeks[j].volume \in DOMAIN Log \union {0}
    BY <1>4 DEF Traded
  <2> QED
    BY <2>2, <2>3, AnalysisAssumption, ScoringAssumption
<1>9. PoolData(q)
  <2>1. q.tvl \in DOMAIN Log \union {0} /\ q.saved \in Int
    BY <1>1, AnalysisAssumption DEF OfInfo
  <2> QED
    BY <1>4, <1>7, <1>8, <2>1 DEF PoolData, OwnData, Scorable
<1>10. q.volatility \in Volatilities(p)
  <2> DEFINE denoms == {market.assets[p][j] : j \in {1, 2}}
  <2>1. denoms = {d1, d2}
    OBVIOUS
  <2>2. q.tokenA \in IF denoms \subseteq Usdc THEN denoms ELSE denoms \ Usdc
    BY <1>6, <2>1
  <2> QED
    BY <1>6, <2>2 DEF Volatilities
<1> QED
  BY <1>9, <1>10

\* A dominating pool has the higher score.
LEMMA DominatesScore ==
  ASSUME AnalysisInv, step = "scored", Sensible, Parallel,
         NEW p \in Investable, NEW q \in Investable, Dominates(q, p)
  PROVE  /\ input.score[p] \in Int /\ input.score[q] \in Int
         /\ input.score[p] < input.score[q]
<1>1. PICK a : a.id = p /\ AsRead(a) /\ Scorable(a) /\ input.score[p] = Score(a, input)
  BY DEF AnalysisInv, ScoredInv
<1>2. PICK b : b.id = q /\ AsRead(b) /\ Scorable(b) /\ input.score[q] = Score(b, input)
  BY DEF AnalysisInv, ScoredInv
<1>3. /\ PoolData(a) /\ a.volatility \in Volatilities(p)
      /\ PoolData(b) /\ b.volatility \in Volatilities(q)
  BY <1>1, <1>2, OwnIsData DEF AnalysisInv
<1>4. SensibleScoring(input)
  BY DEF AnalysisInv, ParamInv, Sensible, SensibleScoring, ValidScoring
<1>5. Better(b, a)
  BY <1>1, <1>2, <1>3 DEF Better, Dominates, AsRead, OwnData, OfInfo
<1> QED
  BY <1>1, <1>2, <1>3, <1>4, <1>5, ScoreMonotone

LEMMA AnalysisInvInit == AnalysisInit => AnalysisInv
<1> SUFFICES ASSUME AnalysisInit PROVE AnalysisInv
  OBVIOUS
<1>1. MarketInv /\ step # "scored"
  BY MarketInvInit DEF AnalysisInit, MarketInit
<1>2. input \in Inputs /\ pc = "select"
  BY DEF AnalysisInit, Init
<1>3. ParamInv
  BY <1>2, AnalysisAssumption DEF ParamInv
<1>4. AllocationInv
  BY AllocationInvInit DEF AnalysisInit
<1> QED
  BY <1>1, <1>2, <1>3, <1>4 DEF AnalysisInv, ScoredInv

\* Reading leaves the parameters and the selection alone.
LEMMA ReadKeeps == ASSUME AnalysisInv, Read PROVE AnalysisInv'
<1>1. MarketInv'
  BY MarketInvNext DEF Read, AnalysisInv
<1>2. step' # "scored" /\ pc = "select" /\ UNCHANGED vars
  <2>1. MarketNext /\ step # "scored" /\ UNCHANGED vars
    BY DEF Read
  <2>2. ReadStep => step' # "scored"
    BY <2>1 DEF ReadStep, GetTradableDenoms, NextPage, FetchTokens, RefuseToken, SkipToken,
       HistoryFound, HistoryFails, TokensRead, FetchVolumes, VolumesFail, FetchYields, BuildPools,
       QueryFails, Refuse, Advance
  <2> QED
    BY <2>1, <2>2 DEF MarketNext, marketVars, AnalysisInv, ScoredInv
<1>3. ParamInv'
  BY <1>2 DEF AnalysisInv, ParamInv, vars
<1>4. AllocationInv'
  BY <1>2, AllocationInvNext DEF AnalysisInv
<1> QED
  BY <1>1, <1>2, <1>3, <1>4 DEF AnalysisInv, ScoredInv, vars

\* The pools of a listing are finitely many.
LEMMA InvestableFinite == ASSUME market \in Markets PROVE IsFiniteSet(Investable)
<1> DEFINE n == Len(market.listing)
<1>1. n \in Nat /\ market.listing \in [1..n -> Listed]
  BY ListingType
<1>2. \A p \in Listed : \E i \in 1..n : market.listing[i] = p
  BY ListingType DEF Listed
<1>3. market.listing \in Surjection(1..n, Listed)
  BY <1>1, <1>2 DEF Surjection
<1>4. IsFiniteSet(1..n)
  BY <1>1, FS_Interval
<1>5. IsFiniteSet(Listed)
  BY <1>3, <1>4, FS_Surjection
<1> QED
  BY <1>5, FS_Subset DEF Investable, Listed

\* A step after the reading that only moves on keeps what is known of the market.
LEMMA MarketStays ==
  ASSUME MarketInv, step = "fetched", step' \in {"scored", "failed"}, UNCHANGED <<market, readVars>>
  PROVE  MarketInv'
<1>1. PagesInv' /\ BuiltInv'
  BY SameRead DEF readVars
<1>2. MarketTypeOK' /\ SourcesInv'
  BY DEF readVars, MarketInv, MarketTypeOK, Steps, SourcesInv
<1> QED
  BY <1>1, <1>2 DEF MarketInv

LEMMA ScoringKeeps == ASSUME AnalysisInv, ScorePools PROVE AnalysisInv'
<1> DEFINE read == {pools[i] : i \in DOMAIN pools}
           new == [p \in {q.id : q \in read} |-> Score(CHOOSE q \in read : q.id = p, input)]
<1>1. /\ step = "fetched" /\ pc = "select" /\ step' \in {"scored", "failed"}
      /\ UNCHANGED <<market, readVars, selected, elys, low, high, iteration>> /\ pc' = pc
  BY DEF ScorePools
<1>2. MarketInv'
  BY <1>1, MarketStays DEF AnalysisInv
<1>3. CASE step' = "failed" /\ input' = input
  <2>1. AllocationInv'
    BY <1>1, <1>3, AllocationInvNext DEF AnalysisInv, vars
  <2> QED
    BY <1>1, <1>2, <1>3, <2>1 DEF AnalysisInv, ParamInv, ScoredInv
<1>4. CASE /\ ValidScoring(input) /\ \A q \in read : Scorable(q)
           /\ input' = [input EXCEPT !.score = new] /\ step' = "scored"
  <2>1. Weights \subseteq DOMAIN input /\ "score" \in DOMAIN input
    BY DEF AnalysisInv, ParamInv
  <2>2. /\ ValidScoring(input') /\ \A w \in Weights : input'[w] = input[w]
        /\ \A q : Score(q, input') = Score(q, input)
    BY <1>4, <2>1, ScoreSame
  <2>3. /\ input'.score = new /\ DOMAIN input' = DOMAIN input
        /\ input'.maxPools = input.maxPools /\ input'.minAlloc = input.minAlloc
        /\ input'.maxAlloc = input.maxAlloc /\ input'.elysMin = input.elysMin
    BY <1>4 DEF AnalysisInv, ParamInv
  <2>4. input'.minTvl = input.minTvl
    BY <2>2 DEF Weights
  <2>5. ParamInv'
    BY <2>1, <2>2, <2>3, <2>4 DEF AnalysisInv, ParamInv
  <2>6. /\ {q.id : q \in read} = Investable
        /\ \A q \in read : AsRead(q)
    <3>1. /\ {pools[i].id : i \in DOMAIN pools} = Investable
          /\ \A i \in DOMAIN pools : AsRead(pools[i])
      BY <1>1, PoolsAsRead DEF AnalysisInv, MarketInv, SourcesInv, BuiltInv, MarketTypeOK
    <3> QED
      BY <3>1
  <2>7. ASSUME NEW p \in Investable
        PROVE  \E q : q.id = p /\ AsRead(q) /\ Scorable(q) /\ input'.score[p] = Score(q, input')
    <3> DEFINE c == CHOOSE q \in read : q.id = p
    <3>1. c \in read /\ c.id = p
      BY <2>6
    <3>2. new[p] = Score(c, input)
      BY <2>6
    <3>3. AsRead(c) /\ Scorable(c) /\ input'.score[p] = Score(c, input')
      BY <1>4, <2>2, <2>3, <2>6, <3>1, <3>2
    <3> QED
      BY <3>1, <3>3
  <2>8. Investable' = Investable /\ \A q : AsRead(q)' = AsRead(q)
    BY <1>1, SameAsRead
  <2>9. Scored' = Investable
    BY <2>3, <2>6 DEF Scored
  <2>10. ScoredInv'
    BY <1>4, <2>2, <2>7, <2>8, <2>9 DEF ScoredInv
  <2>11. ASSUME NEW p \in Investable PROVE input'.score[p] \in Int
    <3>1. PICK q : q.id = p /\ AsRead(q) /\ Scorable(q) /\ input'.score[p] = Score(q, input')
      BY <2>7
    <3>2. PoolData(q)
      BY <3>1, OwnIsData DEF AnalysisInv
    <3>3. input'.minTvl \in DOMAIN Log /\ \A w \in Weights : input'[w] \in Int
      BY <2>2, <2>5 DEF ParamInv, ValidScoring
    <3> QED
      BY <3>1, <3>2, <3>3, ScoreIsNumber
  <2>12. ArgumentsInv'
    <3>1. IsFiniteSet(Investable)
      BY InvestableFinite DEF AnalysisInv, MarketInv
    <3> QED
      BY <2>3, <2>9, <2>11, <3>1 DEF AnalysisInv, AllocationInv, ArgumentsInv
  <2>13. AllocationInv'
    <3>1. /\ pc = "select" /\ selected = {} /\ elys = NoPool /\ low = {} /\ high = {}
          /\ UNCHANGED <<pc, selected, elys, low, high, iteration>>
      BY <1>1 DEF AnalysisInv, AllocationInv, StageInv
    <3>2. TypeOK' /\ StageInv' /\ ProgressInv'
      BY <3>1 DEF AnalysisInv, AllocationInv, TypeOK, StageInv, ProgressInv
    <3>3. LockedInv' /\ SettledInv' /\ BestSelected'
      BY <3>1 DEF LockedInv, SettledInv, BestSelected
    <3> QED
      BY <2>12, <3>2, <3>3 DEF AllocationInv
  <2> QED
    BY <1>1, <1>2, <2>5, <2>10, <2>13 DEF AnalysisInv
<1> QED
  BY <1>3, <1>4 DEF ScorePools

LEMMA AllocateKeeps == ASSUME AnalysisInv, Allocate PROVE AnalysisInv'
<1>1. step = "scored" /\ Next /\ UNCHANGED marketVars
  BY DEF Allocate
<1>2. input' = input
  BY <1>1 DEF Next, Step, RefuseSelection, Select, Validate, OverAllocated, LockPools, Exhausted,
     Assign, Returned, vars
<1>3. Scored' = Scored /\ Investable' = Investable /\ \A q : AsRead(q)' = AsRead(q)
  BY <1>1, <1>2, SameAsRead DEF marketVars, Scored
<1>4. MarketInv'
  BY <1>1, MarketInvNext DEF AnalysisInv
<1>5. ParamInv' /\ ScoredInv'
  BY <1>1, <1>2, <1>3 DEF AnalysisInv, ParamInv, ScoredInv, marketVars
<1>6. AllocationInv'
  BY <1>1, AllocationInvNext DEF AnalysisInv
<1> QED
  BY <1>4, <1>5, <1>6 DEF AnalysisInv

LEMMA AnalysisInvNext == AnalysisInv /\ [AnalysisNext]_analysisVars => AnalysisInv'
<1> SUFFICES ASSUME AnalysisInv, [AnalysisNext]_analysisVars PROVE AnalysisInv'
  OBVIOUS
<1>1. CASE UNCHANGED analysisVars
  <2>1. MarketInv'
    BY <1>1, MarketInvNext DEF AnalysisInv, analysisVars
  <2>2. /\ UNCHANGED <<step, pc, input, selected, elys>> /\ Scored' = Scored
        /\ Investable' = Investable /\ \A q : AsRead(q)' = AsRead(q)
    BY <1>1, SameAsRead DEF analysisVars, marketVars, vars, Scored
  <2>3. AllocationInv'
    BY <1>1, AllocationInvNext DEF AnalysisInv, analysisVars
  <2> QED
    BY <2>1, <2>2, <2>3 DEF AnalysisInv, ParamInv, ScoredInv
<1> QED
  BY <1>1, ReadKeeps, ScoringKeeps, AllocateKeeps DEF AnalysisNext

-----------------------------------------------------------------------------
\* Theorems

\* What holds of the pools when they are read holds when they are scored.
THEOREM AnalysisInvariant == AnalysisSpec => []AnalysisInv
<1>1. AnalysisInit => AnalysisInv
  BY AnalysisInvInit
<1>2. AnalysisInv /\ [AnalysisNext]_analysisVars => AnalysisInv'
  BY AnalysisInvNext
<1> QED
  BY <1>1, <1>2, PTL DEF AnalysisSpec

\* No pool is left out for one that is worse in everything, except for the forced
\* one, with any market, any page size and any parameters that are sensible.
THEOREM NoneLeftForWorse == AnalysisSpec => []NoDominatedChoice
<1>1. AnalysisInv => NoDominatedChoice
  <2> SUFFICES ASSUME AnalysisInv, step = "scored", pc \notin {"select", "refused"}, Sensible,
                      Parallel, NEW p \in selected \ {elys}, NEW q \in Investable \ selected,
                      Dominates(q, p)
               PROVE  FALSE
    BY DEF NoDominatedChoice
  <2>1. Scored = Investable /\ p \in Investable
    BY DEF AnalysisInv, ScoredInv, AllocationInv, TypeOK, Scored
  <2>2. input.score[p] >= input.score[q]
    BY <2>1 DEF AnalysisInv, AllocationInv, BestSelected
  <2> QED
    BY <2>1, <2>2, DominatesScore
<1> QED
  BY <1>1, AnalysisInvariant, PTL

\* A pool that is worse in everything gets no more than the better one, whatever
\* the iterations lock and in which order.
THEOREM NoneGetsMoreThanBetter == AnalysisSpec => []NoDominatedShare
<1>1. AnalysisInv => NoDominatedShare
  <2> SUFFICES ASSUME AnalysisInv, step = "scored", pc = "done", Sensible, Parallel,
                      NEW p \in selected \ {elys}, NEW q \in selected \ {elys},
                      Dominates(q, p)
               PROVE  Allocation(p) <= Allocation(q)
    BY DEF NoDominatedShare
  <2>1. p \in Investable /\ q \in Investable
    BY DEF AnalysisInv, ScoredInv, AllocationInv, TypeOK, Scored
  <2>2. input.score[q] >= input.score[p]
    BY <2>1, DominatesScore
  <2>3. Allocation(q) >= Allocation(p)
    BY <2>2, OrderFromInv DEF AnalysisInv, OrderKept
  <2>4. Allocation(p) \in Int /\ Allocation(q) \in Int
    BY AllocationIsNumber DEF AnalysisInv, AllocationInv, StageInv
  <2> QED
    BY <2>3, <2>4
<1> QED
  BY <1>1, AnalysisInvariant, PTL

\* What is proved of the read alone holds of it when the pools are scored and
\* allocated afterwards (avm.go:157-181).
THEOREM ReadBeforeScoring == AnalysisSpec => [](MarketTypeOK /\ InvestableRead /\ DataPaired)
<1>1. AnalysisInv => MarketTypeOK /\ InvestableRead /\ DataPaired
  BY DEF AnalysisInv, MarketInv, BuiltInv, SourcesInv, MarketTypeOK, InvestableRead, DataPaired
<1> QED
  BY <1>1, AnalysisInvariant, PTL

\* What is proved of the allocation by arbitrary scores holds by the scores that
\* the pools read have got (avm.go:216-263).
THEOREM AllocationOfPoolsRead ==
  AnalysisSpec =>
    [](TypeOK /\ BestSelected /\ OrderKept /\ BoundsKept /\ SumKept /\ IterationsSuffice)
<1>1. AnalysisInv =>
        TypeOK /\ BestSelected /\ OrderKept /\ BoundsKept /\ SumKept /\ IterationsSuffice
  <2>1. AllocationInv => TypeOK /\ BestSelected
    BY DEF AllocationInv
  <2> QED
    BY <2>1, OrderFromInv, BoundsFromInv, SumFromInv, IterationsFromInv DEF AnalysisInv
<1> QED
  BY <1>1, AnalysisInvariant, PTL
=============================================================================
