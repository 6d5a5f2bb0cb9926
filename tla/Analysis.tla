------------------------------- MODULE Analysis ------------------------------
(***************************************************************************)
(* From the chain to the parts of the pools, the way RunCycle goes         *)
(* (internal/avm/avm.go:157-268): MarketData reads the pools, Scoring      *)
(* scores them, Allocation selects the best and says what part of the      *)
(* vault each gets.  Inputs are the parameters, without a score yet.       *)
(***************************************************************************)
EXTENDS MarketData, Scoring, Allocation

CONSTANT Uelys  \* the denom by which Allocation finds the pools it forces one of

\* Parameters and what the sources tell are whole numbers, those a logarithm is
\* taken of in the domain of Log; GetPools writes a volume of 1 in development.
ASSUME AnalysisAssumption ==
  /\ 1 \in DOMAIN Log
  /\ \A i \in Inputs :
       /\ Weights \union {"score", "maxPools", "minAlloc", "maxAlloc", "elysMin"} \subseteq DOMAIN i
       /\ \A w \in Weights : i[w] \in Int
       /\ i.minTvl > 0 => i.minTvl \in DOMAIN Log
  /\ \A m \in Markets :
       /\ \A k \in DOMAIN m.weeks : m.weeks[k].volume \in DOMAIN Log \union {0}
       /\ \A d \in DOMAIN m.volatility : m.volatility[d] \in Nat
       /\ \A p \in DOMAIN m.yield : m.yield[p].eden \in Int /\ m.yield[p].usdc \in Int
       /\ \A e \in DOMAIN m.tvl : m.tvl[e] \in DOMAIN Log \union {0} /\ m.saved[e] \in Int
       /\ \A k \in DOMAIN m.listing :
            LET p == m.listing[k]
            IN  /\ p \in ElysPools <=> \E j \in DOMAIN m.assets[p] : m.assets[p][j] = Uelys
                /\ m.assets[p] \in Seq(DOMAIN m.volatility)

analysisVars == <<marketVars, vars>>

AnalysisInit == MarketInit /\ Init

Read == step # "scored" /\ MarketNext /\ UNCHANGED vars

\* CalculatePoolScores: of all pools, or of none.
ScorePools ==
  /\ step = "fetched" /\ pc = "select"
  /\ LET read == {pools[i] : i \in DOMAIN pools}
     IN  IF ValidScoring(input) /\ \A q \in read : Scorable(q)
         THEN /\ input' = [input EXCEPT !.score =
                             [p \in {q.id : q \in read} |->
                                Score(CHOOSE q \in read : q.id = p, input)]]
              /\ step' = "scored" /\ pc' = pc
         ELSE step' = "failed" /\ UNCHANGED <<input, pc>>
  /\ UNCHANGED <<market, readVars, selected, elys, low, high, iteration>>

Allocate == step = "scored" /\ Next /\ UNCHANGED marketVars

AnalysisNext == Read \/ ScorePools \/ Allocate

AnalysisSpec ==
  AnalysisInit /\ [][AnalysisNext]_analysisVars /\ WF_analysisVars(ReadStep /\ UNCHANGED vars)

(***************************************************************************)
(* Properties                                                              *)
(***************************************************************************)

\* The parameters reward what earns and punish what is at risk, as the default
\* ones do (config/Parameters.go:66-128).
Sensible ==
  /\ ValidScoring(input)
  /\ 0 < input.apr /\ 0 < input.edenWeight
  /\ 0 <= input.volumeC /\ 0 <= input.tvlC /\ 0 <= input.shieldBonus
  /\ input.ilC <= 0 /\ input.volatilityC <= 0

\* The volatilities of what a pool holds besides USDC.
Volatilities(p) ==
  LET denoms == {market.assets[p][k] : k \in {1, 2}}
  IN  {market.volatility[d] : d \in IF denoms \subseteq Usdc THEN denoms ELSE denoms \ Usdc}

\* On the chain and in the volumes, pool q is nowhere worse than p, and earns more.
Dominates(q, p) ==
  /\ market.yield[p].eden < market.yield[q].eden
  /\ market.yield[p].usdc <= market.yield[q].usdc
  /\ market.saved[p] <= market.saved[q] /\ market.tvl[p] <= market.tvl[q]
  /\ \A v \in LastVolumes(p), w \in LastVolumes(q) : v <= w
  /\ \A v \in Volatilities(p), w \in Volatilities(q) : w <= v
  /\ p \in market.shielded => q \in market.shielded

\* From the pages of the AMM to the selection: no pool is left out for one that
\* is worse in everything, except for the forced one.  A mix-up anywhere on the
\* way breaks it, but for one the node makes itself, by infos that are not those
\* of the pools they come with (PoolRetriever.go:183-447, CalculatePoolScore.go:36-188,
\* SelectTopPools.go:30-142).
NoDominatedChoice ==
  step = "scored" /\ pc \notin {"select", "refused"} /\ Sensible /\ Parallel =>
    \A p \in selected \ {elys}, q \in Investable \ selected : ~Dominates(q, p)

\* And once both are in, the one that is worse in everything gets no more of the
\* vault: scores of both signs, bounds and the order of the iterations do not
\* turn it around (CalculatePoolScore.go:36-188, SelectTopPools.go:228-346).
NoDominatedShare ==
  step = "scored" /\ pc = "done" /\ Sensible /\ Parallel =>
    \A p, q \in selected \ {elys} : Dominates(q, p) => Allocation(p) <= Allocation(q)
=============================================================================
