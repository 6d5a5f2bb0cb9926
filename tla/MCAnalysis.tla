----------------------------- MODULE MCAnalysis -----------------------------
(***************************************************************************)
(* Finite instances of Analysis.  Wide markets are in order and differ in  *)
(* what their pools earn, Narrow ones in all that can be wrong with the    *)
(* sources.                                                                *)
(***************************************************************************)
EXTENDS Analysis, TLC

CONSTANTS e1, e2, p1, p2, p3, none

MCBase == "usdc" :> "uusdc" @@ "atom" :> "uatom" @@ "atom2" :> "uatom" @@ "uelys" :> "uelys"
            @@ "ueden" :> "ueden"

MCEntries == <<"ueden", "usdc", "atom", "uelys">>

MCLog == [x \in 1..16 |-> IF x < 2 THEN 0 ELSE IF x < 4 THEN 1 ELSE IF x < 8 THEN 2 ELSE 3]

\* What a pool earns, and a score of about -1, 1, 2, 5 and 30.
Profiles == {
  [eden |-> 0, usdc |-> 0, saved |-> -4, tvl |-> 1, volume |-> 2, shielded |-> FALSE],
  [eden |-> 4, usdc |-> 0, saved |-> 0, tvl |-> 2, volume |-> 2, shielded |-> FALSE],
  [eden |-> 8, usdc |-> 0, saved |-> 0, tvl |-> 2, volume |-> 3, shielded |-> FALSE],
  [eden |-> 4, usdc |-> 2, saved |-> 0, tvl |-> 3, volume |-> 4, shielded |-> TRUE],
  [eden |-> 8, usdc |-> 56, saved |-> 0, tvl |-> 2, volume |-> 2, shielded |-> FALSE]}

\* Weeks count from the last one whose volumes are too old.
Week(p, w, v) == [pool |-> p, week |-> w, volume |-> v]

Denoms == DOMAIN MCBase

\* Every page with the infos of its pools.
InfosOf(listing) ==
  LET n == Len(listing)
  IN  [k \in {1} \union {j \in 1..n : (j - 1) % PageSize = 0} |->
         SubSeq(listing, k, IF k + PageSize > n THEN n ELSE k + PageSize - 1)]

Of(profile) ==
  LET ps == DOMAIN profile IN
  [coins |-> ps \union Denoms,
   listing |-> <<e1, p1, e2, p2>>, infos |-> InfosOf(<<e1, p1, e2, p2>>),
   assets |-> e1 :> <<"uelys", "usdc">> @@ e2 :> <<"usdc", "uelys">>
                @@ p1 :> <<"atom", "usdc">> @@ p2 :> <<"usdc", "atom">>
                @@ p3 :> <<"atom", "usdc", "atom2">>,
   invalid |-> {}, invalidInfos |-> {}, malformed |-> {}, dev |-> FALSE, faults |-> {}, outage |-> 0,
   tvl |-> [p \in ps |-> profile[p].tvl], saved |-> [p \in ps |-> profile[p].saved],
   shielded |-> {p \in ps : profile[p].shielded},
   yield |-> [p \in ps |-> [eden |-> profile[p].eden, usdc |-> profile[p].usdc]],
   weeks |-> <<Week(e1, 1, 8), Week(e1, 54, 8), Week(e1, 2, profile[e1].volume), Week(e1, 3, 0),
               Week(e2, 2, profile[e2].volume), Week(p2, 0, 9), Week(p2, 2, profile[p2].volume),
               Week(p2, 1, 9), Week(p1, 1, profile[p1].volume)>>,
   priced |-> {Denoms},
   history |-> Denoms,
   volatility |-> [d \in Denoms |-> IF d = "usdc" THEN 0 ELSE 1]]

Wide == {Of(profile) : profile \in [{e1, e2, p1, p2} -> Profiles]}

\* A market in order, with a pool of three assets and one that may not be held.
Narrow0 ==
  LET rates == [p \in {e1, e2, p1, p2} |-> CHOOSE r \in Profiles : r.eden = 4 /\ r.volume = (IF p = p1 THEN 4 ELSE 2)]
  IN  [Of(rates) EXCEPT !.coins = {e1, p2, p3} \union Denoms, !.listing = <<e2, p3, p1, e1, p2>>,
         !.infos = InfosOf(<<e2, p3, p1, e1, p2>>),
         !.tvl = @ @@ (p3 :> 1), !.saved = @ @@ (p3 :> 0)]

Bad == {
  [Narrow0 EXCEPT !.coins = {}],
  [Narrow0 EXCEPT !.coins = {e1, p2}],
  [Narrow0 EXCEPT !.coins = {p1, p2} \union Denoms],
  [Narrow0 EXCEPT !.listing = <<>>, !.infos = InfosOf(<<>>)],
  [Narrow0 EXCEPT !.infos[5] = <<>>],
  [Narrow0 EXCEPT !.infos[5] = <<>>, !.coins = {e1} \union Denoms],
  [Narrow0 EXCEPT !.infos[1] = <<e2, p3, p3>>],
  [Narrow0 EXCEPT !.infos[3] = <<e1, p1>>, !.coins = {e1, e2} \union Denoms],
  [Narrow0 EXCEPT !.invalid = {p2}],
  [Narrow0 EXCEPT !.invalidInfos = {p2}],
  [Narrow0 EXCEPT !.malformed = {"uelys"}],
  [Narrow0 EXCEPT !.malformed = {"ueden", "atom"}, !.priced = {Denoms \ {"atom"}}],
  [Narrow0 EXCEPT !.malformed = {"ueden"}],
  [Narrow0 EXCEPT !.faults = {"prices"}],
  [Narrow0 EXCEPT !.faults = {"yields"}],
  [Narrow0 EXCEPT !.assets[p2] = <<"usdc", "usdc">>],
  [Narrow0 EXCEPT !.tvl[p2] = 0],
  [Narrow0 EXCEPT !.yield = <<>>],
  [Narrow0 EXCEPT !.yield = e1 :> Narrow0.yield[e1]],
  [Narrow0 EXCEPT !.weeks = <<Week(e1, 1, 0)>>],
  [Narrow0 EXCEPT !.weeks = @ \o <<Week(e2, 2, 1)>>],
  [Narrow0 EXCEPT !.weeks = <<Week(e1, 1, 1)>>],
  [Narrow0 EXCEPT !.weeks = <<Week(e1, 1, 1)>>, !.dev = TRUE],
  [Narrow0 EXCEPT !.history = @ \ {"atom"}],
  [Narrow0 EXCEPT !.priced = {{}, {"ueden"}, Denoms, Denoms \ {"usdc"}}]}

Narrow == UNION {
  {[Narrow0 EXCEPT !.outage = n, !.faults = f] :
     n \in 0..3, f \in SUBSET {"query", "silent", "volumes"}},
  Bad, {[m EXCEPT !.outage = 2, !.invalid = @ \union {e2}] : m \in Bad}}

MCMarkets == Wide \union Narrow

Parameters(weight, minTvl, maxPools, bounds) ==
  {[score |-> <<>>,
    apr |-> 1, edenWeight |-> weight, usdcWeight |-> 2 * weight, impactWeight |-> weight,
    volumeC |-> 1, ilC |-> -1, volatilityC |-> -1, tvlC |-> 1, shieldBonus |-> 2, newPoolC |-> -8,
    confidence |-> 1, holding |-> 1, reduction |-> 1, minTvl |-> minTvl, maturity |-> 30,
    maxPools |-> n, minAlloc |-> b[1], maxAlloc |-> b[2], elysMin |-> b[3]] :
     n \in maxPools, b \in bounds}

MCInputs ==
  Parameters(1, 2, 0..4, {<<8, 35, 10>>, <<15, 35, 30>>, <<0, 60, 50>>, <<10, 40, 45>>, <<40, 30, 10>>})
    \union Parameters(0, 2, {4}, {<<8, 35, 10>>}) \union Parameters(1, 0, {4}, {<<8, 35, 10>>})
=============================================================================
