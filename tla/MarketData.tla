----------------------------- MODULE MarketData -----------------------------
(***************************************************************************)
(* What RunCycle reads before it decides anything                          *)
(* (internal/avm/avm.go:157-181): the coins the vault may hold, the pools  *)
(* with all that is known of them (GetPools of internal/datafetcher) and   *)
(* the tokens (GetTokens).  Six sources are asked one after the other: the *)
(* vault, the AMM in pages, the asset profile and the prices, the hourly   *)
(* prices of every token over HTTP, the weekly volumes over HTTP, and the  *)
(* APRs.  The whole read fails when one of them fails for good.            *)
(*                                                                         *)
(* Tokens go by their denom on the chain.  The map of the tokens has each  *)
(* of them under its BaseDenom too; no BaseDenom is the denom of another   *)
(* token, so that looking up a denom of a pool finds that token.  A price  *)
(* is only there or missing: the weights computed from it are positive.    *)
(***************************************************************************)
EXTENDS Integers, Sequences, FiniteSets

CONSTANTS
  Entries,     \* denoms of the asset profile, in its order
  Usdc,        \* the denoms with the symbol "USDC"
  Skipped,     \* amm/..., stablestake/..., ueden and uedenb
  Base,        \* BaseDenom of a denom
  Markets,     \* what the sources may hold
  ThisWeek,    \* the week it is
  PageSize,    \* pageLimit of PoolAll
  MaxRetries   \* MAX_RETRIES of FetchHistoricalPriceData

\* A market is a record of
\*   coins       the AllowedCoins of the vault, a pool standing for amm/pool/<id>
\*   listing     the pools of the AMM, in its order
\*   assets      the denoms of a pool
\*   infos       the ExtraInfos of the page that begins with a pool of the listing,
\*               each as the pool it tells of
\*   tvl, saved  what an info tells: TVL and LpSavedApr
\*   invalid     the pools with data a validation refuses, as an amount of nothing
\*   invalidInfos, malformed
\*               the infos and the entries of the asset profile a validation refuses
\*   shielded    the pools with UseOracle
\*   yield       the Eden and USDC APR of the pools that have any
\*   weeks       the weekly volumes, both tokens together
\*   priced      the sets of denoms that may have a price at some moment
\*   history     the denoms with 720 hours of valid prices
\*   volatility  what CalculateVolatility makes of them
\*   outage      the requests in a row the source of the prices may fail
\*   faults      "query": a query of the node may fail, "silent": it is never
\*               answered, "volumes": the request of the volumes fails, "prices":
\*               a price is nil or of no denom, "yields": APRs of pool 0, or two
\*               of one pool
\*   dev         ENV is "dev"
ASSUME MarketAssumption ==
  /\ ThisWeek \in Int /\ PageSize \in Nat \ {0} /\ MaxRetries \in Nat \ {0}
  /\ Entries \in Seq(DOMAIN Base)
  /\ \A d, e \in DOMAIN Base : Base[d] = e => d = e
  /\ \A m \in Markets :
       /\ m.listing \in Seq({m.listing[i] : i \in DOMAIN m.listing})
       /\ m.outage \in Nat
       /\ 1 \in DOMAIN m.infos /\ DOMAIN m.infos \subseteq Nat
       /\ \A k \in DOMAIN m.infos :
            /\ m.infos[k] \in Seq(DOMAIN m.tvl)
            /\ k + PageSize <= Len(m.listing) => k + PageSize \in DOMAIN m.infos

VARIABLES
  market,      \* what the sources hold
  step,        \* where the read stands
  reader,      \* who has called GetTokens: GetPools, or RunCycle itself
  coins,       \* supportedTokens
  nextKey,     \* first pool of the next page
  fetched,     \* allPools
  infos,       \* allExtraInfos, each as the pool it tells of
  priced,      \* priceMap
  entry,       \* the entry GetTokens looks at
  attempt,     \* the request of FetchHistoricalPriceData in progress
  tokens,      \* the tokenMap read last
  volumes,     \* volumeData
  yields,      \* poolAPRs
  pools        \* the pools GetPools returns, by their position in fetched

readVars == <<reader, coins, nextKey, fetched, infos, priced, entry, attempt,
              tokens, volumes, yields, pools>>
marketVars == <<market, step, readVars>>

\* The steps of the read, and the scoring that follows it.
Steps == {"coins", "pools", "tokens", "history", "volumes", "yields", "build",
          "fetched", "scored", "failed"}

MarketInit ==
  /\ market \in Markets
  /\ step = "coins" /\ reader = "pools"
  /\ coins = {} /\ nextKey = 1
  /\ fetched = <<>> /\ infos = <<>>
  /\ priced = {} /\ entry = 1 /\ attempt = 1 /\ tokens = {}
  /\ volumes = <<>> /\ yields = <<>> /\ pools = <<>>

Refuse == step' = "failed" /\ UNCHANGED <<market, readVars>>

(***************************************************************************)
(* The queries of the node.  Only the one of the vault has a deadline: with *)
(* the others a node that keeps silent keeps the cycle, for as long as it   *)
(* likes.                                                                   *)
(***************************************************************************)

Answered == step = "coins" \/ "silent" \notin market.faults

QueryFails ==
  /\ \/ step \in {"coins", "pools", "tokens", "volumes", "yields"}
        /\ "query" \in market.faults
     \/ step = "coins" /\ "silent" \in market.faults
  /\ Refuse

\* GetTradableDenoms; an empty answer is refused.
GetTradableDenoms ==
  /\ step = "coins"
  /\ IF market.coins = {} THEN Refuse
     ELSE /\ coins' = market.coins
          /\ step' = "pools"
          /\ UNCHANGED <<market, reader, nextKey, fetched, infos, priced, entry,
                         attempt, tokens, volumes, yields, pools>>

\* filterSupportedPools: two assets that may be held, of a pool that may be held.
SupportedPool(p, held) ==
  /\ Len(market.assets[p]) = 2
  /\ p \in held
  /\ market.assets[p][1] \in held /\ market.assets[p][2] \in held

\* Mutant: the pool itself need not be allowed.
Supported_AnyPool(all) == {i \in DOMAIN all : SupportedPool(all[i], coins \union {all[i]})}

Supported(all) == {i \in DOMAIN all : SupportedPool(all[i], coins)}

LastPage == nextKey + PageSize > Len(market.listing)

\* The pools of the page that begins with the k-th.
PageAt(k) ==
  SubSeq(market.listing, k,
         IF k + PageSize > Len(market.listing) THEN Len(market.listing) ELSE k + PageSize - 1)

\* One page of PoolAll; no pool at all, or none that is supported, is refused.
\* The infos are a list of their own, as long as the node makes it.
NextPage ==
  /\ step = "pools" /\ Answered
  /\ fetched' = fetched \o PageAt(nextKey)
  /\ infos' = infos \o market.infos[nextKey]
  /\ IF ~LastPage THEN nextKey' = nextKey + PageSize /\ step' = step
     ELSE /\ nextKey' = nextKey
          /\ step' = IF Supported(fetched') = {} THEN "failed" ELSE "tokens"
  /\ UNCHANGED <<market, reader, coins, priced, entry, attempt, tokens, volumes,
                 yields, pools>>

(***************************************************************************)
(* GetTokens                                                               *)
(***************************************************************************)

\* FetchAllTokens and FetchAllTokenPrices.  Both are read in pages of 500, during
\* which a price may come and go: P is whatever the pages have told together.
FetchTokens ==
  /\ step = "tokens" /\ Answered
  /\ \E P \in market.priced :
       IF P = {} \/ "prices" \in market.faults THEN Refuse
       ELSE /\ priced' = P
            /\ entry' = 1 /\ attempt' = 1 /\ tokens' = {}
            /\ step' = "history"
            /\ UNCHANGED <<market, reader, coins, nextKey, fetched, infos, volumes,
                           yields, pools>>

Token == Entries[entry]

\* Mutant: ueden and uedenb are not skipped.
Wanted_All == entry <= Len(Entries) /\ Token \in priced \ market.malformed

Wanted == entry <= Len(Entries) /\ Token \in priced \ (Skipped \union market.malformed)

Advance(read) ==
  /\ step = "history"
  /\ tokens' = read /\ entry' = entry + 1 /\ attempt' = 1
  /\ UNCHANGED <<market, step, reader, coins, nextKey, fetched, infos, priced,
                 volumes, yields, pools>>

\* validateTokenMetadata, of every entry that is not skipped, priced or not: one
\* that is refused ends the read.
RefuseToken ==
  /\ step = "history" /\ entry <= Len(Entries)
  /\ Token \in market.malformed \ Skipped
  /\ Refuse

\* By its name, or for want of a price.
SkipToken ==
  /\ entry <= Len(Entries)
  /\ Token \in Skipped \/ Token \notin priced \union market.malformed
  /\ Advance(tokens)

\* processAPIResponse accepts nothing but 30 full days of valid prices.
HistoryFound == Wanted /\ Token \in market.history /\ Advance(tokens \union {Token})

\* Mutant: the last request is not sent.
HistoryFails_Early ==
  /\ step = "history" /\ Wanted
  /\ attempt <= market.outage \/ Token \notin market.history
  /\ IF attempt + 1 < MaxRetries
     THEN /\ attempt' = attempt + 1
          /\ UNCHANGED <<market, step, reader, coins, nextKey, fetched, infos, priced,
                         entry, tokens, volumes, yields, pools>>
     ELSE Refuse

\* A request that fails is sent again, MaxRetries times in all; without the
\* prices of one token there are no tokens.
HistoryFails ==
  /\ step = "history" /\ Wanted
  /\ attempt <= market.outage \/ Token \notin market.history
  /\ IF attempt < MaxRetries
     THEN /\ attempt' = attempt + 1
          /\ UNCHANGED <<market, step, reader, coins, nextKey, fetched, infos, priced,
                         entry, tokens, volumes, yields, pools>>
     ELSE Refuse

\* Back to GetPools, or to RunCycle.
TokensRead ==
  /\ step = "history" /\ entry > Len(Entries)
  /\ IF tokens = {} THEN Refuse
     ELSE /\ step' = IF reader = "pools" THEN "volumes" ELSE "fetched"
          /\ UNCHANGED <<market, readVars>>

(***************************************************************************)
(* Volumes, APRs and the pools themselves                                  *)
(***************************************************************************)

\* validateVolumeDataEntry: some volume, not in the future, not a year ago.
Traded(weeks) ==
  {i \in DOMAIN weeks : weeks[i].volume > 0 /\ weeks[i].week \in ThisWeek - 52..ThisWeek}

Duplicates(weeks) ==
  \E i, j \in Traded(weeks) :
    i # j /\ weeks[i].pool = weeks[j].pool /\ weeks[i].week = weeks[j].week

\* The most recent week in which the pool has traded at all.
Latest(weeks, p) ==
  CHOOSE i \in Traded(weeks) :
    /\ weeks[i].pool = p
    /\ \A j \in Traded(weeks) : weeks[j].pool = p => weeks[j].week <= weeks[i].week

\* GetWeeklyVolumeByPool: one request, over HTTP; the asset profile has been
\* read a second time before it.
FetchVolumes ==
  /\ step = "volumes" /\ Answered
  /\ LET weeks == market.weeks
     IN  IF Traded(weeks) = {} \/ Duplicates(weeks) THEN Refuse
         ELSE /\ volumes' = [p \in {weeks[i].pool : i \in Traded(weeks)} |->
                               weeks[Latest(weeks, p)].volume]
              /\ step' = "yields"
              /\ UNCHANGED <<market, reader, coins, nextKey, fetched, infos, priced,
                             entry, attempt, tokens, yields, pools>>

VolumesFail ==
  /\ step = "volumes"
  /\ "volumes" \in market.faults
  /\ Refuse

\* getPoolAPRs, which refuses an APR of pool 0 and a second one of a pool.
FetchYields ==
  /\ step = "yields" /\ Answered
  /\ IF DOMAIN market.yield = {} \/ "yields" \in market.faults THEN Refuse
     ELSE /\ yields' = market.yield
          /\ step' = "build"
          /\ UNCHANGED <<market, reader, coins, nextKey, fetched, infos, priced, entry,
                         attempt, tokens, volumes, pools>>

\* Mutant: by the position among the supported pools.
InfoOf_Position(i) == infos[Cardinality({j \in Supported(fetched) : j <= i})]

\* filterSupportedPools keeps the info at the place of the pool.
InfoOf(i) == infos[i]

\* validateAMMPool and validatePoolAPR, of a pool, and validatePoolExtraInfo, of
\* whatever info stands at its place.
Sane(p, info) == p \notin market.invalid /\ info \notin market.invalidInfos

\* validateFinalPool compares the BaseDenoms of the tokens.
TwoTokens(p) == Base[market.assets[p][1]] # Base[market.assets[p][2]]

\* A pool that is refused refuses all of them: besides the validations, its
\* tokens, its APRs and its volume are looked up.
Buildable(i) ==
  LET p == fetched[i]
  IN  /\ Sane(p, InfoOf(i)) /\ TwoTokens(p)
      /\ {market.assets[p][1], market.assets[p][2]} \subseteq tokens
      /\ p \in DOMAIN yields
      /\ p \in DOMAIN volumes \/ market.dev

\* Mutant: USDC stays where it is.
Build_NotSwapped(i) ==
  LET p == fetched[i]
      denoms == market.assets[p]
      info == InfoOf(i)
  IN  [id |-> p, tokenA |-> denoms[1], tokenB |-> denoms[2],
       balanceA |-> denoms[1], balanceB |-> denoms[2],
       tvl |-> market.tvl[info], saved |-> market.saved[info],
       eden |-> yields[p].eden, usdc |-> yields[p].usdc,
       volume |-> IF p \in DOMAIN volumes THEN volumes[p] ELSE 1,
       shielded |-> p \in market.shielded,
       volatility |-> market.volatility[denoms[1]]]

\* A pool with its tokens, USDC never first, and its balances, each named by the
\* denom it is an amount of.
Build(i) ==
  LET p == fetched[i]
      denoms == market.assets[p]
      a == IF denoms[1] \in Usdc THEN 2 ELSE 1
      b == 3 - a
      info == InfoOf(i)
  IN  [id |-> p, tokenA |-> denoms[a], tokenB |-> denoms[b],
       balanceA |-> denoms[a], balanceB |-> denoms[b],
       tvl |-> market.tvl[info], saved |-> market.saved[info],
       eden |-> yields[p].eden, usdc |-> yields[p].usdc,
       volume |-> IF p \in DOMAIN volumes THEN volumes[p] ELSE 1,
       shielded |-> p \in market.shielded,
       volatility |-> market.volatility[denoms[a]]]

\* All supported pools, or none: the infos must be as many as the pools that are
\* kept, that is reach to the last of them.  Then RunCycle reads the tokens once
\* more.
BuildPools ==
  /\ step = "build"
  /\ LET kept == Supported(fetched)
     IN  IF \E i \in kept : i \notin DOMAIN infos \/ ~Buildable(i) THEN Refuse
         ELSE /\ pools' = [i \in kept |-> Build(i)]
              /\ reader' = "cycle" /\ step' = "tokens"
              /\ UNCHANGED <<market, coins, nextKey, fetched, infos, priced, entry,
                             attempt, tokens, volumes, yields>>

(***************************************************************************)
(* Specification                                                           *)
(***************************************************************************)

ReadStep ==
  \/ GetTradableDenoms \/ NextPage
  \/ FetchTokens \/ RefuseToken \/ SkipToken \/ HistoryFound \/ HistoryFails \/ TokensRead
  \/ FetchVolumes \/ VolumesFail \/ FetchYields \/ BuildPools
  \/ QueryFails

\* The cycle is over, or waits for a node that keeps silent.
Stopped == step = "failed" \/ (~Answered /\ step \in {"pools", "tokens", "volumes", "yields"})

MarketNext == ReadStep \/ (Stopped /\ UNCHANGED marketVars)

MarketSpec == MarketInit /\ [][MarketNext]_marketVars /\ WF_marketVars(ReadStep)

(***************************************************************************)
(* Properties                                                              *)
(***************************************************************************)

\* The values the variables take while the sources are read
\* (PoolRetriever.go:28-447, Tokens.go:29-203).
MarketTypeOK ==
  /\ step \in Steps /\ reader \in {"pools", "cycle"}
  /\ coins \subseteq market.coins
  /\ nextKey \in 1..Len(market.listing) + PageSize
  /\ entry \in 1..Len(Entries) + 1 /\ attempt \in 1..MaxRetries
  /\ tokens \subseteq priced \ Skipped
  /\ DOMAIN pools \subseteq DOMAIN fetched

\* The pools the vault may invest in.
Investable ==
  {p \in {market.listing[i] : i \in DOMAIN market.listing} : SupportedPool(p, market.coins)}

\* All pools the vault may invest in are read, on whatever page, and no other:
\* one that is missing would be left by the planner, or abort its plan
\* (PoolRetriever.go:67-119, 520-567).
InvestableRead == step = "fetched" => {pools[i].id : i \in DOMAIN pools} = Investable

\* What a pool has traded in its last week with any volume: one number.
LastVolumes(p) ==
  LET own == {i \in Traded(market.weeks) : market.weeks[i].pool = p}
  IN  IF own = {} THEN {1}
      ELSE {market.weeks[i].volume :
              i \in {j \in own : \A k \in own : market.weeks[k].week <= market.weeks[j].week}}

\* The pages up to the one with the i-th pool tell of their pools, in their order.
Told(i) == \A k \in DOMAIN market.infos : k <= i => market.infos[k] = PageAt(k)

\* All pages do.
Parallel == Told(Len(market.listing))

OfInfo(q, info) == q.tvl = market.tvl[info] /\ q.saved = market.saved[info]

\* A pool with what is its own, the extra info apart.
OwnData(q) ==
  LET denoms == market.assets[q.id]
  IN  /\ q.id \in DOMAIN market.yield
      /\ q.eden = market.yield[q.id].eden /\ q.usdc = market.yield[q.id].usdc
      /\ q.volume \in LastVolumes(q.id)
      /\ q.shielded = (q.id \in market.shielded)
      /\ {q.tokenA, q.tokenB} = {denoms[1], denoms[2]}
      /\ q.tokenA \in Usdc => q.tokenB \in Usdc
      /\ q.balanceA = q.tokenA /\ q.balanceB = q.tokenB
      /\ q.volatility = market.volatility[q.tokenA]

\* Pages, filter, positions and swaps leave every pool with what is its own: its
\* APRs, the volatility of its token that is not USDC, its volume, with every
\* balance the token it is an amount of, and its TVL and the APR of its rewards
\* if the infos up to its page are in the order of the pools: infos that are
\* missing or too many on a later page do not spoil it
\* (PoolRetriever.go:67-119, 179-447, 520-567).
DataPaired ==
  step = "fetched" =>
    \A i \in DOMAIN pools :
      /\ OwnData(pools[i])
      /\ Told(i) => OfInfo(pools[i], pools[i].id)

\* Nothing is wrong with what the cycle needs; the prices of a token may fail to
\* come, fewer than MaxRetries times in a row.
Sound ==
  /\ market.faults = {} /\ market.outage < MaxRetries
  /\ Parallel /\ Investable # {}
  /\ \A i \in DOMAIN Entries : Entries[i] \notin market.malformed \ Skipped
  /\ \A P \in market.priced :
       LET read == (P \ Skipped) \intersect {Entries[i] : i \in DOMAIN Entries}
       IN  /\ read # {} /\ read \subseteq market.history
           /\ \A p \in Investable : {market.assets[p][1], market.assets[p][2]} \subseteq read
  /\ Traded(market.weeks) # {} /\ ~Duplicates(market.weeks)
  /\ \A p \in Investable :
       /\ Sane(p, p) /\ TwoTokens(p) /\ p \in DOMAIN market.yield
       /\ market.dev \/ \E i \in Traded(market.weeks) : market.weeks[i].pool = p

\* The read completes when nothing is wrong: it is not lost to requests that fail
\* less often in a row than they are repeated (HourlyPrice.go:164-223), to tokens
\* without a price, or to pools the vault may not hold.
SoundMarketRead == Sound => <>(step = "fetched")
=============================================================================
