-------------------------- MODULE MarketData_proofs --------------------------
(***************************************************************************)
(* Theorems about MarketData, for all markets, tokens, page sizes and      *)
(* numbers of retries.                                                     *)
(***************************************************************************)
EXTENDS MarketData, SequenceTheorems, WellFoundedInduction, TLAPS

-----------------------------------------------------------------------------
\* The inductive invariant

Listed == {market.listing[i] : i \in DOMAIN market.listing}

\* What has been fetched are the first pools of the listing; pages leave no gap
\* and repeat nothing, and each info is at the place of its pool as far as the
\* pages told of their pools.
PagesInv ==
  /\ infos \in Seq(DOMAIN market.tvl)
  /\ step \in {"coins", "pools"} =>
       nextKey \in DOMAIN market.infos /\ (Told(Len(fetched)) => infos = fetched)
  /\ \A i \in 1..Len(fetched) : Told(i) => i \in 1..Len(infos) /\ infos[i] = fetched[i]
  /\ fetched \in Seq(Listed) /\ Len(fetched) <= Len(market.listing)
  /\ \A i \in 1..Len(fetched) : fetched[i] = market.listing[i]
  /\ step \in {"coins", "pools"} => Len(fetched) = nextKey - 1
  /\ step \notin {"coins", "pools", "failed"} => Len(fetched) = Len(market.listing)

\* What the sources have answered by the step the read stands at.
VolumesRead ==
  volumes = [p \in {market.weeks[i].pool : i \in Traded(market.weeks)} |->
               market.weeks[Latest(market.weeks, p)].volume]

SourcesInv ==
  /\ step \notin {"coins", "failed"} => coins = market.coins
  /\ reader = "pools" => step \notin {"fetched", "scored"} /\ pools = <<>>
  /\ reader = "cycle" => step \in {"tokens", "history", "fetched", "scored", "failed"}
  /\ step \in {"yields", "build"} => VolumesRead
  /\ step = "build" => yields = market.yield

\* The pools are right from the moment they are built.
BuiltInv ==
  reader = "cycle" =>
    /\ {pools[i].id : i \in DOMAIN pools} = Investable
    /\ \A i \in DOMAIN pools :
         /\ OwnData(pools[i])
         /\ \E info \in DOMAIN market.tvl : OfInfo(pools[i], info)
         /\ Told(i) => OfInfo(pools[i], pools[i].id)

MarketInv ==
  /\ market \in Markets
  /\ MarketTypeOK /\ PagesInv /\ SourcesInv /\ BuiltInv

\* With a sound market: the history of every token looked at so far is there,
\* the pools are built with all the tokens that have any, and nothing has been
\* refused.
TokensOf(P) == (P \ Skipped) \intersect {Entries[i] : i \in 1..entry - 1}

SoundSoFar ==
  Sound =>
    /\ step # "failed"
    /\ step = "history" => priced \in market.priced /\ tokens = TokensOf(priced)
    /\ step \in {"volumes", "yields", "build"} =>
         \A p \in Investable : {market.assets[p][1], market.assets[p][2]} \subseteq tokens

-----------------------------------------------------------------------------
\* Lemmas

\* A listing is a sequence of its pools.
LEMMA ListingType ==
  ASSUME market \in Markets
  PROVE  /\ market.listing \in Seq(Listed) /\ Len(market.listing) \in Nat
         /\ DOMAIN market.listing = 1..Len(market.listing)
         /\ PageSize \in Nat \ {0} /\ MaxRetries \in Nat \ {0}
         /\ Len(Entries) \in Nat
<1>1. market.listing \in Seq(Listed) /\ Entries \in Seq(DOMAIN Base)
  BY MarketAssumption DEF Listed
<1> QED
  BY <1>1, MarketAssumption, LenProperties

\* What is kept of the pages by every step leaves what is said of them.
LEMMA SameListing ==
  ASSUME market' = market
  PROVE  /\ Listed' = Listed /\ Investable' = Investable
         /\ \A i : Told(i)' = Told(i)
         /\ \A q : OwnData(q)' = OwnData(q)
         /\ \A q, info : OfInfo(q, info)' = OfInfo(q, info)
<1>1. Listed' = Listed /\ Investable' = Investable
  BY DEF Listed, Investable, SupportedPool
<1>2. \A i : Told(i)' = Told(i)
  BY DEF Told, PageAt
<1>3. \A q : OwnData(q)' = OwnData(q)
  BY DEF OwnData, LastVolumes
<1>4. \A q, info : OfInfo(q, info)' = OfInfo(q, info)
  BY DEF OfInfo
<1> QED
  BY <1>1, <1>2, <1>3, <1>4

\* The infos of a market: those of the pages, and those of the listing.
LEMMA InfosType ==
  ASSUME market \in Markets
  PROVE  /\ 1 \in DOMAIN market.infos /\ DOMAIN market.infos \subseteq Nat
         /\ \A k \in DOMAIN market.infos :
              /\ market.infos[k] \in Seq(DOMAIN market.tvl)
              /\ k + PageSize <= Len(market.listing) => k + PageSize \in DOMAIN market.infos
BY MarketAssumption

\* If the pages told up to a place, they did up to any place before it.
LEMMA ToldBefore ==
  ASSUME market \in Markets, NEW i \in Int, NEW j \in Int, j <= i, Told(i)
  PROVE  Told(j)
<1>1. \A k \in DOMAIN market.infos : k \in Nat
  BY InfosType
<1> QED
  BY <1>1 DEF Told

\* A set of numbers with an upper bound has a greatest one.
LEMMA Greatest ==
  ASSUME NEW S, S # {}, NEW B \in Int, \A n \in S : n \in Int /\ n <= B
  PROVE  \E n \in S : \A m \in S : m <= n
<1> DEFINE T == {B - n : n \in S}
<1>1. T \subseteq Nat /\ T # {}
  OBVIOUS
<1>2. PICK t \in T : \A u \in T : ~ (<<u, t>> \in OpToRel(<, Nat))
  BY <1>1, WFMin, NatLessThanWellFounded, Zenon
<1>3. \A u \in T : u \in Nat /\ t \in Nat /\ ~ (u < t)
  BY <1>1, <1>2 DEF OpToRel
<1>4. PICK n \in S : t = B - n
  OBVIOUS
<1>5. \A m \in S : m <= n
  BY <1>3, <1>4
<1> QED
  BY <1>5

\* Among the weeks a pool has traded in there is a last one, and its volume is
\* the one that is read.
LEMMA LatestIsLast ==
  ASSUME MarketInv, NEW p \in {market.weeks[i].pool : i \in Traded(market.weeks)}
  PROVE  market.weeks[Latest(market.weeks, p)].volume \in LastVolumes(p)
<1> DEFINE own == {i \in Traded(market.weeks) : market.weeks[i].pool = p}
           S == {market.weeks[i].week : i \in own}
<1>0. ThisWeek \in Int
  BY MarketAssumption
<1>1. S # {} /\ \A n \in S : n \in Int /\ n <= ThisWeek
  BY <1>0 DEF Traded
<1>2. PICK n \in S : \A m \in S : m <= n
  BY <1>0, <1>1, Greatest
<1>3. PICK i \in own : market.weeks[i].week = n
  OBVIOUS
<1>4. /\ i \in Traded(market.weeks) /\ market.weeks[i].pool = p
      /\ \A j \in Traded(market.weeks) :
           market.weeks[j].pool = p => market.weeks[j].week <= market.weeks[i].week
  BY <1>2, <1>3
<1> DEFINE l == Latest(market.weeks, p)
<1>5. /\ l \in Traded(market.weeks) /\ market.weeks[l].pool = p
      /\ \A j \in Traded(market.weeks) :
           market.weeks[j].pool = p => market.weeks[j].week <= market.weeks[l].week
  BY <1>4 DEF Latest
<1>6. own # {} /\ l \in {j \in own : \A k \in own : market.weeks[k].week <= market.weeks[j].week}
  BY <1>5
<1> QED
  BY <1>6 DEF LastVolumes

\* One page more: the first pools of the listing, as far as the page goes.
LEMMA PageNext ==
  ASSUME MarketInv, step = "pools"
  PROVE  LET last == IF LastPage THEN Len(market.listing) ELSE nextKey + PageSize - 1
         IN  /\ fetched \o PageAt(nextKey) \in Seq(Listed)
             /\ Len(fetched \o PageAt(nextKey)) = last /\ last <= Len(market.listing)
             /\ \A i \in 1..last : (fetched \o PageAt(nextKey))[i] = market.listing[i]
             /\ ~LastPage => last = (nextKey + PageSize) - 1
<1> DEFINE last == IF LastPage THEN Len(market.listing) ELSE nextKey + PageSize - 1
           Page == PageAt(nextKey)
<1>1. /\ market.listing \in Seq(Listed) /\ Len(market.listing) \in Nat
      /\ DOMAIN market.listing = 1..Len(market.listing) /\ PageSize \in Nat \ {0}
  BY ListingType DEF MarketInv
<1>2. /\ Len(fetched) = nextKey - 1 /\ Len(fetched) <= Len(market.listing)
      /\ fetched \in Seq(Listed) /\ nextKey \in Nat /\ Len(fetched) \in Nat
      /\ \A i \in 1..Len(fetched) : fetched[i] = market.listing[i]
  BY <1>1 DEF MarketInv, PagesInv, MarketTypeOK
<1>3. /\ last \in Int /\ nextKey - 1 <= last /\ last <= Len(market.listing)
      /\ ~LastPage => last = (nextKey + PageSize) - 1
  BY <1>1, <1>2 DEF LastPage
<1>4. \A i \in nextKey..last : market.listing[i] \in Listed
  BY <1>1, <1>2, <1>3 DEF Listed
<1>5. /\ Page \in Seq(Listed)
      /\ Len(Page) = IF nextKey <= last THEN last - nextKey + 1 ELSE 0
      /\ \A i \in 1..last - nextKey + 1 : Page[i] = market.listing[nextKey + i - 1]
  <2> DEFINE s == market.listing
  <2> HIDE DEF s
  <2>1. \A i \in nextKey..last : s[i] \in Listed
    BY <1>4 DEF s
  <2>2. nextKey \in Int
    BY <1>2
  <2> HIDE DEF last
  <2>3. /\ SubSeq(s, nextKey, last) \in Seq(Listed)
        /\ Len(SubSeq(s, nextKey, last)) = IF nextKey <= last THEN last - nextKey + 1 ELSE 0
        /\ \A i \in 1..last - nextKey + 1 : SubSeq(s, nextKey, last)[i] = s[nextKey + i - 1]
    BY <2>1, <2>2, <1>3, SubSeqProperties
  <2> QED
    BY <2>3 DEF PageAt, LastPage, s, last
<1> HIDE DEF last, Page
<1>6. Len(Page) = last - nextKey + 1
  BY <1>2, <1>3, <1>5
<1>7. /\ fetched \o Page \in Seq(Listed)
      /\ Len(fetched \o Page) = Len(fetched) + Len(Page)
      /\ \A i \in 1..Len(fetched) + Len(Page) :
           (fetched \o Page)[i] = IF i <= Len(fetched) THEN fetched[i] ELSE Page[i - Len(fetched)]
  BY <1>2, <1>5, ConcatProperties
<1>8. Len(fetched \o Page) = last
  BY <1>2, <1>3, <1>6, <1>7
<1>9. ASSUME NEW i \in 1..last
      PROVE  (fetched \o Page)[i] = market.listing[i]
  <2>1. CASE i <= Len(fetched)
    BY <2>1, <1>2, <1>3, <1>6, <1>7
  <2>2. CASE i > Len(fetched)
    <3>1. (fetched \o Page)[i] = Page[i - Len(fetched)]
      BY <2>2, <1>2, <1>3, <1>6, <1>7
    <3>2. i - Len(fetched) \in 1..last - nextKey + 1 /\ nextKey + (i - Len(fetched)) - 1 = i
      BY <2>2, <1>2, <1>3
    <3> QED
      BY <3>1, <3>2, <1>5
  <2>3. i \in Int /\ Len(fetched) \in Int
    BY <1>2, <1>3
  <2>4. i <= Len(fetched) \/ i > Len(fetched)
    BY <2>3
  <2> QED
    BY <2>1, <2>2, <2>4
<1> QED
  BY <1>3, <1>7, <1>8, <1>9 DEF last, Page

\* The infos of the page join those of the pages before.
LEMMA InfosNext ==
  ASSUME MarketInv, step = "pools",
         NEW new, new = fetched \o PageAt(nextKey)
  PROVE  LET read == infos \o market.infos[nextKey]
         IN  /\ read \in Seq(DOMAIN market.tvl)
             /\ nextKey <= Len(new) /\ Told(Len(new)) => read = new
             /\ \A i \in 1..Len(new) : Told(i) => i \in 1..Len(read) /\ read[i] = new[i]
<1> DEFINE read == infos \o market.infos[nextKey]
<1>1. /\ infos \in Seq(DOMAIN market.tvl) /\ nextKey \in DOMAIN market.infos
      /\ Told(Len(fetched)) => infos = fetched
      /\ \A i \in 1..Len(fetched) : Told(i) => i \in 1..Len(infos) /\ infos[i] = fetched[i]
      /\ Len(fetched) = nextKey - 1 /\ fetched \in Seq(Listed)
  BY DEF MarketInv, PagesInv
<1>2. market \in Markets
  BY DEF MarketInv
<1>3. nextKey \in Nat /\ market.infos[nextKey] \in Seq(DOMAIN market.tvl)
  BY <1>1, <1>2, InfosType
<1>4. /\ read \in Seq(DOMAIN market.tvl)
      /\ Len(read) = Len(infos) + Len(market.infos[nextKey])
      /\ \A i \in 1..Len(infos) + Len(market.infos[nextKey]) :
           read[i] = IF i <= Len(infos) THEN infos[i] ELSE market.infos[nextKey][i - Len(infos)]
  BY <1>1, <1>3, ConcatProperties
<1>5. Len(infos) \in Nat /\ Len(market.infos[nextKey]) \in Nat /\ Len(fetched) \in Nat
  BY <1>1, <1>3, LenProperties
<1>6. ASSUME NEW i \in 1..Len(new), nextKey <= i, Told(i)
      PROVE  read = new
  <2>1. Told(Len(fetched))
    BY <1>1, <1>2, <1>3, <1>5, <1>6, ToldBefore
  <2>2. market.infos[nextKey] = PageAt(nextKey)
    BY <1>1, <1>6 DEF Told
  <2> QED
    BY <1>1, <2>1, <2>2
<1>7. /\ Len(new) \in Nat
      /\ \A i \in 1..Len(new) : new[i] = market.listing[i]
      /\ \A i \in 1..Len(fetched) : fetched[i] = market.listing[i]
  BY PageNext, LenProperties DEF MarketInv, PagesInv
<1>8. nextKey <= Len(new) /\ Told(Len(new)) => read = new
  BY <1>1, <1>3, <1>5, <1>6, <1>7
<1>9. ASSUME NEW i \in 1..Len(new), Told(i)
      PROVE  i \in 1..Len(read) /\ read[i] = new[i]
  <2>1. CASE nextKey <= i
    <3>1. read = new
      BY <1>6, <1>9, <2>1
    <3> QED
      BY <3>1
  <2>2. CASE i < nextKey
    <3>1. i \in 1..Len(fetched)
      BY <1>1, <1>3, <2>2
    <3>2. i \in 1..Len(infos) /\ infos[i] = fetched[i]
      BY <1>1, <1>9, <3>1
    <3>3. i \in 1..Len(read) /\ read[i] = infos[i]
      BY <1>4, <1>5, <3>2
    <3>4. new[i] = fetched[i]
      BY <1>1, <1>7, <3>1
    <3> QED
      BY <3>2, <3>3, <3>4
  <2> QED
    BY <1>3, <2>1, <2>2
<1> HIDE DEF read
<1> QED
  BY <1>4, <1>8, <1>9 DEF read

\* What is built is the supported pools, each with its own data, and with those
\* of an info.
LEMMA BuildIsOwn ==
  ASSUME MarketInv, step = "build",
         \A i \in Supported(fetched) : i \in DOMAIN infos /\ Buildable(i),
         NEW i \in Supported(fetched)
  PROVE  /\ Build(i).id = fetched[i] /\ OwnData(Build(i))
         /\ \E info \in DOMAIN market.tvl : OfInfo(Build(i), info)
         /\ Told(i) => OfInfo(Build(i), fetched[i])
<1> DEFINE p == fetched[i]
           q == Build(i)
<1>1. yields = market.yield /\ VolumesRead
  BY DEF MarketInv, SourcesInv
<1>2. q.id = p
  BY DEF Build
<1>3. /\ p \in DOMAIN market.yield
      /\ q.eden = market.yield[p].eden /\ q.usdc = market.yield[p].usdc
      /\ q.shielded = (p \in market.shielded)
  BY <1>1 DEF Build, Buildable
<1>4. q.volume \in LastVolumes(p)
  <2>1. CASE p \in DOMAIN volumes
    <3>1. q.volume = volumes[p]
      BY <2>1 DEF Build
    <3>2. p \in {market.weeks[j].pool : j \in Traded(market.weeks)}
      BY <2>1, <1>1 DEF VolumesRead
    <3>3. volumes[p] = market.weeks[Latest(market.weeks, p)].volume
      BY <3>2, <1>1 DEF VolumesRead
    <3> QED
      BY <3>1, <3>2, <3>3, LatestIsLast
  <2>2. CASE p \notin DOMAIN volumes
    <3>1. q.volume = 1
      BY <2>2 DEF Build
    <3>2. {j \in Traded(market.weeks) : market.weeks[j].pool = p} = {}
      BY <2>2, <1>1 DEF VolumesRead
    <3> QED
      BY <3>1, <3>2 DEF LastVolumes
  <2> QED
    BY <2>1, <2>2
<1>5. /\ {q.tokenA, q.tokenB} = {market.assets[p][1], market.assets[p][2]}
      /\ q.tokenA \in Usdc => q.tokenB \in Usdc
      /\ q.balanceA = q.tokenA /\ q.balanceB = q.tokenB
      /\ q.volatility = market.volatility[q.tokenA]
  <2>1. CASE market.assets[p][1] \in Usdc
    BY <2>1 DEF Build
  <2>2. CASE market.assets[p][1] \notin Usdc
    BY <2>2 DEF Build
  <2> QED
    BY <2>1, <2>2
<1>6. OfInfo(q, infos[i])
  BY DEF OfInfo, Build, InfoOf
<1>7. infos[i] \in DOMAIN market.tvl
  <2>1. infos \in Seq(DOMAIN market.tvl) /\ i \in DOMAIN infos
    BY DEF MarketInv, PagesInv
  <2> QED
    BY <2>1, ElementOfSeq, LenProperties
<1>8. Told(i) => infos[i] = p
  <2>1. i \in 1..Len(fetched)
    BY LenProperties DEF Supported, MarketInv, PagesInv
  <2> QED
    BY <2>1 DEF MarketInv, PagesInv
<1> QED
  BY <1>2, <1>3, <1>4, <1>5, <1>6, <1>7, <1>8 DEF OwnData

\* The supported pools of all that has been fetched are those that may be held.
LEMMA SupportedAreInvestable ==
  ASSUME MarketInv, step = "build"
  PROVE  {fetched[i] : i \in Supported(fetched)} = Investable
<1>1. /\ coins = market.coins /\ Len(fetched) = Len(market.listing)
      /\ fetched \in Seq(Listed)
      /\ \A i \in 1..Len(fetched) : fetched[i] = market.listing[i]
  BY DEF MarketInv, PagesInv, SourcesInv
<1>2. DOMAIN fetched = 1..Len(fetched) /\ DOMAIN market.listing = 1..Len(market.listing)
  BY <1>1, ListingType, LenProperties DEF MarketInv
<1>3. \A i \in DOMAIN fetched : fetched[i] = market.listing[i]
  BY <1>1, <1>2
<1>4. DOMAIN fetched = DOMAIN market.listing
  BY <1>1, <1>2
<1> QED
  BY <1>1, <1>3, <1>4 DEF Supported, Investable

LEMMA MarketInvInit == MarketInit => MarketInv
<1> SUFFICES ASSUME MarketInit PROVE MarketInv
  OBVIOUS
<1> USE DEF MarketInit
<1>1. market \in Markets
  OBVIOUS
<1>2. Len(<<>>) = 0 /\ DOMAIN <<>> = {} /\ <<>> \in Seq(Listed)
  OBVIOUS
<1>3. MarketTypeOK
  BY <1>1, ListingType DEF MarketTypeOK, Steps
<1>4. PagesInv
  <2>1. infos \in Seq(DOMAIN market.tvl) /\ nextKey \in DOMAIN market.infos
    BY <1>1, InfosType
  <2> QED
    BY <1>1, <1>2, <2>1, ListingType DEF PagesInv
<1> QED
  BY <1>1, <1>3, <1>4 DEF MarketInv, SourcesInv, BuiltInv

\* A step that leaves the market, the pages and the pools alone keeps what they
\* say.
LEMMA SameRead ==
  ASSUME MarketInv, UNCHANGED <<market, nextKey, fetched, infos, pools, reader>>,
         step \in {"coins", "pools"} <=> step' \in {"coins", "pools"},
         step = "failed" => step' = "failed"
  PROVE  PagesInv' /\ BuiltInv'
<1>1. PagesInv'
  BY SameListing DEF MarketInv, PagesInv
<1>2. BuiltInv'
  BY SameListing DEF MarketInv, BuiltInv
<1> QED
  BY <1>1, <1>2

\* A read that is given up keeps what it has.
LEMMA RefuseKeeps == ASSUME MarketInv, Refuse PROVE MarketInv'
<1> USE DEF Refuse, readVars
<1>1. MarketTypeOK'
  BY DEF MarketInv, MarketTypeOK, Steps
<1>2. PagesInv'
  BY SameListing DEF MarketInv, PagesInv
<1>3. SourcesInv'
  BY DEF MarketInv, SourcesInv
<1>4. BuiltInv'
  BY SameListing DEF MarketInv, BuiltInv
<1> QED
  BY <1>1, <1>2, <1>3, <1>4 DEF MarketInv

\* The last page, or one more.
LEMMA NextPageKeeps == ASSUME MarketInv, NextPage PROVE MarketInv'
<1> DEFINE last == IF LastPage THEN Len(market.listing) ELSE nextKey + PageSize - 1
<1>1. /\ step = "pools" /\ market' = market /\ fetched' = fetched \o PageAt(nextKey)
      /\ infos' = infos \o market.infos[nextKey]
  BY DEF NextPage
<1>2. /\ fetched' \in Seq(Listed) /\ Len(fetched') = last /\ last <= Len(market.listing)
      /\ \A i \in 1..last : fetched'[i] = market.listing[i]
      /\ ~LastPage => last = (nextKey + PageSize) - 1
  BY <1>1, PageNext
<1>3. /\ infos' \in Seq(DOMAIN market.tvl)
      /\ nextKey <= Len(fetched') /\ Told(Len(fetched')) => infos' = fetched'
      /\ \A i \in 1..Len(fetched') :
           Told(i) => i \in 1..Len(infos') /\ infos'[i] = fetched'[i]
  BY <1>1, InfosNext
<1>4. Listed' = Listed /\ \A i : Told(i)' = Told(i)
  BY <1>1, SameListing
<1>5. /\ IF LastPage THEN nextKey' = nextKey /\ step' \in {"failed", "tokens"}
         ELSE nextKey' = nextKey + PageSize /\ step' = step
      /\ UNCHANGED <<market, reader, coins, priced, entry, attempt, tokens, volumes,
                     yields, pools>>
  BY DEF NextPage
<1>6. reader = "pools" /\ pools = <<>>
  BY <1>1 DEF MarketInv, SourcesInv, MarketTypeOK
<1>7. PagesInv'
  <2>1. CASE LastPage
    BY <2>1, <1>1, <1>2, <1>3, <1>4, <1>5 DEF PagesInv
  <2>2. CASE ~LastPage
    <3>1. nextKey \in DOMAIN market.infos /\ nextKey \in Nat /\ PageSize \in Nat \ {0}
          /\ Len(market.listing) \in Nat /\ market \in Markets
      BY <1>1, ListingType, InfosType DEF MarketInv, PagesInv
    <3>2. nextKey + PageSize <= Len(market.listing)
      BY <2>2, <3>1 DEF LastPage
    <3>3. nextKey' \in DOMAIN market.infos
      BY <2>2, <1>5, <3>1, <3>2, InfosType
    <3>4. nextKey <= Len(fetched')
      BY <1>2, <2>2, <3>1
    <3>5. Told(Len(fetched')) => infos' = fetched'
      BY <1>3, <3>4
    <3> QED
      BY <2>2, <1>1, <1>2, <1>3, <1>4, <1>5, <3>3, <3>5 DEF PagesInv
  <2> QED
    BY <2>1, <2>2
<1>8. nextKey' \in 1..Len(market.listing) + PageSize
  BY <1>5, ListingType DEF MarketInv, MarketTypeOK, LastPage
<1>9. MarketTypeOK'
  BY <1>1, <1>5, <1>6, <1>8 DEF MarketInv, MarketTypeOK, Steps
<1>10. SourcesInv' /\ BuiltInv'
  BY <1>1, <1>5, <1>6 DEF MarketInv, SourcesInv, BuiltInv
<1> QED
  BY <1>5, <1>7, <1>9, <1>10 DEF MarketInv

\* The pools are built from all that has been read.
LEMMA BuildPoolsKeeps == ASSUME MarketInv, BuildPools PROVE MarketInv'
<1>1. CASE \E i \in Supported(fetched) : i \notin DOMAIN infos \/ ~Buildable(i)
  BY <1>1, RefuseKeeps DEF BuildPools
<1>2. CASE ~ \E i \in Supported(fetched) : i \notin DOMAIN infos \/ ~Buildable(i)
  <2>1. /\ step = "build" /\ pools' = [i \in Supported(fetched) |-> Build(i)]
        /\ reader' = "cycle" /\ step' = "tokens"
        /\ UNCHANGED <<market, coins, nextKey, fetched, infos, priced, entry,
                       attempt, tokens, volumes, yields>>
    BY <1>2 DEF BuildPools
  <2>2. \A i \in Supported(fetched) : i \in DOMAIN infos /\ Buildable(i)
    BY <1>2
  <2>3. \A i \in Supported(fetched) :
          /\ Build(i).id = fetched[i] /\ OwnData(Build(i))
          /\ \E info \in DOMAIN market.tvl : OfInfo(Build(i), info)
          /\ Told(i) => OfInfo(Build(i), Build(i).id)
    BY <2>1, <2>2, BuildIsOwn
  <2>4. {fetched[i] : i \in Supported(fetched)} = Investable
    BY <2>1, SupportedAreInvestable
  <2>5. DOMAIN pools' = Supported(fetched) /\ \A i \in Supported(fetched) : pools'[i] = Build(i)
    BY <2>1
  <2>6. {pools'[i].id : i \in DOMAIN pools'} = Investable
    BY <2>3, <2>4, <2>5
  <2>7. market' = market
    BY <2>1
  <2>8. BuiltInv'
    BY <2>3, <2>5, <2>6, <2>7, SameListing DEF BuiltInv
  <2>9. PagesInv'
    BY <2>1, <2>7, SameListing DEF MarketInv, PagesInv
  <2>10. MarketTypeOK'
    BY <2>1, <2>5 DEF MarketInv, MarketTypeOK, Steps, Supported
  <2>11. SourcesInv'
    BY <2>1 DEF MarketInv, SourcesInv
  <2> QED
    BY <2>1, <2>8, <2>9, <2>10, <2>11 DEF MarketInv
<1> QED
  BY <1>1, <1>2

\* One step for each action.
LEMMA MarketInvNext == MarketInv /\ [MarketNext]_marketVars => MarketInv'
<1> SUFFICES ASSUME MarketInv, [MarketNext]_marketVars PROVE MarketInv'
  OBVIOUS
<1>1. CASE GetTradableDenoms
  <2>1. CASE market.coins = {}
    BY <1>1, <2>1, RefuseKeeps DEF GetTradableDenoms
  <2>2. CASE market.coins # {}
    <3>1. PagesInv' /\ BuiltInv'
      BY <1>1, <2>2, SameRead DEF GetTradableDenoms
    <3>2. MarketTypeOK' /\ SourcesInv' /\ market' = market
      BY <1>1, <2>2 DEF GetTradableDenoms, MarketInv, MarketTypeOK, Steps, SourcesInv
    <3> QED
      BY <3>1, <3>2 DEF MarketInv
  <2> QED
    BY <2>1, <2>2
<1>2. CASE NextPage
  BY <1>2, NextPageKeeps
<1>3. CASE FetchTokens
  <2>1. PICK P \in market.priced :
          IF P = {} \/ "prices" \in market.faults THEN Refuse
          ELSE /\ priced' = P /\ entry' = 1 /\ attempt' = 1 /\ tokens' = {}
               /\ step' = "history"
               /\ UNCHANGED <<market, reader, coins, nextKey, fetched, infos, volumes,
                              yields, pools>>
    BY <1>3 DEF FetchTokens
  <2>2. CASE P = {} \/ "prices" \in market.faults
    BY <2>1, <2>2, RefuseKeeps
  <2>3. CASE ~(P = {} \/ "prices" \in market.faults)
    <3>1. PagesInv' /\ BuiltInv'
      BY <1>3, <2>1, <2>3, SameRead DEF FetchTokens
    <3>2. MarketTypeOK' /\ SourcesInv' /\ market' = market
      BY <1>3, <2>1, <2>3, ListingType
      DEF FetchTokens, MarketInv, MarketTypeOK, Steps, SourcesInv, VolumesRead
    <3> QED
      BY <3>1, <3>2 DEF MarketInv
  <2> QED
    BY <2>2, <2>3
<1>4. ASSUME NEW read, read \in {tokens, tokens \union {Token}}, entry <= Len(Entries),
             Advance(read), Wanted \/ read = tokens
      PROVE  MarketInv'
  <2>1. PagesInv' /\ BuiltInv'
    BY <1>4, SameRead DEF Advance
  <2>2. /\ entry + 1 \in 1..Len(Entries) + 1 /\ 1 \in 1..MaxRetries
        /\ read \subseteq priced \ Skipped
    BY <1>4, ListingType DEF MarketInv, MarketTypeOK, Wanted
  <2>3. MarketTypeOK' /\ SourcesInv' /\ market' = market
    BY <1>4, <2>2 DEF Advance, MarketInv, MarketTypeOK, SourcesInv, VolumesRead
  <2> QED
    BY <2>1, <2>3 DEF MarketInv
<1>5. CASE SkipToken \/ RefuseToken
  BY <1>4, <1>5, RefuseKeeps DEF SkipToken, RefuseToken
<1>6. CASE HistoryFound
  BY <1>4, <1>6 DEF HistoryFound, Wanted
<1>7. CASE HistoryFails
  <2>1. CASE attempt < MaxRetries
    <3>1. PagesInv' /\ BuiltInv'
      BY <1>7, <2>1, SameRead DEF HistoryFails
    <3>2. attempt + 1 \in 1..MaxRetries
      BY <2>1, ListingType DEF MarketInv, MarketTypeOK
    <3>3. MarketTypeOK' /\ SourcesInv' /\ market' = market
      BY <1>7, <2>1, <3>2 DEF HistoryFails, MarketInv, MarketTypeOK, SourcesInv, VolumesRead
    <3> QED
      BY <3>1, <3>3 DEF MarketInv
  <2>2. CASE ~(attempt < MaxRetries)
    BY <1>7, <2>2, RefuseKeeps DEF HistoryFails
  <2> QED
    BY <2>1, <2>2
<1>8. CASE TokensRead
  <2>1. CASE tokens = {}
    BY <1>8, <2>1, RefuseKeeps DEF TokensRead
  <2>2. CASE tokens # {}
    <3>1. PagesInv' /\ BuiltInv'
      BY <1>8, <2>2, SameRead DEF TokensRead, readVars
    <3>2. MarketTypeOK' /\ SourcesInv' /\ market' = market
      BY <1>8, <2>2
      DEF TokensRead, readVars, MarketInv, MarketTypeOK, Steps, SourcesInv, VolumesRead
    <3> QED
      BY <3>1, <3>2 DEF MarketInv
  <2> QED
    BY <2>1, <2>2
<1>9. CASE FetchVolumes
  <2>1. CASE Traded(market.weeks) = {} \/ Duplicates(market.weeks)
    BY <1>9, <2>1, RefuseKeeps DEF FetchVolumes
  <2>2. CASE ~(Traded(market.weeks) = {} \/ Duplicates(market.weeks))
    <3>1. /\ step = "volumes" /\ step' = "yields" /\ VolumesRead'
          /\ UNCHANGED <<market, reader, coins, nextKey, fetched, infos, priced,
                         entry, attempt, tokens, yields, pools>>
      BY <1>9, <2>2 DEF FetchVolumes, VolumesRead
    <3>2. PagesInv' /\ BuiltInv'
      BY <3>1, SameRead
    <3>3. MarketTypeOK' /\ SourcesInv'
      BY <3>1 DEF MarketInv, MarketTypeOK, Steps, SourcesInv
    <3> QED
      BY <3>1, <3>2, <3>3 DEF MarketInv
  <2> QED
    BY <2>1, <2>2
<1>10. CASE VolumesFail \/ QueryFails
  BY <1>10, RefuseKeeps DEF VolumesFail, QueryFails
<1>11. CASE FetchYields
  <2>1. CASE DOMAIN market.yield = {} \/ "yields" \in market.faults
    BY <1>11, <2>1, RefuseKeeps DEF FetchYields
  <2>2. CASE ~(DOMAIN market.yield = {} \/ "yields" \in market.faults)
    <3>1. PagesInv' /\ BuiltInv'
      BY <1>11, <2>2, SameRead DEF FetchYields
    <3>2. VolumesRead'
      <4>1. VolumesRead /\ market' = market /\ volumes' = volumes
        BY <1>11, <2>2 DEF FetchYields, MarketInv, SourcesInv
      <4> QED
        BY <4>1 DEF VolumesRead
    <3>3. MarketTypeOK'
      BY <1>11, <2>2 DEF FetchYields, MarketInv, MarketTypeOK, Steps
    <3>4. SourcesInv' /\ market' = market
      BY <1>11, <2>2, <3>2 DEF FetchYields, MarketInv, MarketTypeOK, SourcesInv
    <3> QED
      BY <3>1, <3>3, <3>4 DEF MarketInv
  <2> QED
    BY <2>1, <2>2
<1>12. CASE BuildPools
  BY <1>12, BuildPoolsKeeps
<1>13. CASE UNCHANGED marketVars
  <2>1. PagesInv' /\ BuiltInv'
    BY <1>13, SameRead DEF marketVars, readVars
  <2>2. MarketTypeOK' /\ SourcesInv' /\ market' = market
    BY <1>13 DEF marketVars, readVars, MarketInv, MarketTypeOK, SourcesInv, VolumesRead
  <2> QED
    BY <2>1, <2>2 DEF MarketInv
<1> QED
  BY <1>1, <1>2, <1>3, <1>5, <1>6, <1>7, <1>8, <1>9, <1>10, <1>11, <1>12, <1>13
  DEF MarketNext, ReadStep

\* What Sound says of a market is still true after a step.
LEMMA SoundStays == [MarketNext]_marketVars => market' = market
<1> SUFFICES ASSUME [MarketNext]_marketVars PROVE market' = market
  OBVIOUS
<1> QED
  BY DEF MarketNext, ReadStep, marketVars, readVars, Refuse, GetTradableDenoms, NextPage,
         FetchTokens, RefuseToken, SkipToken, HistoryFound, Advance, HistoryFails, TokensRead,
         FetchVolumes, VolumesFail, FetchYields, BuildPools, QueryFails

\* The last page leaves some pool to invest in.
LEMMA SomeSupported ==
  ASSUME MarketInv, Sound, NextPage, LastPage
  PROVE  Supported(fetched') # {}
<1>1. /\ fetched' = fetched \o PageAt(nextKey) /\ step = "pools" /\ coins = market.coins
  BY DEF NextPage, MarketInv, SourcesInv
<1>2. /\ fetched' \in Seq(Listed) /\ Len(fetched') = Len(market.listing)
      /\ \A i \in 1..Len(market.listing) : fetched'[i] = market.listing[i]
  BY <1>1, PageNext
<1>3. DOMAIN market.listing = 1..Len(market.listing) /\ DOMAIN fetched' = 1..Len(fetched')
  BY <1>2, ListingType, LenProperties DEF MarketInv
<1>4. PICK p \in Investable : TRUE
  BY DEF Sound
<1>5. PICK i \in DOMAIN market.listing : p = market.listing[i] /\ SupportedPool(p, market.coins)
  BY <1>4 DEF Investable
<1>6. i \in DOMAIN fetched' /\ fetched'[i] = p
  BY <1>2, <1>3, <1>5
<1>7. i \in Supported(fetched')
  BY <1>1, <1>5, <1>6 DEF Supported
<1> QED
  BY <1>7

\* Every pool that is kept can be built.
LEMMA AllBuildable ==
  ASSUME MarketInv, SoundSoFar, Sound, step = "build", NEW i \in Supported(fetched)
  PROVE  i \in DOMAIN infos /\ Buildable(i)
<1> DEFINE p == fetched[i]
<1>1. p \in Investable
  BY SupportedAreInvestable
<1>2. yields = market.yield /\ VolumesRead
  BY DEF MarketInv, SourcesInv
<1>3. i \in DOMAIN infos /\ InfoOf(i) = p
  <2>1. /\ fetched \in Seq(Listed) /\ infos \in Seq(DOMAIN market.tvl)
        /\ Len(fetched) = Len(market.listing) /\ market \in Markets
        /\ \A j \in 1..Len(fetched) : Told(j) => j \in 1..Len(infos) /\ infos[j] = fetched[j]
    BY DEF MarketInv, PagesInv
  <2>2. i \in 1..Len(fetched) /\ Len(fetched) \in Nat
    BY <2>1, LenProperties DEF Supported
  <2>3. Told(i)
    <3>1. Told(Len(fetched))
      BY <2>1 DEF Sound, Parallel
    <3> QED
      BY <2>1, <2>2, <3>1, ToldBefore
  <2> QED
    BY <2>1, <2>2, <2>3, LenProperties DEF InfoOf
<1>4. /\ Sane(p, p) /\ TwoTokens(p) /\ p \in DOMAIN market.yield
      /\ market.dev \/ \E j \in Traded(market.weeks) : market.weeks[j].pool = p
  BY <1>1 DEF Sound
<1>5. p \in DOMAIN volumes \/ market.dev
  BY <1>2, <1>4 DEF VolumesRead
<1>6. {market.assets[p][1], market.assets[p][2]} \subseteq tokens
  BY <1>1 DEF SoundSoFar
<1> QED
  BY <1>2, <1>3, <1>4, <1>5, <1>6 DEF Buildable

\* The token looked at joins the tokens looked at before.
LEMMA OneMore ==
  ASSUME MarketInv, entry <= Len(Entries), NEW P, NEW e, e = entry + 1
  PROVE  (P \ Skipped) \intersect {Entries[i] : i \in 1..e - 1}
           = TokensOf(P) \union (IF Token \in P \ Skipped THEN {Token} ELSE {})
<1>1. 1..e - 1 = (1..entry - 1) \union {entry} /\ entry \in Nat
  BY ListingType DEF MarketInv, MarketTypeOK
<1>2. {Entries[i] : i \in 1..e - 1} = {Entries[i] : i \in 1..entry - 1} \union {Token}
  BY <1>1 DEF Token
<1> QED
  BY <1>2 DEF TokensOf

\* One step for each action: with a sound market none of them refuses.
LEMMA SoundNext ==
  MarketInv /\ SoundSoFar /\ [MarketNext]_marketVars => SoundSoFar'
<1> SUFFICES ASSUME MarketInv, SoundSoFar, [MarketNext]_marketVars, Sound'
             PROVE  /\ step' # "failed"
                    /\ step' = "history" =>
                         priced' \in market'.priced /\ tokens' = TokensOf(priced)'
                    /\ step' \in {"volumes", "yields", "build"} =>
                         \A p \in Investable' :
                           {market'.assets[p][1], market'.assets[p][2]} \subseteq tokens'
  BY DEF SoundSoFar
<1>1. market' = market
  BY SoundStays
<1>2. Sound /\ Investable' = Investable
  BY <1>1, SameListing
  DEF Sound, Parallel, Told, PageAt, Investable, SupportedPool, Traded, Duplicates, Sane, TwoTokens
<1>3. /\ step # "failed" /\ market.faults = {}
      /\ step = "history" => priced \in market.priced /\ tokens = TokensOf(priced)
      /\ step \in {"volumes", "yields", "build"} =>
           \A p \in Investable : {market.assets[p][1], market.assets[p][2]} \subseteq tokens
  BY <1>2 DEF SoundSoFar, Sound
<1>4. PICK q \in Investable : q \in DOMAIN market.yield /\ q \in market.coins
  BY <1>2 DEF Sound, Investable, SupportedPool
<1>5. CASE GetTradableDenoms
  BY <1>4, <1>5 DEF GetTradableDenoms
<1>6. CASE NextPage
  <2>1. CASE LastPage
    BY <1>2, <1>6, <2>1, SomeSupported DEF NextPage
  <2>2. CASE ~LastPage
    BY <1>6, <2>2 DEF NextPage
  <2> QED
    BY <2>1, <2>2
<1>7. CASE FetchTokens
  <2>1. PICK P \in market.priced :
          IF P = {} \/ "prices" \in market.faults THEN Refuse
          ELSE priced' = P /\ entry' = 1 /\ tokens' = {} /\ step' = "history"
    BY <1>7 DEF FetchTokens
  <2>2. P # {}
    BY <1>2 DEF Sound
  <2>3. priced' = P /\ entry' = 1 /\ tokens' = {} /\ step' = "history"
    BY <1>3, <2>1, <2>2
  <2>4. 1..entry' - 1 = {}
    BY <2>3
  <2> QED
    BY <1>1, <2>3, <2>4 DEF TokensOf
<1>8. CASE SkipToken
  <2>1. /\ step = "history" /\ step' = step /\ priced' = priced /\ tokens' = tokens
        /\ entry' = entry + 1 /\ entry <= Len(Entries) /\ Token \notin priced \ Skipped
    BY <1>8 DEF SkipToken, Advance
  <2>2. TokensOf(priced)' = TokensOf(priced)
    BY <2>1, OneMore DEF TokensOf
  <2> QED
    BY <1>1, <1>3, <2>1, <2>2
<1>9. CASE HistoryFound
  <2>1. /\ step = "history" /\ step' = step /\ priced' = priced
        /\ tokens' = tokens \union {Token}
        /\ entry' = entry + 1 /\ entry <= Len(Entries) /\ Token \in priced \ Skipped
    BY <1>9 DEF HistoryFound, Wanted, Advance
  <2>2. TokensOf(priced)' = TokensOf(priced) \union {Token}
    BY <2>1, OneMore DEF TokensOf
  <2> QED
    BY <1>1, <1>3, <2>1, <2>2
<1>10. CASE HistoryFails
  <2>1. Token \in market.history
    <3>1. /\ step = "history" /\ Token \in priced \ Skipped /\ entry <= Len(Entries)
      BY <1>10 DEF HistoryFails, Wanted
    <3>2. entry \in DOMAIN Entries
      BY <3>1, ListingType, MarketAssumption, LenProperties DEF MarketInv, MarketTypeOK
    <3> QED
      BY <1>2, <1>3, <3>1, <3>2 DEF Sound, Token
  <2>2. attempt < MaxRetries
    <3>1. attempt <= market.outage /\ market.outage < MaxRetries
      BY <1>2, <1>10, <2>1 DEF HistoryFails, Sound
    <3>2. MaxRetries \in Nat /\ attempt \in Nat
      BY ListingType DEF MarketInv, MarketTypeOK
    <3>3. market \in Markets
      BY DEF MarketInv
    <3>4. market.outage \in Nat
      BY <3>3, MarketAssumption
    <3> QED
      BY <3>1, <3>2, <3>4
  <2>3. /\ step = "history" /\ step' = step
        /\ UNCHANGED <<priced, entry, tokens>>
    BY <1>10, <2>2 DEF HistoryFails
  <2>4. TokensOf(priced)' = TokensOf(priced)
    BY <2>3 DEF TokensOf
  <2> QED
    BY <1>1, <1>3, <2>3, <2>4
<1>11. CASE TokensRead
  <2>1. step = "history" /\ entry > Len(Entries)
    BY <1>11 DEF TokensRead
  <2>2. 1..entry - 1 = DOMAIN Entries
    BY <2>1, ListingType, MarketAssumption, LenProperties DEF MarketInv, MarketTypeOK
  <2>3. tokens = (priced \ Skipped) \intersect {Entries[i] : i \in DOMAIN Entries}
    BY <1>3, <2>1, <2>2 DEF TokensOf
  <2>4. /\ tokens # {}
        /\ \A p \in Investable : {market.assets[p][1], market.assets[p][2]} \subseteq tokens
    BY <1>2, <1>3, <2>1, <2>3 DEF Sound
  <2>5. step' \in {"volumes", "fetched"} /\ tokens' = tokens
    BY <1>11, <2>4 DEF TokensRead, readVars
  <2> QED
    BY <1>1, <1>2, <2>4, <2>5
<1>12. CASE FetchVolumes
  <2>1. Traded(market.weeks) # {} /\ ~Duplicates(market.weeks)
    BY <1>2 DEF Sound
  <2>2. step = "volumes" /\ step' = "yields" /\ tokens' = tokens
    BY <1>12, <2>1 DEF FetchVolumes
  <2> QED
    BY <1>1, <1>2, <1>3, <2>2
<1>13. CASE VolumesFail \/ QueryFails
  BY <1>3, <1>13 DEF VolumesFail, QueryFails
<1>14. CASE FetchYields
  <2>1. step = "yields" /\ step' = "build" /\ tokens' = tokens
    BY <1>3, <1>4, <1>14 DEF FetchYields
  <2> QED
    BY <1>1, <1>2, <1>3, <2>1
<1>15. CASE BuildPools
  <2>1. \A i \in Supported(fetched) : i \in DOMAIN infos /\ Buildable(i)
    BY <1>2, <1>15, AllBuildable DEF BuildPools
  <2> QED
    BY <1>15, <2>1 DEF BuildPools
<1>16. CASE RefuseToken
  <2>1. /\ entry \in DOMAIN Entries /\ Token \in market.malformed \ Skipped
    BY <1>16, ListingType, MarketAssumption, LenProperties
    DEF RefuseToken, MarketInv, MarketTypeOK
  <2> QED
    BY <1>2, <2>1 DEF Sound, Token
<1>17. CASE UNCHANGED marketVars
  BY <1>1, <1>2, <1>3, <1>17 DEF marketVars, readVars, TokensOf
<1> QED
  BY <1>5, <1>6, <1>7, <1>8, <1>9, <1>10, <1>11, <1>12, <1>13, <1>14, <1>15, <1>16,
     <1>17
  DEF MarketNext, ReadStep

-----------------------------------------------------------------------------
\* Theorems

\* MarketInv is an invariant of the read.
THEOREM MarketInvariant == MarketSpec => []MarketInv
<1>1. MarketInit => MarketInv
  BY MarketInvInit
<1>2. MarketInv /\ [MarketNext]_marketVars => MarketInv'
  BY MarketInvNext
<1> QED
  BY <1>1, <1>2, PTL DEF MarketSpec

\* Type correctness, for all markets.
THEOREM MarketTyping == MarketSpec => []MarketTypeOK
<1>1. MarketInv => MarketTypeOK
  BY DEF MarketInv
<1> QED
  BY <1>1, MarketInvariant, PTL

\* All pools the vault may invest in are read, and no other, whatever the page
\* size and the listing.
THEOREM AllInvestableRead == MarketSpec => []InvestableRead
<1>1. MarketInv => InvestableRead
  BY DEF MarketInv, BuiltInv, SourcesInv, MarketTypeOK, InvestableRead
<1> QED
  BY <1>1, MarketInvariant, PTL

\* Every pool has its own data, its info as long as the pages told of their pools.
THEOREM PoolsHaveTheirOwn == MarketSpec => []DataPaired
<1>1. MarketInv => DataPaired
  BY DEF MarketInv, BuiltInv, SourcesInv, MarketTypeOK, DataPaired
<1> QED
  BY <1>1, MarketInvariant, PTL

\* The safety half of SoundMarketRead: as long as nothing is wrong with what the
\* cycle needs, no step of the read gives up - not for prices that come late, nor
\* for a pool or a token that is not needed - whatever the pages, the order of
\* the answers and the number of retries (PoolRetriever.go:28-447,
\* HourlyPrice.go:164-223).
THEOREM SoundNeverRefused == MarketSpec => [](Sound => step # "failed")
<1>1. MarketInit => SoundSoFar
  BY DEF MarketInit, SoundSoFar
<1>2. SoundSoFar => (Sound => step # "failed")
  BY DEF SoundSoFar
<1> QED
  BY <1>1, <1>2, SoundNext, MarketInvariant, PTL DEF MarketSpec

-----------------------------------------------------------------------------
\* The read comes to its end

\* The requests of a read in their order: GetPools, with the tokens for it, and
\* the tokens once more for RunCycle.
PlaceOfRead ==
  CASE step = "coins" -> 0
    [] step = "pools" -> 1
    [] step = "tokens" -> IF reader = "pools" THEN 2 ELSE 7
    [] step = "history" -> IF reader = "pools" THEN 3 ELSE 8
    [] step = "volumes" -> 4
    [] step = "yields" -> 5
    [] step = "build" -> 6
    [] OTHER -> 9

\* A later request, or a later page, token or try of the same one.
ReadComesCloser ==
  \/ PlaceOfRead < PlaceOfRead'
  \/ /\ PlaceOfRead' = PlaceOfRead
     /\ \/ nextKey < nextKey'
        \/ nextKey' = nextKey /\ entry < entry'
        \/ nextKey' = nextKey /\ entry' = entry /\ attempt < attempt'

LEMMA ReadStepComesCloser ==
  ASSUME MarketInv, ReadStep
  PROVE  ReadComesCloser
<1>1. /\ reader \in {"pools", "cycle"} /\ nextKey \in Nat /\ PageSize \in Nat \ {0}
      /\ entry \in Nat /\ attempt \in Nat /\ MaxRetries \in Nat
      /\ reader = "cycle" => step \in {"tokens", "history", "fetched", "scored", "failed"}
      /\ reader = "pools" => step \notin {"fetched", "scored"}
  BY ListingType DEF MarketInv, MarketTypeOK, SourcesInv
<1>2. ASSUME Refuse, step \in {"coins", "pools", "tokens", "history", "volumes", "yields", "build"}
      PROVE  PlaceOfRead < PlaceOfRead'
  BY <1>2 DEF Refuse, PlaceOfRead
<1>3. CASE GetTradableDenoms
  <2>1. step = "coins" /\ step' \in {"pools", "failed"}
    BY <1>3 DEF GetTradableDenoms, Refuse
  <2>2. PlaceOfRead < PlaceOfRead'
    BY <2>1 DEF PlaceOfRead
  <2> QED
    BY <2>2 DEF ReadComesCloser
<1>4. CASE NextPage
  <2>1. CASE LastPage
    <3>1. step = "pools" /\ step' \in {"failed", "tokens"} /\ reader' = reader
      BY <1>4, <2>1 DEF NextPage
    <3>2. PlaceOfRead < PlaceOfRead'
      BY <3>1 DEF PlaceOfRead
    <3> QED
      BY <3>2 DEF ReadComesCloser
  <2>2. CASE ~LastPage
    <3>1. step = "pools" /\ step' = step /\ nextKey' = nextKey + PageSize
      BY <1>4, <2>2 DEF NextPage
    <3>2. PlaceOfRead' = PlaceOfRead /\ nextKey < nextKey'
      BY <1>1, <3>1 DEF PlaceOfRead
    <3> QED
      BY <3>2 DEF ReadComesCloser
  <2> QED
    BY <2>1, <2>2
<1>5. CASE FetchTokens
  <2>1. step = "tokens" /\ step' \in {"history", "failed"} /\ reader' = reader
    BY <1>5 DEF FetchTokens, Refuse, readVars
  <2>2. PlaceOfRead < PlaceOfRead'
    BY <1>1, <2>1 DEF PlaceOfRead
  <2> QED
    BY <2>2 DEF ReadComesCloser
<1>6. CASE SkipToken \/ HistoryFound
  <2>1. UNCHANGED <<step, reader, nextKey>> /\ entry' = entry + 1
    BY <1>6 DEF SkipToken, HistoryFound, Advance
  <2>2. PlaceOfRead' = PlaceOfRead
    BY <2>1 DEF PlaceOfRead
  <2> QED
    BY <1>1, <2>1, <2>2 DEF ReadComesCloser
<1>7. CASE HistoryFails
  <2>1. CASE attempt < MaxRetries
    <3>1. UNCHANGED <<step, reader, nextKey, entry>> /\ attempt' = attempt + 1
      BY <1>7, <2>1 DEF HistoryFails
    <3>2. PlaceOfRead' = PlaceOfRead
      BY <3>1 DEF PlaceOfRead
    <3> QED
      BY <1>1, <3>1, <3>2 DEF ReadComesCloser
  <2>2. CASE ~(attempt < MaxRetries)
    BY <1>2, <1>7, <2>2 DEF HistoryFails, ReadComesCloser
  <2> QED
    BY <2>1, <2>2
<1>8. CASE TokensRead
  <2>1. /\ step = "history"
        /\ step' = "failed" \/ step' = IF reader = "pools" THEN "volumes" ELSE "fetched"
    BY <1>8 DEF TokensRead, Refuse
  <2>2. PlaceOfRead < PlaceOfRead'
    BY <1>1, <2>1 DEF PlaceOfRead
  <2> QED
    BY <2>2 DEF ReadComesCloser
<1>9. CASE FetchVolumes
  <2>1. step = "volumes" /\ step' \in {"yields", "failed"}
    BY <1>9 DEF FetchVolumes, Refuse
  <2>2. PlaceOfRead < PlaceOfRead'
    BY <2>1 DEF PlaceOfRead
  <2> QED
    BY <2>2 DEF ReadComesCloser
<1>10. CASE FetchYields
  <2>1. step = "yields" /\ step' \in {"build", "failed"}
    BY <1>10 DEF FetchYields, Refuse
  <2>2. PlaceOfRead < PlaceOfRead'
    BY <2>1 DEF PlaceOfRead
  <2> QED
    BY <2>2 DEF ReadComesCloser
<1>11. CASE BuildPools
  <2>1. /\ step = "build"
        /\ step' = "failed" \/ (step' = "tokens" /\ reader' = "cycle")
    BY <1>11 DEF BuildPools, Refuse
  <2>2. PlaceOfRead < PlaceOfRead'
    BY <2>1 DEF PlaceOfRead
  <2> QED
    BY <2>2 DEF ReadComesCloser
<1>12. CASE VolumesFail \/ QueryFails \/ RefuseToken
  BY <1>2, <1>12 DEF VolumesFail, QueryFails, RefuseToken, ReadComesCloser
<1> QED
  BY <1>3, <1>4, <1>5, <1>6, <1>7, <1>8, <1>9, <1>10, <1>11, <1>12 DEF ReadStep

\* Every step of the read brings it closer to its end: a later request, a later
\* page, a later token or one more of the tries a request has.  Pages, tokens and
\* tries are bounded (MarketTyping), and the tokens are read twice at most
\* (PoolRetriever.go:67-119, 141-180, HourlyPrice.go:164-223).
THEOREM ReadRunsDown == MarketSpec => [][ReadStep => ReadComesCloser]_marketVars
<1>1. MarketInv /\ [MarketNext]_marketVars => [ReadStep => ReadComesCloser]_marketVars
  BY ReadStepComesCloser
<1> QED
  BY <1>1, MarketInvariant, PTL DEF MarketSpec
=============================================================================
