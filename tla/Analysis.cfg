SPECIFICATION AnalysisSpec
CONSTANTS
  e1 = e1
  e2 = e2
  p1 = p1
  p2 = p2
  p3 = p3
  none = none
  Pools = {e1, e2, p1, p2, p3}
  ElysPools = {e1, e2}
  NoPool = none
  Inputs <- MCInputs
  Parts = 100
  MaxIterations = 3
  Uelys = "uelys"
  Usdc = {"usdc"}
  Skipped = {"ueden"}
  Base <- MCBase
  Entries <- MCEntries
  Markets <- MCMarkets
  ThisWeek = 53
  PageSize = 2
  MaxRetries = 3
  Log <- MCLog
  ShieldParts = 2
INVARIANTS
  TypeOK
  BestSelected
  OrderKept
  BoundsKept
  SumKept
  IterationsSuffice
  MarketTypeOK
  InvestableRead
  DataPaired
  NoDominatedChoice
  NoDominatedShare
PROPERTY SoundMarketRead
