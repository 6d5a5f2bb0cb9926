SPECIFICATION Spec
CONSTANTS
  p1 = p1
  p2 = p2
  p3 = p3
  atom = atom
  weth = weth
  Pools <- MCPools
  Denoms <- MCDenoms
  TokenA <- MCTokenA
  Tvl <- MCTvl
  TotalShares <- MCTotalShares
  Inputs <- MCInputs
  Parts = 4
  Precision = 8
  Dollar = 2
  Threshold = 5
  MaxRebalance = 50
  Buffer = 1
  MaxRetries = 3
  Excess = 1
INVARIANTS TypeOK WithinFunds TowardTarget
PROPERTIES Answers
