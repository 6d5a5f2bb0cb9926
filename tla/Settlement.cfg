SPECIFICATION Spec
CONSTANTS
  Usdc = usdc
  Denoms = {atom}
  Pools = {p1, p2}
  p1 = p1
  p2 = p2
  atom = atom
  usdc = usdc
  Offers <- MCOffers
  Starts <- MCStarts
  One = 4
  Deviation = 1
  MaxActions = 2
  MaxOut = 4
INVARIANTS
  TypeOK
  WithinTolerance
  RevertsJustified
