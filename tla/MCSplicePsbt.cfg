SPECIFICATION FairSpec
CONSTANTS
  c1 = c1
  c2 = c2
  c3 = c3
  Coins = {c1, c2, c3}
  Wallets <- SmallWallets
  Requests <- SmallRequests
  FeeRates = {253, 1000}
  MaxTaken = 1
INVARIANTS
  FundingTxHonest
  SpliceGoesThrough
  SignedKeepsPlan
PROPERTIES
  SelectionEnds
