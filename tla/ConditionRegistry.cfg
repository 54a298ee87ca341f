SPECIFICATION RegistrySpec
CONSTANTS
  c1 = c1
  c2 = c2
  w1 = w1
  m1 = m1
  q1 = q1
  q2 = q2
  Nothing = Nothing
  Conds <- TwoConds
  WalletOf <- SameWallet
  MintOf <- SameMint
  Windowed <- Volume
  Large <- Transfers
  Wallets <- OneWallet
  Mints <- OneMint
  Slots <- TwoSlots
SYMMETRY Symmetry
INVARIANTS
  WatchedAsNeeded
  CountsAreExact
  QuietAgreement
