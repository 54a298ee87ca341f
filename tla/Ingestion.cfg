SPECIFICATION IngestionSpec
CONSTANTS
  w1 = w1
  s1 = s1
  Program = Program
  LastProvider = 2
  Threshold = 2
  MaxCount = 2
  Wallets <- OneWallet
  Signatures <- OneSignature
  MaxSubs = 2
  MaxEmits = 2
INVARIANTS
  EmittedOnce
  SubscribedAsWatched
  SocketFollows
PROPERTY
  NotedIsEmitted
