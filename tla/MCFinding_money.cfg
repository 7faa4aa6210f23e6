SPECIFICATION Spec
CONSTANTS
  Findings = {f1}
  Bounties = {b1}
  Coins = {sui, wal}
  Hashes = {h1, h2}
  Blobs = {blob1}
  None = None
  MAX_U64 = 2
  MaxReceived = 3
  MaxSigned = 2
SYMMETRY Symmetry
CHECK_DEADLOCK FALSE
INVARIANTS
  TypeOK
  PayedCountDrift
  CoinsConserved
  PriceHonoured
  PrivateReportPaidFor
  ReportsSigned
PROPERTIES
  BountyAccessNeverRevoked
  ImplementsSale
