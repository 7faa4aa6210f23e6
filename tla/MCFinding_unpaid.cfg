SPECIFICATION Spec
CONSTANTS
  Findings = {f1}
  Bounties = {b1}
  Coins = {sui}
  Hashes = {h1}
  Blobs = {blob1}
  None = None
  MAX_U64 = 2
  MaxReceived = 2
  MaxSigned = 1
CHECK_DEADLOCK FALSE
INVARIANTS
  PrivateReportOnlyWhenPaid
