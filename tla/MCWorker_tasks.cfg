SPECIFICATION FairSpec
CONSTANTS
  Findings = {f1, f2, f3}
  Oversized = {f3}
  EnclaveConfig = EnclaveConfig
  None = None
  Capacity = 1
  MaxStarts = 2
  MaxConns = 2
  MaxPosts = 2
INVARIANTS
  TypeOK
  NobodyWaitsInVain
  ResponseIsForTask
  EnclaveIsSigner
  IdentityIsOfStream
  RedeliveryIsHarmless
PROPERTIES
  ImplementsService
  EveryTaskSettled
CHECK_DEADLOCK FALSE
