SPECIFICATION CardSpec
CONSTANTS
  Findings = {f1}
  Bounties = {b1}
  Coins = {c1, c2}
  Hashes = {h1}
  Blobs = {w1}
  None = None
  MAX_U64 = 3
  MaxReceived = 4
  MaxSigned = 9
  Shown = f1
  Users = {finder, sponsor}
  Finder = finder
  Sponsor = sponsor
  Missing = Missing
  Gone = Gone
  MaxEvents = 2
SYMMETRY Symmetric
INVARIANTS
  CardTypeOK
  ClientAgrees
  OfferedSucceeds
  OwnChangesShown
  HiddenOnlyIfGone
  LinksAreTheUsers
PROPERTY PaysExactly
CHECK_DEADLOCK FALSE
