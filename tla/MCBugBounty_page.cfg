SPECIFICATION PageSpec
CONSTANTS
  Wallets = {x, y}
  Accounts = {a1, a2}
  CanDisconnect = {x}
  None = None
  Unheard = Unheard
  MaxEvents = 3
  Bounties = {b1}
  Packages = {p1, p2}
  Caps = {c1}
  Free = Free
  Missing = Missing
SYMMETRY Symmetric
INVARIANTS
  PageTypeOK
  ConnectingIsAsked
  ConnectedIsGranted
  UserIsOfWallet
  DisconnectIsFinal
  ListsAreRight
PROPERTY ApprovedIfHeld
CHECK_DEADLOCK FALSE
