\* A gateway, an older sender and one request; crashes and lost calls allowed.
CONSTANTS
  Request = {a1}
  Poller = {p1, p2}
  Sender = {p2}
  NoRequest = NoRequest
  CardCap = 2
  PressCap = 2
  DeathCap = 1
SPECIFICATION GwFairSpec
PROPERTIES OutboxDrains PressesTried
