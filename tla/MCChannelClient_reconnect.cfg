SPECIFICATION FairSpec
CONSTANTS
  Token = {t1, t2}
  Project = {p1, p2}
  NoToken = NoToken
  NoUrl = NoUrl
  MaxStops = 2
  MaxDrops = 3
INVARIANTS
  WantedIsPursued
  DisconnectIsFinal
  ConnectedIsServed
PROPERTIES
  Reconnects
