SPECIFICATION SpecView
CONSTANTS
  c1 = c1
  c2 = c2
  c3 = c3
  l1 = l1
  l2 = l2
  Conn = {c1, c2}
  Loop = {l1, l2}
  LoopOf <- TwoLoops
  Project = {p1}
  User = {u1}
  ClientId = {k1, k2}
  GuestId = {g1, g2}
  File = {f1}
  NoFile = NoFile
  NoSession = NoSession
  NoContext = NoContext
  RelayType = {}
  MaxMessages = 2
  MaxFaults = 0
  MaxRestarts = 0
  MaxSwitches = 0
INVARIANTS
  OnlineMembersVisible
\* Connections are accepted once each, so every run ends.
CHECK_DEADLOCK FALSE
