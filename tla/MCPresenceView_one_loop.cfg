SPECIFICATION SpecView
CONSTANTS
  c1 = c1
  c2 = c2
  c3 = c3
  l1 = l1
  l2 = l2
  Conn = {c1, c2, c3}
  Loop = {l1}
  LoopOf <- OneLoop
  Project = {p1}
  User = {u1, u2}
  ClientId = {k1}
  GuestId = {g1, g2}
  File = {f1}
  NoFile = NoFile
  NoSession = NoSession
  NoContext = NoContext
  RelayType = {}
  MaxMessages = 3
  MaxFaults = 0
  MaxRestarts = 0
  MaxSwitches = 0
SYMMETRY Symmetry
INVARIANTS
  PresenceSettled
  SessionsDescribeMembers
  ViewsMatchRoom
\* Connections are accepted once each, so every run ends.
CHECK_DEADLOCK FALSE
