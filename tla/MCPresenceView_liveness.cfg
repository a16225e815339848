SPECIFICATION FairSpecView
CONSTANTS
  c1 = c1
  c2 = c2
  c3 = c3
  l1 = l1
  l2 = l2
  Conn = {c1, c2}
  Loop = {l1}
  LoopOf <- OneLoop
  Project = {p1}
  User = {u1}
  ClientId = {k1}
  GuestId = {g1, g2}
  File = {f1}
  NoFile = NoFile
  NoSession = NoSession
  NoContext = NoContext
  RelayType = {}
  MaxMessages = 3
  MaxFaults = 0
  MaxRestarts = 1
  MaxSwitches = 1
INVARIANTS
  OnlineUsersInPresence
PROPERTIES
  MembersSeeEachOther
\* Connections are accepted once each, so every run ends.
CHECK_DEADLOCK FALSE
