SPECIFICATION SpecSet
CONSTANTS
  c1 = c1
  c2 = c2
  l1 = l1
  l2 = l2
  Conn = {c1, c2}
  Loop = {l1, l2}
  LoopOf <- TwoLoops
  Project = {p1, p2}
  User = {u1}
  ClientId = {k1}
  GuestId = {g1, g2}
  File = {f1}
  NoFile = NoFile
  NoSession = NoSession
  NoContext = NoContext
  RelayType = {"editor.soft_lock"}
  MaxMessages = 1
  MaxFaults = 1
  MaxRestarts = 1
SYMMETRY Symmetry
INVARIANTS
  RefCountMatchesRoom
  PresenceFollows
\* Connections are accepted once each, so every run ends.
CHECK_DEADLOCK FALSE
