SPECIFICATION FairSpec
CONSTANTS
  r1 = r1
  r2 = r2
  r3 = r3
  l1 = l1
  l2 = l2
  Request = {r1, r2, r3}
  Loop = {l1, l2}
  LoopOf <- TwoLoops
  Content = {x, y}
  Base = {0, 1, 2}
  NoContent = NoContent
  MaxFaults = 1
  MaxRestarts = 1
INVARIANTS
  SavedIsStored
  OneSavePerBase
PROPERTIES
  SavesAreAnswered
  SavesAreAtomic
\* Every request is made once, so every run ends.
CHECK_DEADLOCK FALSE
