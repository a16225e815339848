SPECIFICATION FairSpec
CONSTANTS
  Workspace = {w1, w2}
  File = {f1, f2}
  Parent = {p1}
  Place = {q1, q2}
  NoWorkspace = NoWorkspace
  NoFile = NoFile
  NoRoot = NoRoot
  NoCopy = NoCopy
  MaxFlows = 2
  MaxSaves = 1
  MaxFaults = 1
INVARIANTS
  PullIsPursued
  PulledIsComplete
PROPERTIES
  PullEnds
\* The uses of the menu are bounded, so every run ends.
CHECK_DEADLOCK FALSE
