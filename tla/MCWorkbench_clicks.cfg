SPECIFICATION FairSpec
CONSTANTS
  Project = {p1, p2}
  NoProject = NoProject
  Configured = {p1}
  Dir = {d1, d2}
  NoPlace = NoPlace
  NoProgram = NoProgram
  Buildable = {p1}
  MaxClicks = 6
INVARIANTS
  TypeOK
  StopIsForThisRun
  LinksAreTrue
  LinksAreOfProject
  EntriesLandWhereAsked
  VerdictIsTrue
  TabsAreOfProject
\* The user may stop doing anything.
CHECK_DEADLOCK FALSE
PROPERTIES
  StopEnds
