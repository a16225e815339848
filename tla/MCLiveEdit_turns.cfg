SPECIFICATION Spec
CONSTANTS
  Client = {c1, c2}
  Project = {p1, p2}
  NoRoom = NoRoom
  Closed = Closed
  Damaged = Damaged
  MaxEdits = 2
  MaxSaves = 1
  MaxOpens = 1
  MaxConnects = 3
INVARIANTS
  CleanMeansSaved
  TextsStayInProject
  TurnTakersAgree
  OnlyTypedIsSent
SYMMETRY Symmetric
\* Edits, saves and channels are bounded, so every run ends.
CHECK_DEADLOCK FALSE
