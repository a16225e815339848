SPECIFICATION FairSpec
CONSTANTS
  Client = {c1, c2}
  Query = {q1, q2}
  Text = {x}
  NoClient = NoClient
  NoText = NoText
  Patient = TRUE
  MaxUploads = 2
  MaxFaults = 1
INVARIANTS
  SavesInOrder
  KnownConflictIsWithOthers
  OwnSavesAreKnown
PROPERTIES
  ConflictIsLearned
\* The uploads are bounded, so a user may run out of them and wait for ever.
CHECK_DEADLOCK FALSE
