SPECIFICATION Spec
CONSTANTS
  Client = {c1, c2}
  Query = {q1, q2}
  Text = {x, y}
  NoClient = NoClient
  NoText = NoText
  Patient = TRUE
  MaxUploads = 2
  MaxFaults = 0
SYMMETRY Symmetry
INVARIANTS
  OverwritesWereSeen
\* The uploads are bounded, so a user may run out of them and wait for ever.
CHECK_DEADLOCK FALSE
