SPECIFICATION FairSpecDialog
CONSTANTS
  MaxCalls = 3
  Name = {n}
  Password = {p, s}
  Short = {s}
  NoRequest = NoRequest
  NoAccount = NoAccount
  Window = {w1}
  NoWindow = NoWindow
  MaxFaults = 1
  MaxRestarts = 1
INVARIANTS
  AccountsStay
  TokensWork
  RefusedWithReason
  SessionIsLatest
PROPERTIES
  CallsAreAtomic
  DialogsEnd
\* Every call is made once, so every run ends.
CHECK_DEADLOCK FALSE
