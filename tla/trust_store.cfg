SPECIFICATION Spec
CONSTANTS
  v1 = v1
  v2 = v2
  n1 = n1
  a = a
  b = b
  Versions = {v1, v2}
  Names = {n1}
  NameOf <- MCNameOf
  Broken = Broken
  Unread = Unread
  Committed <- MCCommitted
  Pnpm = TRUE
  Procs = {a, b}
  MaxCommands = 2
  MaxConflicts = 1
CHECK_DEADLOCK FALSE
INVARIANTS ListsSound
PROPERTY EntriesKept
