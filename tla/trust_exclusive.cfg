SPECIFICATION SequentialSpec
CONSTANTS
  v1 = v1
  v2 = v2
  n1 = n1
  a = a
  b = b
  Versions = {v1, v2}
  Names = {n1}
  NameOf <- MCNameOf
  Broken = Broken
  Unread = Unread
  Committed <- MCNothing
  Pnpm = TRUE
  Procs = {a}
  MaxCommands = 2
  MaxConflicts = 0
CHECK_DEADLOCK FALSE
INVARIANT RecordingRemovesTheOther
