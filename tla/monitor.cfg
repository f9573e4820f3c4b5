SPECIFICATION MonitorSpec
CONSTANTS
  m1 = m1
  m2 = m2
  lib = lib
  deep = deep
  ann = ann
  eve = eve
  adv1 = adv1
  mal1 = mal1
  ghsa = ghsa
  MalIds = {mal1}
  Absent = Absent
  Empty = Empty
  MaxDepth = 2
  Monitors = {m1, m2}
  Lock <- MCLock
  DirectNames <- MCDirectNames
  Approved <- MCApproved
  Worlds <- MCWorlds
  Fresh <- MCFresh
  Flags <- MCFlags
  GapDays = 365
  MaxChanges = 2
SYMMETRY Runs
INVARIANTS NothingUnreported CleanExitIsEarned
\* Once every run has ended and the world stands still, nothing happens.
CHECK_DEADLOCK FALSE
