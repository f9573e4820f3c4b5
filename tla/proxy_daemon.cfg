SPECIFICATION Spec
CONSTANTS
  d1 = d1
  d2 = d2
  p1 = p1
  p2 = p2
  a = a
  b = b
  None = None
  Daemons = {d1, d2}
  Ports = {p1, p2}
  Captures = {"acme"}
  Actors = {a, b}
  Polls = 1
  MaxCommands = 3
SYMMETRY MCSymmetry
INVARIANTS ServingIsNamed CommandsTakeEffect
\* Commands are bounded, and nobody needs to stop a daemon.
CHECK_DEADLOCK FALSE
