\* One read-only flow of a reviewer for a task that needs an approval.
SPECIFICATION Spec
CONSTANTS
  Mode = "adaptive"
  Signals <- MCSignals
  Flows <- ReviewFlows
  MaxRetries = 0
  MaxCorrections = 1
  MaxResumes = 1
  MaxCancels = 1
INVARIANTS WritersApproved ReviewBlocksCompletion
CHECK_DEADLOCK FALSE
