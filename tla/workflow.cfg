\* Two reads of the task (small and large), the default flows and one with a reviewer, one resume.
SPECIFICATION FairSpec
CONSTANTS
  Mode = "adaptive"
  Signals <- MCSignals
  Flows <- MCFlows
  MaxRetries = 1
  MaxCorrections = 1
  MaxResumes = 1
  MaxCancels = 1
INVARIANTS ApprovalBinds CompletionEarned
PROPERTY RunEnds
\* The resumes are bounded, so a run that ended may stay as it is.
CHECK_DEADLOCK FALSE
