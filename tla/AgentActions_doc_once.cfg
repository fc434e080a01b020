\* Two requests to approve one run.
CONSTANTS
  Requests = {q1, q2}
  MaxSteps = 1
SPECIFICATION AgentSpec
INVARIANTS
  ApprovedOnce
CHECK_DEADLOCK FALSE
