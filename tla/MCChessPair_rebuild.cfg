\* A line missed, noticed at the next one: the rebuild and its disputes.
CONSTANTS
  Pages = {p1, p2}
  States <- MCStates
  Start = "start"
  Desync = "desync"
  Refused = "refused"
  Steps <- MCSteps
  Outcomes <- MCOutcomes
  p1 = p1
  p2 = p2
  Budgets <- Missed
SPECIFICATION Spec
INVARIANTS
  RebuildDisputesSaid
CHECK_DEADLOCK FALSE
