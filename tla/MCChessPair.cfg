\* A race of two steps with one failure, or a step with talk and two failures.
CONSTANTS
  Pages = {p1, p2}
  States <- MCStates
  Start = "start"
  Desync = "desync"
  Refused = "refused"
  Steps <- MCSteps
  Outcomes <- MCOutcomes
  p1 = p1
  p2 = p2
  Budgets <- RaceOrChat
SPECIFICATION FairSpec
INVARIANTS
  Agreement
PROPERTIES
  OnlyTheRecordDecides
  BoardsMeet
CHECK_DEADLOCK FALSE
