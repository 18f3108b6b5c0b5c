SPECIFICATION Spec
CONSTANTS
  Topics <- WorkspaceTopics
  MaxId = 2
  Needs = {"resolved"}
  Runs = {1, 2}
  Slots = {1}
  MaxSpent = 2
  Quotations = {1}
  Start <- Openings
INVARIANTS
  NonePassedOver
  ReceivedIsTold
PROPERTIES
  RefreshesForward
CHECK_DEADLOCK FALSE
