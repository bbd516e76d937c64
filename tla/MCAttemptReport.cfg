SPECIFICATION Spec
CONSTANTS
  Platforms = {p1}
  Buttons = {"white"}
  BreakDurations = {2}
  ActiveDuration = 2
  DecisionDelay = 1
  RevealWindow = 2
  TickPeriod = 1
  Movable = {}
  MaxDecisions = 1
INVARIANT PendingReportIsShown
