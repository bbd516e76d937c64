SPECIFICATION Spec
CONSTANTS
  Platforms = {p1}
  Buttons = {"white"}
  BreakDurations = {1, 3}
  ActiveDuration = 3
  DecisionDelay = 1
  RevealWindow = 2
  TickPeriod = 1
  Movable = {"chief"}
  MaxDecisions = 2
INVARIANTS TypeOK AttemptClockTicks ReportBeforeReset ViewsCurrent
PROPERTIES ResetFollowsCompletion BreakNotCut ActivitySpec FeedSpec
