SPECIFICATION FairSpec
CONSTANTS
  Platforms = {p1, p2}
  Buttons = {}
  BreakDurations = {1, 2}
  ActiveDuration = 2
  DecisionDelay = 1
  RevealWindow = 2
  TickPeriod = 1
  Movable = {}
  MaxDecisions = 0
INVARIANTS BreakEndsOnTime
PROPERTIES TickStops BreakEnds
