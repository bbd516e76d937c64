SPECIFICATION ReportsSpec
CONSTANTS
  Platforms = {p1}
  Lengths = {2}
  ActiveDuration = 1
  LcPlatforms = {"a", "b"}
  MaxChains = 2
INVARIANTS ReportsTypeOK ClockInStep AdvanceAfterLights
