SPECIFICATION LinkSpec
CONSTANTS
  Platforms = {p1}
  Physical = {r1}
  WithReferees = {}
  OldFirmware = {}
  DirectorRoles = {"left", "right"}
  KeyboardMoved = {}
  ChiefCases = {}
  MaxFrames = 2
  MaxSuperseded = 1
INVARIANT AttachedKnowsItsSeat
