SPECIFICATION Spec
CONSTANTS
  Platforms = {p1}
  Physical = {r1}
  WithReferees = {p1}
  OldFirmware = {}
  DirectorRoles = {"left", "chief"}
  KeyboardMoved = {"kb-left", "kb-chief"}
INVARIANT SwapIsAtomic
