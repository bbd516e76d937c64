SPECIFICATION Spec
CONSTANTS
  Platforms = {p1, p2}
  Physical = {r1, r2}
  WithReferees = {p1}
  OldFirmware = {r2}
  DirectorRoles = {"left", "chief"}
  KeyboardMoved = {"kb-left", "kb-chief"}
INVARIANTS TypeOK OnePlace AtMostThreeActive PhysicalSeats
PROPERTIES NothingLost SeatFitsHardware PlacementSpec
