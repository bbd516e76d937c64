SPECIFICATION FairLinkSpec
CONSTANTS
  Platforms = {p1, p2}
  Physical = {r1}
  WithReferees = {p1}
  OldFirmware = {}
  DirectorRoles = {"left", "right"}
  KeyboardMoved = {"kb-left"}
  ChiefCases = {}
  MaxFrames = 2
  MaxSuperseded = 1
INVARIANTS LinkTypeOK AttachedIsOnRecord ConnectedIsTrue VotesGoWhereShown
PROPERTIES SeatedIsTold SeatIsShown SilentIsNoticed
