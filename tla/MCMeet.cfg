SPECIFICATION MeetSpec
CONSTANTS
  m1 = m1
  m2 = m2
  p1 = p1
  p2 = p2
  Meets = {m1, m2}
  Passwords = {p1, p2}
  AdminPasswords = {"right", "wrong"}
  MeetOrder <- MCMeetOrder
  PlatformCount <- MCPlatformCount
  PasswordOf <- MCPasswordOf
  SavedForms <- MCSavedForms
  MaxDays = 2
  MaxPlatforms = 2
  MaxTokens = 2
  MaxTests = 2
  MaxSaves = 2
  MaxStarts = 2
  MaxPosts = 2
  MaxClicks = 5
  MaxRestarts = 1
INVARIANTS MeetTypeOK SessionsVerified DirectorInStep
PROPERTIES EditsTakeResultsDown KeepsPassword ImportedDaysMatch
CHECK_DEADLOCK FALSE
