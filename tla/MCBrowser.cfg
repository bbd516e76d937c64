SPECIFICATION FairBrowserSpec
CONSTANTS
  MaxInbox = 2
  MaxMoves = 2
  MaxRequests = 1
INVARIANTS BrowserTypeOK CaughtUp LightsNeedVotes RevealSurvivesUpdates

PROPERTIES KeysRespectBreaks LightsShown
