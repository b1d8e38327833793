CONSTANTS
  TurnCount = 2  Refresh = 2  BatchLimit = 2  LastMoment = 5  MaxReviewFaults = 1
  PageLimit = 2  MaxChanges = 3  MaxPageFaults = 1
  LastTurn = 4  TurnInterval = 2  MaxEvolutions = 2  MaxSkillFaults = 1
  WxMessages = {1, 2}  WxFrom <- MCWxFrom  MaxWxEpoch = 1  MaxWxFaults = 3
  MaxCodes = 3  MaxAttempts = 2  MaxQrFaults = 3
  ReconnectTries = 2  MaxWsFaults = 4
  Apps = {1, 2}  Events <- MCEvents  MaxRevision = 4  MaxWaiting = 1
  Bindings = {1, 2}  Independent = {1}  MaxDeletionFaults = 2
  Requests = {1, 2}  ConnectRetries = 1  MaxVersion = 3  MaxMcpFaults = 2
  MaxTurns = 3  MaxToolRounds = 2  AnswerSizes = {1, 2}
  CompactThreshold = 4  RecentLimit = 3  ContextLimit = 6  MaxTurnFaults = 1
  BufferSize = 2  MaxMessages = 2  MaxExtras = 2
SPECIFICATION ServicesSpec
INVARIANTS
  CursorBacked ItemsConserved
  CatalogIsCurrent NoStrandedRequest
  RescanSeparatesUsers QrFollowsLogin BelievesTheTruth AccountIsCoherent
  NothingForgotten RunHandedOver DeletionIsWhole ClientSeesTheEnd CompactKeepsContext
  UsersAreUpToDate ObservationsConserved IntervalReviewed
CHECK_DEADLOCK FALSE
