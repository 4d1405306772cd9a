SPECIFICATION Spec
CONSTANTS
  Fields = {"timeout", "threshold", "attempts", "token_url"}
  Aliased = {"timeout", "threshold", "token_url"}
  Unread = {"threshold", "attempts"}
  Listed = {"threshold", "attempts"}
  Whole = {"attempts"}
  Words = {"token_url"}
  Positive = {"timeout", "attempts"}
  Cut = {"threshold"}
  TokenUrl = "token_url"
  Unfit = {1}
  Default <- Defaults
  DefaultChunk = 4
  Rank <- Ranks
  Numbers = {0, 1, 2}
  Junk = Junk
  Infinite = Infinite
  Unset = Unset
  None = None
  StartEnvs <- UpToTwoSet
  MaxEdits = 1
  MaxSessions = 1
INVARIANTS
  CachesAgree
  WarningsAreGiven
  ReadersAgree
PROPERTIES
  ConfigIsKept
