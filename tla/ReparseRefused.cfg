SPECIFICATION MCSpec
CONSTANTS
  Parts = {"cite"}
  Documents <- TheDocuments
  PlanLimits <- ThePlanLimits
  CharsPerToken = 1
  ChunkAnswers <- TheChunkAnswers
  NoEnvelope = NoEnvelope
  q1 = q1
  q2 = q2
  NoProfile = NoProfile
  LlmProfiles = {q1, q2}
  ProfileOrder <- TheProfileOrder
  aw1 = aw1
  aw2 = aw2
  aw3 = aw3
  AskWorks = {aw1, aw2, aw3}
  Spanless = {aw3}
  AskConfigs <- TheAskConfigs
  AskReplies <- TheAskReplies
  MaxExclusions = 1
  NoSpan = 0
  Regions <- TheRegions
  NoAuthor = 0
  Worlds <- TheWorlds
  MaxDepth = 2
  PerGenCap = 2
  MaxOutages = 1
  MaxWalks = 2
  Chains = {"cli", "web"}
  Order <- TheChain
  Verbs <- TheVerbs
  Keys <- TheKeys
  Known <- TheKnown
  FailMax = 1
  CoolDown = 1
  Lifetime = 2
  MaxTime = 2
  MaxLookups = 3
  MaxFaults = 1
  CitingPapers = 2
  PaperIds <- TheIds
  Texts <- TheTexts
  Served <- TheServed
  Mentions <- TheMentions
  Retitled <- TheRetitled
  MaxRuns = 2
  MaxReads = 2
  MaxWorks = 6
  Corpora <- TheCorpora
CHECK_DEADLOCK FALSE
INVARIANT ReparseIsNeverRefused
