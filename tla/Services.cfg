SPECIFICATION ServicesSpec
CONSTANTS
  Parts = {"calls", "api", "jobs", "lens"}
  q1 = q1
  q2 = q2
  NoProfile = NoProfile
  LlmProfiles = {q1, q2}
  ProfileOrder <- TheProfileOrder
  LlmConfigs <- TheLlmConfigs
  LlmEntries = {"task", "note", "chunk"}
  RetryMax = 2
  nw1 = nw1
  nw2 = nw2
  NoteWorks = {nw1, nw2}
  Commands = {"c1"}
  NoteThreads <- TheThreads
  NoteConfigs <- TheNoteConfigs
  NoText = NoText
  NoLimit = NoLimit
  MaxCost = 1
  MaxCommands = 2
  MaxNoteFaults = 1
  Servers = {"s1"}
  Pages = {"p1"}
  Offers <- TheTasks
  MaxRuns = 4
  MaxStarts = 2
  MaxFaults = 1
  lw1 = lw1
  LensWorks = {lw1}
  LensOrder <- TheLensOrder
  LensProcs = {"cli", "web"}
  LensShells = {"cli"}
  LensBackends <- TheBackends
  LensAnswers <- TheLensAnswers
  Unset = 0
  SpanDefs = {1}
  ExplainDefs = {2}
  SampleSize = 1
  MaxEdits = 2
  MaxTexts = 2
  MaxLensBegins = 2
CHECK_DEADLOCK FALSE
INVARIANTS TextStaysPermitted RowsTellTheCall SpendIsBounded NotesTellTheWork RunsTellTheTruth NothingIsDropped
PROPERTIES EverythingEnds PromotionCovers
