SPECIFICATION ScenesSpec
CONSTANTS
  Scenes = {"upserts", "merges", "repairs", "races", "questions"}
  Clients = {c1}
  Incoming <- AllRecords
  Candidates <- ProviderSays
  Metadata <- PaperSays
  Dois = {d1, d2}
  OpenAlexes = {o1, o2}
  Arxivs = {x1}
  Titles = {t1, t2}
  d1 = d1
  d2 = d2
  o1 = o1
  o2 = o2
  x1 = x1
  t1 = t1
  t2 = t2
  NoId = NoId
  NoTitle = NoTitle
  MaxWorks = 4
  MaxItems = 3
  MaxCites = 1
  Standings = {"included"}
  Jobs = {"upsert"}
  Overlap = TRUE
CHECK_DEADLOCK FALSE
INVARIANTS SharedIdIsReviewed TwoIdsOnlyByReview NoRowDangles
PROPERTIES MergeKeepsRows RepairsOnlyFill
