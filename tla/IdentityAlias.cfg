SPECIFICATION Spec
CONSTANTS
  Clients = {c1}
  Incoming <- ArxivRecords
  Candidates <- ProviderSays
  Metadata <- PaperAlias
  Dois = {d1, d2}
  OpenAlexes = {o1, o2}
  Arxivs = {x1}
  Titles = {t1, t2}
  d1 = d1
  d2 = d2
  o1 = o1
  o2 = o2
  x1 = x1
  t1 = t1
  t2 = t2
  NoId = NoId
  NoTitle = NoTitle
  MaxWorks = 3
  MaxItems = 2
  MaxCites = 1
  Standings = {"included"}
  Jobs = {"upsert", "biblio", "acquire"}
  Overlap = FALSE
CHECK_DEADLOCK FALSE
INVARIANT AliasesAreOneIdentity
