SPECIFICATION CacheSpec
CONSTANTS
  p1 = p1
  f1 = f1
  f2 = f2
  m1 = m1
  Procs = {p1}
  Files = {f1, f2}
  Markdowns = {m1}
  Classes = {"open_access", "user_supplied_private"}
  MaxRuns = 2
INVARIANTS MarkdownKeepsMostRestrictive
