SPECIFICATION SettlesSpec
CONSTANTS
  Parts = {"batch", "queue"}
  c1 = c1
  ch1 = ch1
  ch2 = ch2
  k1 = k1
  w1 = w1
  w2 = w2
  f1 = f1
  m1 = m1
  Clients = {c1}
  Children = {ch1, ch2}
  Procs = {c1, ch1, ch2}
  Workers = {k1}
  Works = {w1, w2}
  Listed = {}
  Files = {f1}
  Markdowns = {m1}
  Classes = {"open_access", "user_supplied_private"}
  MaxRuns = 2
  Flows = {"web", "acquire"}
  aw1 = aw1
  aw2 = aw2
  af1 = af1
  Batches = {b1}
  Results = {x}
  NPapers = 2
  MaxChunks = 1
  MaxAttempts = 1
  MaxVersions = 1
  MaxNotes = 1
  Perils = {"api_note", "damage"}
  Options = {"resume", "session_failure"}
  NoFile = NoFile
  NoMarkdown = NoMarkdown
  Nobody = Nobody
CHECK_DEADLOCK FALSE
INVARIANTS StatusIsTrue
PROPERTIES BatchSettles TaskSettles
