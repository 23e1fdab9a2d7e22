SPECIFICATION Spec
CONSTANTS
  Batches = {b1}
  Works = {w1, w2}
  Files = {f1}
  Results = {x}
  NPapers = 2
  MaxChunks = 2
  MaxAttempts = 2
  MaxVersions = 1
  MaxNotes = 1
  Perils = {}
  Options = {"resume", "retry", "session_failure", "paper_failure", "garbage"}
  NoFile = NoFile
  NoMarkdown = NoMarkdown
  Nobody = Nobody
CHECK_DEADLOCK FALSE
INVARIANTS TypeOK AcceptedHasNote ChunksAreReceipted ServedIsDue
PROPERTIES PapersOnlyAdvance
