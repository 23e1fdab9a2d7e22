SPECIFICATION Spec
CONSTANTS
  Batches = {b1}
  Works = {w1}
  Files = {f1, f2}
  Results = {x, y}
  NPapers = 1
  MaxChunks = 2
  MaxAttempts = 2
  MaxVersions = 1
  MaxNotes = 1
  Perils = {"acquire", "convert", "tighten", "policy"}
  Options = {"redact", "resume", "retry", "paper_failure"}
  NoFile = NoFile
  NoMarkdown = NoMarkdown
  Nobody = Nobody
SYMMETRY Symmetric
CHECK_DEADLOCK FALSE
INVARIANT NoteIsItsReceipts
PROPERTIES CommitOnPlannedSource ConsumedForever ServedIsPermitted
