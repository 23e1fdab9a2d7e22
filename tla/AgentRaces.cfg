SPECIFICATION Spec
CONSTANTS
  Batches = {b1, b2}
  Works = {w1}
  Files = {f1}
  Results = {x}
  NPapers = 1
  MaxChunks = 1
  MaxAttempts = 1
  MaxVersions = 1
  MaxNotes = 2
  Perils = {"api_note"}
  Options = {"replace"}
  NoFile = NoFile
  NoMarkdown = NoMarkdown
  Nobody = Nobody
SYMMETRY Symmetric
CHECK_DEADLOCK FALSE
INVARIANTS NoteFollowsExpected
PROPERTIES ImplementsLedger
