SPECIFICATION Spec
CONSTANTS
  Batches = {b1}
  Works = {w1}
  Files = {f1}
  Results = {x}
  NPapers = 1
  MaxChunks = 1
  MaxAttempts = 2
  MaxVersions = 1
  MaxNotes = 1
  Perils = {}
  Options = {"session_failure"}
  NoFile = NoFile
  NoMarkdown = NoMarkdown
  Nobody = Nobody
CHECK_DEADLOCK FALSE
PROPERTY PauseEndsByResume
