SPECIFICATION ContentSpec
CONSTANTS
  c1 = c1
  c2 = c2
  f1 = f1
  f2 = f2
  m1 = m1
  w1 = w1
  Clients = {c1, c2}
  Children = {}
  Procs = {c1, c2}
  Workers = {}
  Works = {w1}
  Listed = {w1}
  Files = {f1, f2}
  Markdowns = {m1}
  Classes = {"open_access", "user_supplied_private"}
  MaxRuns = 3
  Flows = {"upload", "acquire", "folder", "import"}
SYMMETRY Symmetric
INVARIANTS LineageHolds
PROPERTIES NeverLoosens
