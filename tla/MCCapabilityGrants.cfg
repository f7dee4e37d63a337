SPECIFICATION Spec
CONSTANTS
  None = None
  r1 = r1
  r2 = r2
  tool = tool
  page = page
  op = op
  console = console
  Roles = {r1, r2}
  Caps = {tool, page, op, console}
  Platform = {console}
  Kind <- MCKind
  Parent <- MCParent
  Defaults <- MCDefaults
  MaxEdits = 2
INVARIANTS
  SavedAlone
CHECK_DEADLOCK FALSE
