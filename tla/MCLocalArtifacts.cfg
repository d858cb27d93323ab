\* Two servers, two commands at a time, three acts in all: commands started, an edit, a lost state.
SPECIFICATION Spec
CONSTANTS
  Proc = {p1, p2}
  NoProc = NoProc
  Server = {a, b}
  Vendor = {v1, v2}
  NoVendor = NoVendor
  NoFile = NoFile
  Ids = 2
  Edits = 1
  Secrets = 2
  Acts = 3
  Kinds = {"create", "import", "store", "delete", "nsdelete", "nscreate"}
  Stops = 1
  Losses = 1
SYMMETRY MCSymmetry
CHECK_DEADLOCK FALSE
INVARIANTS TypeOK StateIsRouted TokenGoesHome
PROPERTIES StateOutlivesServer DeletesApprovedOnly  
