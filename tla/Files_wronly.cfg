\* A file opened to be written only is read.
SPECIFICATION Spec
CONSTANTS
  p1 = p1
  c1 = c1
  Clients = {c1}
  Paths = {p1}
  Flags = {{"RD"}, {"WR", "CREAT"}, {"RD", "WR", "CREAT", "TRUNC"}}
  Setups = {{"folder"}}
  MAX_HANDLES = 2
  max_transfer = 2
  Sectors = 2
  MaxOpens = 2
  MaxWrites = 2
  MaxChunks = 2
  MaxInodes = 2
INVARIANTS ReadsAnswered
CHECK_DEADLOCK FALSE
