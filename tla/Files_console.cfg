\* One console whose loaders follow each other in the middle of writes: a folder
\* and a device, read-only or not, a failing disk, odd chunks, a shared position.
SPECIFICATION Spec
CONSTANTS
  p1 = p1
  c1 = c1
  Clients = {c1}
  Paths = {p1}
  Flags = {{"RD"}, {"WR", "CREAT"}, {"RD", "WR", "CREAT", "TRUNC"}}
  Setups = {{"folder", "device"}, {"folder", "device", "readonly"},
            {"folder", "odd", "failing"}, {"device", "odd", "failing"},
            {"device", "sequential"}, {"device", "nopread"}}
  MAX_HANDLES = 2
  max_transfer = 2
  Sectors = 2
  MaxOpens = 1
  MaxWrites = 2
  MaxChunks = 4
  MaxInodes = 1
INVARIANTS AssemblyIsCurrent
 
CHECK_DEADLOCK FALSE
