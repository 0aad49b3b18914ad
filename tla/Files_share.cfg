\* Two consoles on one file of a folder, or on a block device.
SPECIFICATION Spec
CONSTANTS
  p1 = p1
  c2 = c2
  c1 = c1
  Clients = {c1, c2}
  Paths = {p1}
  Flags = {{"RD", "WR", "CREAT"}}
  Setups = {{"folder"}, {"device"}, {"device", "nopread"}}
  MAX_HANDLES = 1
  max_transfer = 2
  Sectors = 2
  MaxOpens = 1
  MaxWrites = 1
  MaxChunks = 2
  MaxInodes = 1
SYMMETRY ConsoleSymmetry
INVARIANTS AnsweredOnce DeviceWhereAsked
 
CHECK_DEADLOCK FALSE
