\* Loaders of both kinds follow each other at one address, in each mode of the
\* server, and are quiet once they run; under fairness.
SPECIFICATION FairSpec
CONSTANTS
  Modes = {"auto", "standard", "modulo"}
  N = 16
  Discs = {0, 5, 15}
  Kinds = {"standard", "modulo"}
  Background = FALSE
  MaxConsoles = 3
  MaxRequests = 3
  MaxQueue = 2
  MaxGen = 2
 
PROPERTIES  Served
CHECK_DEADLOCK FALSE
