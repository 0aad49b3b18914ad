\* Two consoles, a table with one entry, the sweep and the shutdown, under fairness.
SPECIFICATION FairSpec
CONSTANTS
  a1 = a1
  a2 = a2
  Addrs = {a1, a2}
  max_sessions = 1
  session_timeout = 0
  MAX_HANDLES = 2
  MaxObjs = 3
  MaxQueue = 1
  MaxTime = 1
INVARIANTS NothingLeaks NoShutdownRace
PROPERTIES ClosedInTheEnd
CHECK_DEADLOCK FALSE
