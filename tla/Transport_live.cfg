\* A network that loses and reorders; the timers and the waits run under fairness.
SPECIFICATION FairSpec
CONSTANTS
  SeqMod = 16
  SEND_WINDOW = 1
  MAX_WINDOW_RETRIES = 1
  StreamLens = {2}
  Starts <- MidStarts
  Fresh = FALSE
  Duplicating = FALSE
  MaxAge = 0
  MaxRequests = 2
  MaxRestarts = 0
PROPERTIES WorkerReturns RequestAnswered
CHECK_DEADLOCK FALSE
