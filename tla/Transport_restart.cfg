\* A network that repeats and reorders; the console boots again at any point of a
\* transfer, of a session in use whose numbers are away from 0.
SPECIFICATION Spec
CONSTANTS
  SeqMod = 16
  SEND_WINDOW = 2
  MAX_WINDOW_RETRIES = 2
  StreamLens = {4}
  Starts <- MidStarts
  Fresh = FALSE
  Duplicating = TRUE
  MaxAge = 0
  MaxRequests = 3
  MaxRestarts = 1
INVARIANTS LostPacketsRecoverable ConfirmedDelivered
PROPERTIES PromiseKept
CHECK_DEADLOCK FALSE
