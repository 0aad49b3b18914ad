\* The other file servers, the names a UDPFS session sees, and Edge's writers, side by side.
SPECIFICATION SharesSpec
CONSTANTS
  Ceilings = {210, 302}
  CREDIT_LIMIT = 4
  MaxTrees = 2
  MaxHandles = 1
  MaxSetups = 2
  MaxOutbox = 2
  SmbConns = {c1, c2}
  Browsers = {c1}
  SmbNames = {1, 2}
  MaxFids = 1
  SmbReadOnly = {TRUE, FALSE}
  Dispositions = {"OPEN", "CREATE", "OPEN_IF", "OVERWRITE", "OVERWRITE_IF"}
  Smb1Consoles = {a, b}
  Smb1Names = {1, 2}
  Smb1ReadOnly = {TRUE, FALSE}
  MaxBlock = 1
  MaxSearches = 1
  HttpFiles <- MCHttpFiles
  HttpThreads = {t1, t2}
  MaxRows = 2
  MaxCopies = 2
  MaxSize = 3
  TextLen = 2
  HttpDiskFaults = {"grow"}
  DirNames <- MCDirNames
  Unreadable = {}
  DirHandles = 1
  FolderVanishes = FALSE
  EdgePeers = {"p", "q"}
  EdgeFiles = {"f"}
  EDGE_SESSIONS = 256
  maxHandles = 2
  MaxEdgeSessions = 2
  MaxEdgeRequests = 3
  MaxEdgeInodes = 2
INVARIANTS
  ClientInStep
  
  SearchComplete
  SharingRestored
  
  
  FolderShown
  SingleWriter
PROPERTIES
  CreateDestroysNothing
  LinksNotFollowed
  BusyIsReal
CHECK_DEADLOCK FALSE
