\* The launcher's parts, side by side.
SPECIFICATION DesktopSpec
CONSTANTS
  ServerKeys = {"udpfs", "smb"}
  Privileged = {"smb"}
  MaxLaunches = 2
  EarlyClicks = FALSE
  LinkAddrs = {"a", "b"}
  MaxRehomes = 2
  MaxLinkStarts = 3
  LinkRisks = {"admin"}
  HelperOS = {"windows", "unix"}
  REPLY_BURST = 1
  MaxMoves = 2
  HelperRisks = {}
  PolledServers = {"u", "s"}
  MaxServerRuns = 2
  QuickRestart = FALSE
  Images = {"g"}
  Accounts = {"u"}
  FrameCapacity = 1
  MaxRaCalls = 2
  MaxAsked = 2
  MaxRuns = 2
  MaxCmds = 1
  SeqModulus = 10
  MaxParts = 2
  MaxFrames = 4
  MaxLate = 3
  RaIds = {1}
  RaRestarts = FALSE
  Games = {"g", "h"}
  UnlockIds = {1, 2}
  MaxPackets = 3
  MaxEngineRuns = 2
  ThreadSees = TRUE
  UNLOCKS_KEPT = 8
  ImageNames = {"x"}
  MaxVersion = 3
  LooksDisturbed = 1
  MaxOps = 3
  Entries = 2
  MaxClicks = 3
  MaxJobs = 2
  ImageSwaps = 1
  MaxTitles = 1
INVARIANTS
  
  
  
  AccountBound
  
  ToldOnce
PROPERTIES
  
  CatalogFaithful
  WindowFaithful
CHECK_DEADLOCK FALSE
