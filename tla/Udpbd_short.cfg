\* One write each on a disk that is filling up.
SPECIFICATION Spec
CONSTANTS
  Clients = {"a", "b"}
  CmdIds = 4
  Units = 3
  MaxAddress = 5
  Starts = {0, 1}
  Counts = {3}
  PacketUnits = 2
  Devices = {"filling"}
  MaxCmds = 1
  MaxChan = 1
PROPERTIES FullDiskReported
CHECK_DEADLOCK FALSE
