\* Two consoles, every kind of device. What a console sends is served in order,
\* so that one datagram on the way per console stands for any number.
SPECIFICATION Spec
CONSTANTS
  a = a
  b = b
  Clients = {a, b}
  CmdIds = 4
  Units = 3
  MaxAddress = 5
  Starts = {0, 1}
  Counts = {3}
  PacketUnits = 2
  Devices = {"image", "filling", "readonly", "raw", "rawreadonly"}
  MaxCmds = 2
  MaxChan = 1
SYMMETRY ConsoleSymmetry
PROPERTIES WritesConfined AnsweredTruly
CHECK_DEADLOCK FALSE
