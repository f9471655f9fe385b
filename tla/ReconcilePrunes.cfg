SPECIFICATION RSpec
CONSTANTS
  a = a  b = b  x = x  y = y  bad = bad  big = big  w1 = w1
  Paths <- TwoPaths
  Contents = {x, y}
  ProjectOf <- Apart
  SizeOf <- SameSize
  NoChunks = NoChunks  NoFile = NoFile  NoContent = NoContent
  MaxIndexRetries = 2  Grain = 1
  Workers = {w1}
  Moves <- NoMoves
  BadContents = {}  Documents = {}  NoTool = {}
  MaxFileSize = 8
  QueueCap = 1  MaxOps = 2  MaxFaults = 0
CHECK_DEADLOCK FALSE
INVARIANT PruneSound
