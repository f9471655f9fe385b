SPECIFICATION Spec
CONSTANTS
  a = a  b = b  c = c  d = d  x = x  y = y  bad = bad  big = big  w1 = w1  w2 = w2
  Paths <- TwoPaths
  Contents = {x, y}
  ProjectOf <- Together
  SizeOf <- SameSize
  NoChunks = NoChunks  NoFile = NoFile  NoContent = NoContent
  MaxIndexRetries = 2  Grain = 1
  Workers = {w1, w2}
  Moves <- NoMoves
  BadContents = {}  Documents = {}  NoTool = {}
  MaxFileSize = 8
  QueueCap = 2  MaxOps = 4  MaxFaults = 0
SYMMETRY Symmetric
CHECK_DEADLOCK FALSE
INVARIANTS SkipSound
