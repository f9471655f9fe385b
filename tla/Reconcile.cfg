SPECIFICATION ReconcileSpec
CONSTANTS
  a = a  b = b  x = x  y = y  bad = bad  big = big  w1 = w1
  Paths = {a}
  Contents = {x, y, bad}
  ProjectOf <- Apart
  SizeOf <- SameSize
  NoChunks = NoChunks  NoFile = NoFile  NoContent = NoContent
  MaxIndexRetries = 2  Grain = 1
  Workers = {w1}
  Moves <- NoMoves
  BadContents = {bad}  Documents = {a}  NoTool = {}
  MaxFileSize = 8
  QueueCap = 1  MaxOps = 2  MaxFaults = 1
CHECK_DEADLOCK FALSE
INVARIANT RTypeOK
PROPERTIES SelfHeal BadFilesRest
