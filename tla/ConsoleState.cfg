SPECIFICATION FocusSpec
CONSTANTS
  NoProcess = NoProcess
  NoApp = NoApp
  NoBuffer = NoBuffer
  p1 = p1 p2 = p2
  h1 = h1 h2 = h2 h3 = h3 h4 = h4
  b1 = b1 b2 = b2
  ProcessCells <- TwoProcesses
  ObjectCells <- FourObjects
  Buffers <- TwoBuffers
  MainBuffer = b1
  Apps = {"cmd", "sh", NoApp}
  Texts = {"x", "y"}
  HistorySizes = {0, 1}
  InitialSize = 2
  InitialCount = 2
  MaxConnects = 3
SYMMETRY CellSymmetry
VIEW WithoutReplies
INVARIANTS ObjectsOwned HistoryOwners HistoryPrivate CommandsWithinLimit
 
