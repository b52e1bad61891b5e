SPECIFICATION FairSpec
CONSTANTS
  MaxNodes = 9
  Cells <- MCCells
  Movements = {"F", "R"}
  Moves <- MCMoves
  Tables = {"penalties", "even"}
  Cost <- CostOfMovements
  Worlds <- MCWorlds
INVARIANTS
  TypeOK
  MemoryAccounted
  OneNodePerCell
  ParentsLeadToStart
  SolutionIsPath
  FailureMeansUnreachable
  SolutionIsShortest
PROPERTY
  SearchTerminates
