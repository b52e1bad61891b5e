SPECIFICATION Spec
CONSTANTS
  MaxNodes = 9
  Cells <- MCCells
  Movements = {"F", "R"}
  Moves <- MCMoves
  Tables = {"penalties", "even"}
  Cost <- CostOfMovements
  Worlds <- MCWorlds
INVARIANT
  MovementLeadsHere
