SPECIFICATION Spec
CONSTANTS
  MaxPoints = 4
  Distances = {0, 2, 3}
  Radii = {1, 2}
INVARIANTS
  TypeOK
  LegExists
  WaypointsInOrder
  SpeedFitsCorner
  HeadingFollowsLeg
