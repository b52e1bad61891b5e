SPECIFICATION Spec
CONSTANTS
  num_tunnel = 1
  num_azimuth = 1
  num_mainrudder = 0
  num_twinfixed = 2
  max_delta_rotation <- FleetDelta
  max_delta_rotation_p2n <- FleetBand
  max_rotation <- FleetLimits
  min_rotation <- FleetMin
  max_delta_angle <- FleetTurn
  max_angle <- FleetRight
  min_angle <- FleetLeft
  RudderGain <- Gain
  ly <- TwinPosition
  Forces <- AllSigns
INVARIANTS
  TypeOK
  SignAgreesWithAngle
  WithinLimits
PROPERTIES
  ReversesOnlyNearStandstill
  SlewRateLimited
  FrozenAfterSolverError
