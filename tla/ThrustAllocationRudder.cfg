SPECIFICATION Spec
CONSTANTS
  num_tunnel = 1
  num_azimuth = 1
  num_mainrudder = 1
  num_twinfixed = 0
  max_delta_rotation <- MixedDelta
  max_delta_rotation_p2n <- MixedMin
  max_rotation <- MixedLimits
  min_rotation <- MixedMin
  max_delta_angle <- MixedTurn
  max_angle <- MixedRight
  min_angle <- MixedLeft
  RudderGain <- Gain
  ly <- NoTwins
  Forces = {0, 1}
INVARIANT
  RudderWithinLimits
