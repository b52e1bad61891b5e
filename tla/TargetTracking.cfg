SPECIFICATION Spec
CONSTANTS
  Ring = 6
  Alarm = {0, 1}
  MaxStep = 2
  Positions = {0, 24}
  MaxDetections = 2
  max_num_target = 3
  max_speed = 50
  max_acceleration = 31
  speed_threhold = 2
  p_radius = 1
  safe_distance = 1
  Vessels <- AtRest
INVARIANTS
  TypeOK
  TracksApart
  DangerIsNearVessel
PROPERTIES
  PassEvaluatedOnce
  TargetsFollowDetections
