SPECIFICATION Spec
CONSTANT Link = "stm32"
INVARIANTS
  TypeOK
  SilenceIsNoticed
PROPERTIES
  ConnectionIsEarned
