SPECIFICATION Spec
CONSTANT m_MaxElements = 4
INVARIANTS
  TypeOK
  IterationVisitsHeld
  FreeListComplete
PROPERTY
  PoolSpec
