SPECIFICATION Spec
CONSTANT L = 3
INVARIANTS
  TypeOK
  OneLateError
  WindowForgetsStart
PROPERTIES
  ErrorsStayOnTarget
  EventuallyOnTarget
