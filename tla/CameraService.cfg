SPECIFICATION Spec
CONSTANTS
  Clients = {c1, c2}
  Tasks = {1}
INVARIANTS
  TypeOK
  OneFrame
  StoppedStays
PROPERTIES
  ServerSettles
  StreamGoesOn
\* With the server down and no check_running there, nothing has to happen.
CHECK_DEADLOCK FALSE
