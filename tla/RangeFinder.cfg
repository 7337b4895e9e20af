SPECIFICATION Spec
CONSTANTS
  Distances <- EdgeDistances
INVARIANTS
  TypeOK
  TwoSmallerDecide
  SilenceIsOwed
PROPERTIES
  AlarmFallsSilent
  PowerOffIsSilent
  LimitIsHeard
