SPECIFICATION Spec
CONSTANTS
  BUFFER_SIZE = 5
  MaxUnread = 3
  MaxBytes = 5
  Descriptors = 2
  AppBytes = {0, 7}
  Messages <- OneOfEach
INVARIANTS
  TypeOK
PROPERTIES
  ImplementsFeed
  NextIsServed
  NoneAfterPowerOff
