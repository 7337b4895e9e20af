SPECIFICATION Spec
CONSTANTS
  Threads = {main, fun1}
  LEDs <- MCLEDs
  Calls <- MCCalls
  Memory = 2
  NoCall = NoCall
INVARIANTS
  TypeOK
  MemoryOutlivesDma
  SettledShows
PROPERTIES
  FailedInitGivesBack
