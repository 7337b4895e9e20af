SPECIFICATION Spec
CONSTANTS
  AppCommands = {0, 1, 3, 4, 5}
  ScratchCommands = {2, 5}
  IrCodes = {}
  Obstacles = {TRUE, FALSE}
  SensorReadings <- AnyReading
  Signals = {}
INVARIANTS
  TypeOK
  WaitingMeansStopped
PROPERTIES
  StopObeyed
  ObstacleStops
