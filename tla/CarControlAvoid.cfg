SPECIFICATION Spec
CONSTANTS
  AppCommands = {5, 17}
  ScratchCommands = {}
  IrCodes = {}
  Obstacles = {TRUE, FALSE}
  SensorReadings <- AnyReading
  Signals = {}
INVARIANTS
  StopIsDone
PROPERTIES
  StopObeyed
  DisconnectStops
  AvoidanceResumes
  TurnEnds
