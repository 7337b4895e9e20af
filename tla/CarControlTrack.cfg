SPECIFICATION Spec
CONSTANTS
  AppCommands = {5, 11, 12}
  ScratchCommands = {}
  IrCodes = {}
  Obstacles = {TRUE, FALSE}
  SensorReadings <- AnyReading
  Signals = {}
PROPERTIES
  TrackingStops
  DisconnectStops
