SPECIFICATION Spec
CONSTANTS
  AppCommands = {5, 11}
  ScratchCommands = {}
  IrCodes = {}
  Obstacles = {FALSE}
  SensorReadings <- AnyReading
  Signals = {}
PROPERTIES
  StopObeyed
