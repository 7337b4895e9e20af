SPECIFICATION Spec
CONSTANTS
  AppCommands = {}
  ScratchCommands = {}
  IrCodes <- UpAndStop
  Obstacles = {FALSE}
  SensorReadings <- AnyReading
  Signals = {"SIGINT"}
CHECK_DEADLOCK FALSE
PROPERTIES
  IrStopObeyedAgain
