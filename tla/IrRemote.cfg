SPECIFICATION Spec
CONSTANTS
  Codes <- MCCodes
  Known <- MCKnown
  ServoBits = {"servoLeft", "servoUp"}
  ServoCode <- MCServoCode
  Start <- MCStart
  Low <- MCLow
  High <- MCHigh
INVARIANTS
  TypeOK
  PulseInRange
PROPERTIES
  OnlySentCommands
  LastPressIsRun
