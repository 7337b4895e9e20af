SPECIFICATION Spec
CONSTANTS
  Main = main
  Thread = {main, fun2}
  Motor <- OneMotor
  Width = 2
  BitA <- OneBitA
  BitB <- OneBitB
  PowerUp <- Dark
INVARIANTS
  TypeOK
  UndisturbedCall
PROPERTIES
  ImplementsBoard
