SPECIFICATION Spec
CONSTANTS
  Main = main
  Thread = {main}
  Motor <- FourMotors
  Width = 8
  BitA <- HeaderBitA
  BitB <- HeaderBitB
  PowerUp <- AllOrNothing
INVARIANTS
  NeverBothInputs
PROPERTIES
  ImplementsBoard
