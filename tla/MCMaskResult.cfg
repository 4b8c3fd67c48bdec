SPECIFICATION CalculationsSpec
CONSTANTS
  Numbers <- SomeNumbers
  LeftOut = {}
  Base = 4
  Operands <- SomeOperands
  Answers <- SomeAnswers
  Exponents = {0, 1, 2, 3}
  Order = 5
  FieldPrime = 7
  NoResult = NoResult
  Handlers <- AllHandlers
  ModularOperands = {0}
  ModularExponents = {0}
  Ignored = {0}
  Sizes <- SomeSizes
INVARIANT RightResult
CHECK_DEADLOCK FALSE
