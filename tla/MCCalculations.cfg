SPECIFICATION CalculationsSpec
CONSTANTS
  Numbers <- SomeNumbers
  LeftOut = {"Mask"}
  Base = 4
  Operands <- SomeOperands
  Answers <- SomeAnswers
  Exponents = {0, 1, 2, 3}
  Order = 5
  FieldPrime = 7
  NoResult = NoResult
  Handlers <- AllHandlers
  ModularOperands <- SomeModular
  ModularExponents = {0, 1, 2, 3, 5}
  Ignored = {0, 17}
  Sizes <- SomeSizes
INVARIANTS
  CallsGetLivePointers
  FreedOnce
  RightResult
  VerdictsJustified
  AnswersAgree
CHECK_DEADLOCK FALSE
