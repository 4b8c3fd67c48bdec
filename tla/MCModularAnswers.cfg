SPECIFICATION AnswersSpec
CONSTANTS
  Sizes <- MCSizes
  ModularOperands = {0, 1, 2, 6, 7, 17}
  Ignored = {0}
  ModularExponents = {0, 1, 2}
INVARIANT ModulesAgree
CHECK_DEADLOCK FALSE
