SPECIFICATION Spec
CONSTANTS
  MaxExprDepth = 5
  MaxLikePatternBytes = 3
  Fleet <- MCFleet
  Texts <- MCTexts
INVARIANTS
  ParsesAsGrammar
  AnswersMatch
  ExecOnlyWhereAsked
CHECK_DEADLOCK FALSE
