CONSTANTS
  SubjectOf <- MCSubjectOf
  Kinds <- MCKinds
  Pieces <- MCPieces
  Documents <- MCDocuments
  MaxPieces <- MCMaxPieces
  MaxName = 2
  MaxTokens = 8
  MaxSubjects = 2
  Components <- MCComponents
  Params <- MCParams
  Consts <- MCConsts
  Styles <- MCStyles
  SubjectValue <- MCSubjectValue
  Chains <- MCChains
  Keys <- MCKeys
  Elements <- MCElements
  Bodies <- MCBodies
  Callers <- MCCallers
  MaxAttributes = 3
  MaxNesting = 2
  Counts <- MCCounts
  MaxRepeats = 3
SPECIFICATION Spec
INVARIANTS ExpressionMeans ViewExtracted ResolvedAsWritten ReportsOnlyUnknown
CHECK_DEADLOCK FALSE
