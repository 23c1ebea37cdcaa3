CONSTANTS
  Families <- MCFamilies
  Scanner <- MCScanner
  Opening <- MCOpening
  Alphabet <- MCAlphabet
  MaxText <- MCMaxText
  MaxTokens <- MCMaxTokens
SPECIFICATION Spec
INVARIANTS ScansGrammar TokensMean
CHECK_DEADLOCK FALSE
