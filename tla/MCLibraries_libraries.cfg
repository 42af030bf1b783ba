SPECIFICATION Spec
CONSTANTS
  NoKey = NoKey
  Exact = 4
  MaxSize = 15
  DoubleSize = 2
  MaxElems = 3
  EncodeInside <- MCEncode
  DecodeInside <- MCDecode
  SettledInside <- MCSettled
  SayableInside <- MCSayable
  SameInside <- MCSame
  Chars <- MCChars
  Names <- MCNames
  ValueLevels <- MCValueLevels
  Small <- MCSmall
  KeyValues <- MCKeyValues
  DocumentLevels <- MCDocumentLevels
  Texts <- MCTexts
  Dicts <- MCDicts
INVARIANT JsonRoundTrip
INVARIANT MergeDiffAgree
INVARIANT ReplaceFits
INVARIANT BuiltMatrixFits
CHECK_DEADLOCK FALSE
