SPECIFICATION ReadPrintSpec
CONSTANTS
  Texts <- MCTexts
  Beyond <- MCBeyond
  Constants <- MCConstants
  MaxNumber = 15
  MinNumber <- MCMinNumber
INVARIANTS
  BlanksInEmptyList
