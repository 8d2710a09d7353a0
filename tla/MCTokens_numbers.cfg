CONSTANTS
  Width = 16
  Alphabet = {"0", "9", "x", "f"}
  MaxTokenLen = 3
SPECIFICATION Spec
INVARIANT NumberReadAsSpecified
\* a token of MaxTokenLen characters is not extended further
CHECK_DEADLOCK FALSE
