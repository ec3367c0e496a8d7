CONSTANTS
  Names <- Two
  Chars <- TwoChars
  Hash <- TwoHash
  Values <- MCValues
  Insns <- FillInsns
  JumpBits = 21
  MaxItems = 4
SPECIFICATION Spec
INVARIANT ValueInItsSection
