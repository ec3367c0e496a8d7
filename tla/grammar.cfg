CONSTANTS
  Names <- Two
  Chars <- TwoChars
  Hash <- TwoHash
  Values <- MCValues
  Insns <- AllInsns
  JumpBits = 3
  MaxItems = 5
SPECIFICATION FairSpec
INVARIANT TypeOK
PROPERTIES ResolvesByName Termination
