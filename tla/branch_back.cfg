CONSTANTS
  Names <- Two
  Chars <- TwoChars
  Hash <- TwoHash
  Values <- NoValues
  Insns <- FlowInsns
  JumpBits = 21
  MaxItems = 5
SPECIFICATION NoGloblSpec
PROPERTY BackwardBranchReachesLabel
