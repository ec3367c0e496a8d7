CONSTANTS
  Names <- Two
  Chars <- TwoChars
  Hash <- TwoHash
  Values <- NoValues
  Insns <- FlowInsns
  JumpBits = 21
  MaxItems = 7
SPECIFICATION Spec
INVARIANT BranchReachesLabel
