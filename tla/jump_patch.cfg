CONSTANTS
  Names <- Two
  Chars <- TwoChars
  Hash <- TwoHash
  Values <- NoValues
  Insns <- JumpInsns
  JumpBits = 21
  MaxItems = 5
SPECIFICATION Spec
PROPERTY JumpPatchesJump
