CONSTANTS
  Names <- Two
  Chars <- TwoChars
  Hash <- TwoHash
  Values <- NoValues
  Insns <- FillInsns
  JumpBits = 21
  MaxItems = 4
SPECIFICATION Spec
PROPERTY LabelStartsBlock
