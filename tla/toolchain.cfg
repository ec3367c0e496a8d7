CONSTANTS
  Names <- Two
  Chars <- TwoChars
  Hash <- TwoHash
  Values <- ToolValues
  Insns <- ToolInsns
  JumpBits = 21
  MaxItems = 4
  CommandLines <- MCCommandLines
  Files <- MCFiles
  Lost <- MCLost
SPECIFICATION ToolSpec
INVARIANTS LinkerView RegionsTile DumpShowsProgram TruncationShowsNothing FailureWritesNothing
PROPERTY SourcesSurvive
