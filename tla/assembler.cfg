CONSTANTS
  Names <- Three
  Chars <- ThreeChars
  Hash <- ThreeHash
  Values <- MCValues
  Insns <- LabelInsns
  JumpBits = 3
  MaxItems = 6
SPECIFICATION Spec
INVARIANTS AddressByHash ReferencesTracked AddressesInText BranchesWellPlaced BranchesPatched OneSymbolPerLabel DataIntact SizesAgree SectionsKnown
PROPERTIES BindingsStable PatchesConfined StrtabSpec
