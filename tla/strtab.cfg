CONSTANTS
  Chars <- MCChars
  String <- MCString
  MaxBytes = 14
SPECIFICATION BoundedSpec
INVARIANTS IInv StoredIntact ReadsBack
CHECK_DEADLOCK FALSE
