CONSTANT Lines <- MCLines
SPECIFICATION Spec
INVARIANTS ArithmeticFaithful MemoryFaithful ControlFaithful RangeCheckExact
