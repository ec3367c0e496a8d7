CONSTANT Lines <- MCLines
SPECIFICATION Spec
INVARIANT OversizedRefused
