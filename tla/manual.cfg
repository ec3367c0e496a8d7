CONSTANT Lines <- MCLines
SPECIFICATION Spec
INVARIANT FollowsManual
