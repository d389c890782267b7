SPECIFICATION Spec
CONSTANT NumSubnets = 1
INVARIANT InitiallyRetriesMoreOften
