SPECIFICATION Spec
CONSTANT Uses <- All
INVARIANTS TypeOK LatchesAgree AccessesLand
PROPERTY NmiReturns
