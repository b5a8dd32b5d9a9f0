SPECIFICATION Spec
CONSTANT Lengths <- MCLengths
INVARIANTS InBuffer Delivered
CHECK_DEADLOCK FALSE
