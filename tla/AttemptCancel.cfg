SPECIFICATION Spec
INVARIANT CapacityHeldWhileAlive
CHECK_DEADLOCK FALSE
