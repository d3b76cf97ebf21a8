SPECIFICATION Spec
CONSTANT Calls <- CollateralCalls
INVARIANT TcbInfoStatusDocumented
CHECK_DEADLOCK FALSE
