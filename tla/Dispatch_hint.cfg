SPECIFICATION Spec
INVARIANT HintDisregarded
CHECK_DEADLOCK FALSE
