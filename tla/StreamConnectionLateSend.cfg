SPECIFICATION Spec
INVARIANT SendsWhileRunning
CHECK_DEADLOCK FALSE
