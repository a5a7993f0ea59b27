SPECIFICATION RLSpec
CONSTANT Backends = {d1, d2}
CHECK_DEADLOCK FALSE
INVARIANT LifecycleNeverDeadlocks
