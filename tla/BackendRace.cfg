\* Two threads that both find the guard clear.
SPECIFICATION Spec
CONSTANTS
    Threads = {t1, t2}
    EmulatorBuilds = FALSE
INVARIANTS AtMostOnce
CHECK_DEADLOCK FALSE
