\* Two threads: what remains true of the notice when calls overlap.
SPECIFICATION Spec
CONSTANTS
    Threads = {t1, t2}
    EmulatorBuilds = TRUE
INVARIANTS ActiveBackendRuns NoLaterNotice LoudByDefault MutedIsQuiet
CHECK_DEADLOCK FALSE
