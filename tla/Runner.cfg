CONSTANTS
    Instance = {sound, flaky}
    Signal = {logs, metrics, traces}
    NoInstance = NoInstance
    StartMayFail = {flaky}
SPECIFICATION RunnerSpec
SYMMETRY MCSymmetry
CHECK_DEADLOCK FALSE
INVARIANT RunnerTypeOK
INVARIANT KeptIsWhole
INVARIANT StoppedRunsNothing
INVARIANT ClosedRunsNothing
