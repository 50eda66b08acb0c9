\* Two environment slots on two CPUs, programs that fork, send, receive,
\* yield and exit: an environment RUNNING on one CPU while the other
\* schedules, and slots freed and reused by fork.
CONSTANTS
    NENV = 2
    NCPU = 2
    Values = {0, 1}
    Calls = {"exit"}

SPECIFICATION Spec

INVARIANT TypeOK
INVARIANT FreeListExact
INVARIANT NoDoubleRun
