\* Two fork() calls among three slots, one store per environment, enough
\* frames for the whole fork chain: the parent stores before or after
\* each fork and every child stores through its copy-on-write page.
CONSTANTS
    Envs = {e0, e1, e2}
    Frames = {f01, f02, f03, f04, f05, f06, f07, f08, f09, f10, f11, f12, f13, f14, f15, f16, f17, f18}
    Values = {0, 1}
    NoFrame = NoFrame
    NoEnv = NoEnv
    InitEnv = e0
    MaxForks = 2
    MaxWrites = 1

SPECIFICATION Spec

INVARIANT TypeOK
INVARIANT WritableExclusive

PROPERTY PrivateMemory
PROPERTY ForkCopiesMemory
PROPERTY FaultResolves

\* Every environment may panic when memory runs out (a user panic drops into
\* the kernel monitor, and sched_halt does the same once nothing is runnable).
CHECK_DEADLOCK FALSE
