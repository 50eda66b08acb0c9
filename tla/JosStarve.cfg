\* As JosSchedLive.cfg, but programs exit (exit() in libmain): after an
\* exit the CPU has no curenv and sched_yield scans from slot 0 again.
CONSTANTS
    NENV = 3
    NCPU = 1
    Values = {0}
    Calls = {"exit"}

SPECIFICATION Spec

PROPERTY RunnableEventuallyRuns
