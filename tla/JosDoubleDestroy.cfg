\* Two CPUs, two slots; the parent destroys its child while the child is
\* running on the other CPU, and may do so twice.
CONSTANTS
    NENV = 2
    NCPU = 2
    Values = {0}
    Calls = {"destroy"}

SPECIFICATION Spec

INVARIANT NoDoubleRun
