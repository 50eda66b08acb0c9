\* One CPU, two slots; no program destroys anyone, but a receiver may pass
\* a misaligned dstva to ipc_recv.
CONSTANTS
    NENV = 2
    NCPU = 1
    Values = {0}
    Calls = {"recv_misaligned"}

SPECIFICATION Spec

PROPERTY NoEnvVanishes
