\* Round robin on one CPU among three slots, programs that never exit (as
\* the primes pipeline): every RUNNABLE environment gets the CPU, and with
\* two senders racing for one receiver every receive returns one completed
\* send. The sender's identity tells messages apart, so one IPC value
\* suffices.
CONSTANTS
    NENV = 3
    NCPU = 1
    Values = {0}
    Calls = {}

SPECIFICATION Spec

PROPERTY RunnableEventuallyRuns
PROPERTY RecvGetsSentValue
