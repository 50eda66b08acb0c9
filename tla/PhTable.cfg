\* Two threads, four keys over two buckets: each thread puts two keys, so
\* puts of both threads race for one bucket and keys may repeat.
CONSTANTS
    NTHREAD = 2
    NKEYS = 4
    NBUCKET = 2
    KeyVals <- MCKeyVals
    NoThread = NoThread

SPECIFICATION Spec

INVARIANT TypeOK
INVARIANT NoKeyMissing
PROPERTY AllJoined

\* The program ends once main has joined every thread.
CHECK_DEADLOCK FALSE
