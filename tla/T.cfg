\* Two processes on two blocks with three buffers (NBUF = LOGSIZE, as in
\* param.h) and one crash: atomic group commit on the real buffer cache.
CONSTANTS
    Procs = {p1, p2}
    Blocks <- MCBlocks
    Values = {1}
    NBUF = 3
    NoBlock = NoBlock
    NoProc = NoProc
    MAXOPBLOCKS = 1
    LOGSIZE = 3
    NLOG <- MCNLOG
    MaxCrashes = 1
SPECIFICATION Spec
INVARIANT TypeOK
INVARIANT BufferIdentity
