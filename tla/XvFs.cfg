\* Two processes on two blocks with three buffers (NBUF = LOGSIZE, as in
\* param.h) and one crash: atomic group commit on the real buffer cache,
\* and no lost wakeup. A call writes the value 1 over mkfs's 0.
CONSTANTS
    Procs = {p1, p2}
    Blocks <- MCBlocks
    Values = {1}
    NBUF = 3
    NoBlock = NoBlock
    NoProc = NoProc
    MAXOPBLOCKS = 1
    LOGSIZE = 3
    NLOG <- MCNLOG
    MaxCrashes = 1
SPECIFICATION Spec
INVARIANT TypeOK
INVARIANT BufferIdentity
PROPERTY TxnAtomic
PROPERTY BeginOpWoken
