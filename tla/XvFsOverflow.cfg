\* The bounds of XvFs.cfg: two calls of one block each, admitted together by
\* begin_op, and log_write's capacity test.
CONSTANTS
    Procs = {p1, p2}
    Blocks <- MCBlocks
    Values = {1}
    NBUF = 3
    NoBlock = NoBlock
    NoProc = NoProc
    MAXOPBLOCKS = 1
    LOGSIZE = 3
    NLOG <- MCNLOG
    MaxCrashes = 1
SPECIFICATION Spec
INVARIANT NoLogOverflow
