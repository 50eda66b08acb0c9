\* One fork() and a frame pool one page short of what a copy-on-write
\* fault of the parent needs after the fork: the page table for PFTEMP
\* cannot be allocated once sys_page_alloc has taken the data page.
CONSTANTS
    Envs = {e0, e1}
    Frames = {f01, f02, f03, f04, f05, f06, f07, f08, f09, f10, f11}
    Values = {0, 1}
    NoFrame = NoFrame
    NoEnv = NoEnv
    InitEnv = e0
    MaxForks = 1
    MaxWrites = 1

SPECIFICATION Spec

INVARIANT NoFrameLeak

\* Every environment may panic when memory runs out (see CowForkRefine.cfg).
CHECK_DEADLOCK FALSE
