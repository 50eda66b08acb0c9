\* The bounds of XvTrap.cfg, with two heap pages and a page above KERNBASE
\* that the program may load from or store to.
CONSTANTS
    TICKW = 2
    SleepArgs <- MCSleepArgs
    AlarmArgs = {1, 2}
    KERNBASE = 8
    VAs <- MCLeakVAs
    PTPAGES = 2
    Values = {0, 1}
    Load = Load
    Junk = Junk
    NoPage = NoPage
    NFRAMES = 4
    Main = Main
    Handler = Handler
    MaxNest = 2

SPECIFICATION Spec

INVARIANT NoPageLeak
