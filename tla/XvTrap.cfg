\* ticks two bits wide so that every sleep can straddle the wrap; three
\* heap pages in two page-table pages and four free pages, so that
\* kalloc or walkpgdir runs out on some orders of first touches; alarms
\* of one and two ticks, and up to two upcalls the handler has not
\* returned from.
CONSTANTS
    TICKW = 2
    SleepArgs <- MCSleepArgs
    AlarmArgs = {1, 2}
    KERNBASE = 8
    VAs <- MCVAs
    PTPAGES = 2
    Values = {0, 1}
    Load = Load
    Junk = Junk
    NoPage = NoPage
    NFRAMES = 4
    Main = Main
    Handler = Handler
    MaxNest = 2

SPECIFICATION Spec

INVARIANT TypeOK
INVARIANT ZeroFill
INVARIANT SleepLasts
INVARIANT NoPageLeak
PROPERTY SleepReturns
