------------------------------- MODULE MCXvTrap -------------------------------
EXTENDS XvTrap

(* sleep(-1), sleep(0) and sleeps of one and two ticks.                    *)
MCSleepArgs == -1 .. 2

(* Three heap pages over two page-table pages.                             *)
MCVAs == 0 .. 2

(* Two heap pages, and a kernel page above KERNBASE that user code        *)
(* touches.                                                                *)
MCLeakVAs == {0, 1, KERNBASE + 1}

=============================================================================
