------------------------------ MODULE AtomicTxn ------------------------------
(***************************************************************************)
(* What the xv6 log promises the file system (the comment at the head of  *)
(* src/xv6-public/log.c): system calls bracketed by begin_op/end_op see    *)
(* and change one shared view of the disk, and what survives a crash is   *)
(* exactly the view at some instant when no such call was in progress.    *)
(*   durable  what the disk holds after recovery                           *)
(*   current  what bread returns                                           *)
(*   active   the calls between begin_op and end_op                        *)
(***************************************************************************)
CONSTANTS Procs, Blocks, Values

VARIABLES durable, current, active

Begin(p) ==
    /\ p \notin active
    /\ active' = active \cup {p}
    /\ UNCHANGED <<durable, current>>

Write(p, b, v) ==
    /\ p \in active
    /\ current' = [current EXCEPT ![b] = v]
    /\ UNCHANGED <<durable, active>>

End(p) ==
    /\ p \in active
    /\ active' = active \ {p}
    /\ UNCHANGED <<durable, current>>

(* A group commit: only between calls, and all their writes at once.      *)
Commit ==
    /\ active = {}
    /\ durable' = current
    /\ UNCHANGED <<current, active>>

(* A crash loses every write since the last commit and every open call.   *)
Crash ==
    /\ current' = durable
    /\ active' = {}
    /\ UNCHANGED durable

Init ==
    /\ durable \in [Blocks -> Values]
    /\ current = durable
    /\ active = {}

Next ==
    \/ \E p \in Procs : Begin(p) \/ End(p) \/ \E b \in Blocks, v \in Values : Write(p, b, v)
    \/ Commit
    \/ Crash

Spec == Init /\ [][Next]_<<durable, current, active>>

=============================================================================
