--------------------------------- MODULE XvFs ---------------------------------
(***************************************************************************)
(* The xv6 write-ahead log (src/xv6-public/log.c) on the buffer cache it  *)
(* uses (src/xv6-public/bio.c), with crashes and recovery.                 *)
(* Disk blocks are numbered as mkfs lays them out from log.start = 0: the *)
(* header block HEAD = 0, the log blocks 1 .. NLOG-1, then Blocks, the     *)
(* blocks that file-system calls read and write.                           *)
(*   disk[n]    block n on the disk, for the log and data blocks           *)
(*   dhead      the on-disk logheader (block HEAD); write_head writes it   *)
(*              through the cache, so a valid header buffer holds dhead,   *)
(*              and its data is not kept in the buffer                     *)
(*   buf[i]     struct buf: blockno, refcnt, B_VALID, B_DIRTY, data, and   *)
(*              the holder of its sleep-lock                               *)
(*   lru        the list from bcache.head.next to bcache.head.prev         *)
(*   lh, outstanding, committing   struct log                              *)
(* A process runs file-system calls: begin_op, then any number of         *)
(* bread/brelse of blocks, writing at most MAXOPBLOCKS distinct blocks    *)
(* with bp->data = v; log_write(bp), then end_op. bget, the sleep-lock,   *)
(* log_write's unlocked capacity test and its locked append are separate  *)
(* steps, as the locks in the code make them. commit() and recovery run   *)
(* while no call holds a buffer, so each of their disk writes is a step.  *)
(***************************************************************************)
EXTENDS Integers, Sequences, SequencesExt

CONSTANTS
    Procs,          \* processes making file-system calls
    Blocks,         \* numbers of the blocks the calls use, after the log
    Values,         \* contents that calls write, abstracted
    NBUF,           \* param.h: buffers in bcache
    NoBlock,        \* a buffer that never held a block
    NoProc,         \* a free sleep-lock
    MAXOPBLOCKS,    \* param.h: blocks one call may write
    LOGSIZE,        \* param.h: 3 * MAXOPBLOCKS
    NLOG,           \* sb.nlog = log.size, the header block included
    MaxCrashes      \* bound on crashes (reboots)

ASSUME Blocks \subseteq Nat /\ \A b \in Blocks : b >= NLOG

Bufs == 1 .. NBUF
HEAD == 0
LogSlots == 1 .. NLOG - 1
BlockNos == {HEAD} \cup LogSlots \cup Blocks

(* Block contents: mkfs zeroes every block, and calls write Values.      *)
Contents == {0} \cup Values

VARIABLES disk, dhead, buf, lru, lh, outstanding, committing,
          pc, hb, want, touched, tail, boot, panicked, crashes

vars == <<disk, dhead, buf, lru, lh, outstanding, committing,
          pc, hb, want, touched, tail, boot, panicked, crashes>>

Buf == [blk : BlockNos \cup {NoBlock}, refcnt : 0 .. Cardinality(Procs),
        valid : BOOLEAN, dirty : BOOLEAN, data : Contents,
        holder : Procs \cup {NoProc}]

TypeOK ==
    /\ disk \in [LogSlots \cup Blocks -> Contents] /\ dhead \in Seq(Blocks)
    /\ buf \in [Bufs -> Buf]
    /\ lru \in [1 .. NBUF -> Bufs]
    /\ lh \in Seq(Blocks)
    /\ outstanding \in 0 .. Cardinality(Procs)
    /\ committing \in BOOLEAN
    /\ pc \in [Procs -> {"idle", "begin", "asleep", "inop", "lock", "held",
                         "logwrite", "write_log", "install",
                         "done"}]
    /\ hb \in [Procs -> Bufs] /\ want \in [Procs -> Blocks]
    /\ touched \in [Procs -> SUBSET Blocks]
    /\ tail \in 0 .. NLOG
    /\ boot \in {"read_head", "install", "up"}
    /\ panicked \in BOOLEAN
    /\ crashes \in 0 .. MaxCrashes

(* binit: every buffer empty, pushed at the head in turn.                 *)
EmptyBufs == [i \in Bufs |-> [blk |-> NoBlock, refcnt |-> 0, valid |-> FALSE,
                               dirty |-> FALSE, data |-> 0, holder |-> NoProc]]
BinitLru == [k \in Bufs |-> NBUF + 1 - k]

(* A freshly made file system, booting; the first process runs initlog.   *)
Init ==
    /\ disk = [n \in LogSlots \cup Blocks |-> 0] /\ dhead = <<>>
    /\ buf = EmptyBufs /\ lru = BinitLru
    /\ lh = <<>> /\ outstanding = 0 /\ committing = FALSE
    /\ pc = [p \in Procs |-> "idle"]
    /\ hb = [p \in Procs |-> 1] /\ want = [p \in Procs |-> Min(Blocks)]
    /\ touched = [p \in Procs |-> {}]
    /\ tail = 0 /\ boot = "read_head"
    /\ panicked = FALSE /\ crashes = 0

----------------------------------------------------------------------------
(* The buffer cache, as operators on a state c = [buf, lru].              *)

(* Positions in the list of the buffers bget may take for n: the one      *)
(* holding n, and the recyclable ones (refcnt 0 and B_DIRTY clear).       *)
CachedIn(c, n) == {k \in 1 .. Len(c.lru) : c.buf[c.lru[k]].blk = n}

(* Seeded fault: bget recycles a buffer whatever its refcnt.             *)
FreeIgnoreRefcnt(c) == {k \in 1 .. Len(c.lru) : ~c.buf[c.lru[k]].dirty}

FreeIn(c) ==
    {k \in 1 .. Len(c.lru) : c.buf[c.lru[k]].refcnt = 0 /\ ~c.buf[c.lru[k]].dirty}

(* bget does not panic: n is cached or a buffer can be recycled.          *)
HasBuf(c, n) == CachedIn(c, n) # {} \/ FreeIn(c) # {}

(* bget's choice: the first buffer from head.next holding n, else the     *)
(* first recyclable one from head.prev.                                   *)
Pick(c, n) ==
    IF CachedIn(c, n) # {} THEN c.lru[Min(CachedIn(c, n))] ELSE c.lru[Max(FreeIn(c))]

(* bget(dev, n): take a reference, recycling the buffer (flags 0) if it   *)
(* held another block; the old data, which iderw overwrites before anyone *)
(* reads it, is dropped.                                                   *)
Claim(c, n) ==
    [c EXCEPT !.buf[Pick(c, n)] =
        IF @.blk = n THEN [@ EXCEPT !.refcnt = @ + 1]
        ELSE [@ EXCEPT !.blk = n, !.valid = FALSE, !.dirty = FALSE, !.refcnt = 1,
                       !.data = 0]]

(* The rest of bread: iderw reads the block in unless B_VALID.            *)
Load(c, i) ==
    LET r == c.buf[i] IN
    [c EXCEPT !.buf[i] = [r EXCEPT !.valid = TRUE,
                                   !.data = IF r.valid \/ r.blk = HEAD THEN r.data
                                            ELSE disk[r.blk]]]

(* bread(dev, n) by the kernel while no call holds a buffer.             *)
Bread(c, n) == Load(Claim(c, n), Pick(c, n))

(* bwrite: iderw writes the buffer and clears B_DIRTY.                    *)
Bwritten(c, i) == [c EXCEPT !.buf[i].dirty = FALSE]

(* Seeded fault: brelse links the buffer at the head without unlinking it. *)
RelseNoUnlink(c, i) ==
    [c EXCEPT !.buf[i] = [@ EXCEPT !.refcnt = @ - 1, !.holder = NoProc],
              !.lru = IF c.buf[i].refcnt = 1 THEN <<i>> \o @ ELSE @]

(* brelse: drop the sleep-lock and the reference; the last reference     *)
(* moves the buffer to the head of the list.                              *)
Relse(c, i) ==
    [c EXCEPT !.buf[i] = [@ EXCEPT !.refcnt = @ - 1, !.holder = NoProc],
              !.lru = IF c.buf[i].refcnt = 1 THEN <<i>> \o Remove(@, i) ELSE @]

Cache == [buf |-> buf, lru |-> lru]

(* The cache becomes c in this step.                                      *)
SetCache(c) == buf' = c.buf /\ lru' = c.lru

(* What bread(n) returns now: the valid buffer holding n, or the disk.    *)
Read(n) ==
    LET held == {i \in Bufs : buf[i].blk = n /\ buf[i].valid} IN
    IF held = {} THEN disk[n] ELSE buf[CHOOSE i \in held : TRUE].data

Up == boot = "up" /\ ~panicked

Logged(b) == \E i \in 1 .. Len(lh) : lh[i] = b

(* wakeup(&log): every process asleep in begin_op retries its loop.      *)
WakeAll(pcs) == [q \in Procs |-> IF pcs[q] = "asleep" THEN "begin" ELSE pcs[q]]

(* panic(): the kernel stops where it is.                                  *)
Panic == panicked' = TRUE /\ UNCHANGED <<disk, dhead, buf, lru, lh, outstanding,
             committing, pc, hb, want, touched, tail, boot, crashes>>

(* write_head(): bp = bread(HEAD); the header := h; bwrite(bp); brelse.   *)
WriteHeader(h) ==
    LET i == Pick(Cache, HEAD) IN
    SetCache(Relse(Bwritten(Bread(Cache, HEAD), i), i)) /\ dhead' = h

----------------------------------------------------------------------------
(* Recovery (recover_from_log, from initlog at boot). The cache is empty  *)
(* at boot, so its breads find buffers.                                    *)

(* read_head: lh := the header read through the cache.                    *)
ReadHead ==
    /\ boot = "read_head" /\ ~panicked
    /\ LET c1 == Bread(Cache, HEAD)
           i == Pick(Cache, HEAD)
       IN lh' = dhead /\ SetCache(Relse(c1, i))
    /\ tail' = 0 /\ boot' = "install"
    /\ UNCHANGED <<disk, dhead, outstanding, committing, pc, hb, want, touched,
                   panicked, crashes>>

(* install_trans(0), one block: dbuf = bread(home); lbuf = bread(log      *)
(* block tail+1); copy; brelse(lbuf); bwrite(dbuf); brelse(dbuf).         *)
RecoverInstall ==
    /\ boot = "install" /\ ~panicked /\ tail < Len(lh)
    /\ \E d \in {Pick(Cache, lh[tail + 1])}, c1 \in {Bread(Cache, lh[tail + 1])} :
       \E l \in {Pick(c1, tail + 1)}, c2 \in {Bread(c1, tail + 1)} :
          /\ d # l
          /\ SetCache(Relse(Bwritten(Relse([c2 EXCEPT !.buf[d].data = c2.buf[l].data],
                                            l), d), d))
          /\ disk' = [disk EXCEPT ![lh[tail + 1]] = c2.buf[l].data]
    /\ tail' = tail + 1
    /\ UNCHANGED <<dhead, lh, outstanding, committing, pc, hb, want, touched,
                   boot, panicked, crashes>>

(* log.lh.n = 0; write_head(): the log is empty and the system is up.    *)
RecoverClear ==
    /\ boot = "install" /\ ~panicked /\ tail = Len(lh)
    /\ lh' = <<>> /\ WriteHeader(<<>>) /\ boot' = "up" /\ tail' = 0
    /\ UNCHANGED <<disk, outstanding, committing, pc, hb, want, touched,
                   panicked, crashes>>

----------------------------------------------------------------------------
(* begin_op: sleep while a commit runs or the log might not hold one more *)
(* call's MAXOPBLOCKS blocks; otherwise join the current transaction.     *)
BeginOp(p) ==
    /\ Up /\ pc[p] \in {"idle", "begin"}
    /\ IF committing \/ Len(lh) + (outstanding + 1) * MAXOPBLOCKS > LOGSIZE
       THEN pc' = [pc EXCEPT ![p] = "asleep"] /\ UNCHANGED outstanding
       ELSE pc' = [pc EXCEPT ![p] = "inop"] /\ outstanding' = outstanding + 1
    /\ UNCHANGED <<disk, dhead, buf, lru, lh, committing, hb, want, touched, tail,
                   boot, panicked, crashes>>

(* bread(dev, b), first part: bget under bcache.lock takes a reference   *)
(* to b's buffer or recycles one, or panics.                              *)
Bget(p, b) ==
    /\ Up /\ pc[p] = "inop"
    /\ IF HasBuf(Cache, b)
       THEN /\ SetCache(Claim(Cache, b))
            /\ hb' = [hb EXCEPT ![p] = Pick(Cache, b)]
            /\ want' = [want EXCEPT ![p] = b]
            /\ pc' = [pc EXCEPT ![p] = "lock"]
            /\ UNCHANGED panicked
       ELSE Panic
    /\ UNCHANGED <<disk, dhead, lh, outstanding, committing, touched, tail, boot,
                   crashes>>

(* acquiresleep(&b->lock) at the end of bget, then iderw unless B_VALID.  *)
Lock(p) ==
    /\ Up /\ pc[p] = "lock" /\ buf[hb[p]].holder = NoProc
    /\ SetCache([Load(Cache, hb[p]) EXCEPT !.buf[hb[p]].holder = p])
    /\ pc' = [pc EXCEPT ![p] = "held"]
    /\ UNCHANGED <<disk, dhead, lh, outstanding, committing, hb, want, touched, tail,
                   boot, panicked, crashes>>

(* The call sets bp->data = v (keeping to MAXOPBLOCKS distinct blocks)   *)
(* and calls log_write, which, before acquire(&log.lock), panics if the   *)
(* header looks full or no call is open, reading log.lh.n and             *)
(* log.outstanding unlocked. The store is one step with the test: only    *)
(* the holder of the sleep-lock sees the buffer until brelse.             *)
LogWriteCheck(p, v) ==
    /\ Up /\ pc[p] = "held"
    /\ want[p] \in touched[p] \/ Cardinality(touched[p]) < MAXOPBLOCKS
    /\ IF Len(lh) >= LOGSIZE \/ Len(lh) >= NLOG - 1 \/ outstanding < 1
       THEN Panic
       ELSE /\ buf' = [buf EXCEPT ![hb[p]].data = v]
            /\ touched' = [touched EXCEPT ![p] = @ \cup {want[p]}]
            /\ pc' = [pc EXCEPT ![p] = "logwrite"]
            /\ UNCHANGED <<disk, dhead, lru, lh, outstanding, committing, hb,
                           want, tail, boot, panicked, crashes>>

(* Seeded fault: log_write does not set B_DIRTY.                          *)
LogWriteAppendNoPin(p) ==
    /\ Up /\ pc[p] = "logwrite"
    /\ lh' = IF Logged(want[p]) THEN lh ELSE Append(lh, want[p])
    /\ pc' = [pc EXCEPT ![p] = "held"]
    /\ UNCHANGED <<disk, dhead, buf, lru, outstanding, committing, hb, want, touched,
                   tail, boot, panicked, crashes>>

(* The rest of log_write, under log.lock: record the block once in        *)
(* lh.block (absorption) and pin the buffer with B_DIRTY.                 *)
LogWriteAppend(p) ==
    /\ Up /\ pc[p] = "logwrite"
    /\ lh' = IF Logged(want[p]) THEN lh ELSE Append(lh, want[p])
    /\ buf' = [buf EXCEPT ![hb[p]].dirty = TRUE]
    /\ pc' = [pc EXCEPT ![p] = "held"]
    /\ UNCHANGED <<disk, dhead, lru, outstanding, committing, hb, want, touched,
                   tail, boot, panicked, crashes>>

(* brelse(bp) by the call; bp and its block number are dead after it.   *)
Brelse(p) ==
    /\ Up /\ pc[p] = "held"
    /\ SetCache(Relse(Cache, hb[p]))
    /\ pc' = [pc EXCEPT ![p] = "inop"]
    /\ hb' = [hb EXCEPT ![p] = 1] /\ want' = [want EXCEPT ![p] = Min(Blocks)]
    /\ UNCHANGED <<disk, dhead, lh, outstanding, committing, touched, tail,
                   boot, panicked, crashes>>

(* end_op: the last call out sets committing and goes on into commit()   *)
(* (which does nothing for an empty log); any other wakes the sleepers.   *)
EndOp(p) ==
    /\ Up /\ pc[p] = "inop"
    /\ outstanding' = outstanding - 1
    /\ panicked' = committing
    /\ touched' = [touched EXCEPT ![p] = {}]
    /\ IF outstanding = 1
       THEN /\ committing' = TRUE
            /\ pc' = [pc EXCEPT ![p] = IF lh = <<>> THEN "done" ELSE "write_log"]
            /\ tail' = 0
       ELSE /\ pc' = WakeAll([pc EXCEPT ![p] = "idle"])
            /\ UNCHANGED <<committing, tail>>
    /\ UNCHANGED <<disk, dhead, buf, lru, lh, hb, want, boot, crashes>>

(* write_log, one block: to = bread(log block tail+1); from = bread(the   *)
(* logged block); copy; bwrite(to); brelse(from); brelse(to). Each cache  *)
(* state is bound once (\E over a singleton) so that it is computed once.  *)
WriteLog(p) ==
    /\ Up /\ pc[p] = "write_log" /\ tail < Len(lh)
    /\ IF HasBuf(Cache, tail + 1) /\ HasBuf(Claim(Cache, tail + 1), lh[tail + 1])
       THEN \E t \in {Pick(Cache, tail + 1)}, c1 \in {Bread(Cache, tail + 1)} :
            \E f \in {Pick(c1, lh[tail + 1])}, c2 \in {Bread(c1, lh[tail + 1])} :
               /\ t # f
               /\ SetCache(Relse(Relse(Bwritten([c2 EXCEPT !.buf[t].data = c2.buf[f].data],
                                               t), f), t))
               /\ disk' = [disk EXCEPT ![tail + 1] = c2.buf[f].data]
               /\ tail' = tail + 1
               /\ UNCHANGED panicked
       ELSE Panic
    /\ UNCHANGED <<dhead, lh, outstanding, committing, pc, hb, want, touched,
                   boot, crashes>>

(* write_head(): the commit point.                                         *)
CommitHead(p) ==
    /\ Up /\ pc[p] = "write_log" /\ tail = Len(lh)
    /\ IF HasBuf(Cache, HEAD)
       THEN WriteHeader(lh) /\ pc' = [pc EXCEPT ![p] = "install"] /\ tail' = 0
                            /\ UNCHANGED panicked
       ELSE Panic
    /\ UNCHANGED <<disk, lh, outstanding, committing, hb, want, touched, boot,
                   crashes>>

(* install_trans(1), one block: dbuf = bread(home); bwrite; brelse.      *)
Install(p) ==
    /\ Up /\ pc[p] = "install" /\ tail < Len(lh)
    /\ LET b == lh[tail + 1]
           d == Pick(Cache, b)
           c1 == Bread(Cache, b)
       IN IF HasBuf(Cache, b)
          THEN /\ SetCache(Relse(Bwritten(c1, d), d))
               /\ disk' = [disk EXCEPT ![b] = c1.buf[d].data]
               /\ tail' = tail + 1
               /\ UNCHANGED panicked
          ELSE Panic
    /\ UNCHANGED <<dhead, lh, outstanding, committing, pc, hb, want, touched,
                   boot, crashes>>

(* log.lh.n = 0; write_head(): erase the transaction from the log.       *)
Clear(p) ==
    /\ Up /\ pc[p] = "install" /\ tail = Len(lh)
    /\ IF HasBuf(Cache, HEAD)
       THEN /\ lh' = <<>> /\ WriteHeader(<<>>)
            /\ pc' = [pc EXCEPT ![p] = "done"] /\ tail' = 0
            /\ UNCHANGED panicked
       ELSE Panic /\ UNCHANGED tail
    /\ UNCHANGED <<disk, outstanding, committing, hb, want, touched, boot,
                   crashes>>

(* Seeded fault: the end of commit() does not wake the sleepers.          *)
EndCommitNoWake(p) ==
    /\ Up /\ pc[p] = "done"
    /\ committing' = FALSE
    /\ pc' = [pc EXCEPT ![p] = "idle"]
    /\ UNCHANGED <<disk, dhead, buf, lru, lh, outstanding, hb, want, touched, tail,
                   boot, panicked, crashes>>

(* After commit(): committing = 0 and wakeup(&log).                       *)
EndCommit(p) ==
    /\ Up /\ pc[p] = "done"
    /\ committing' = FALSE
    /\ pc' = WakeAll([pc EXCEPT ![p] = "idle"])
    /\ UNCHANGED <<disk, dhead, buf, lru, lh, outstanding, hb, want, touched, tail,
                   boot, panicked, crashes>>

(* Power failure, or a reboot after a panic: memory is lost, the disk     *)
(* stays, and the next boot runs binit and recovery.                      *)
Crash ==
    /\ crashes < MaxCrashes
    /\ crashes' = crashes + 1
    /\ buf' = EmptyBufs /\ lru' = BinitLru
    /\ lh' = <<>> /\ outstanding' = 0 /\ committing' = FALSE
    /\ pc' = [p \in Procs |-> "idle"] /\ touched' = [p \in Procs |-> {}]
    /\ hb' = [p \in Procs |-> 1] /\ want' = [p \in Procs |-> Min(Blocks)]
    /\ tail' = 0 /\ boot' = "read_head" /\ panicked' = FALSE
    /\ UNCHANGED <<disk, dhead>>

(* A panicked kernel that is never rebooted again.                        *)
Halted == panicked /\ crashes = MaxCrashes /\ UNCHANGED vars

(* initlog: the steps of recovery, one enabled at a time.                 *)
Recover == ReadHead \/ RecoverInstall \/ RecoverClear

ProcStep(p) ==
    \/ BeginOp(p) \/ \E b \in Blocks : Bget(p, b)
    \/ Lock(p) \/ \E v \in Values : LogWriteCheck(p, v)
    \/ LogWriteAppend(p) \/ Brelse(p) \/ EndOp(p)
    \/ WriteLog(p) \/ CommitHead(p) \/ Install(p) \/ Clear(p) \/ EndCommit(p)

Next ==
    \/ Recover
    \/ \E p \in Procs : ProcStep(p)
    \/ Crash \/ Halted

(* The kernel code of a process runs on once it is runnable (the xv6     *)
(* scheduler is round robin over RUNNABLE processes): weak fairness of    *)
(* its steps inside begin_op, log_write, the sleep-lock and commit().     *)
(* A system call is finite code, so a call that keeps coming back to a    *)
(* brelse or an end_op does them: strong fairness of those two. Whether a *)
(* process starts another call, what a call reads or writes, and crashes  *)
(* are not scheduled.                                                      *)
Spec ==
    /\ Init /\ [][Next]_vars
    /\ WF_vars(Recover)
    /\ \A p \in Procs :
         /\ WF_vars(pc[p] \notin {"idle", "inop", "held"} /\ ProcStep(p))
         /\ SF_vars(Brelse(p)) /\ SF_vars(EndOp(p))

----------------------------------------------------------------------------
(* What recovery would make of the disk now: a block named in the on-disk *)
(* header comes from its (last) log block, any other from its home.       *)
Durable ==
    [b \in Blocks |->
        LET idx == {i \in 1 .. Len(dhead) : dhead[i] = b} IN
        IF idx = {} THEN disk[b] ELSE disk[Max(idx)]]

(* What bread returns while the system is up; recovery has not yet       *)
(* rebuilt it after a crash, and it is then what recovery will yield.     *)
Current == IF boot = "up" THEN [b \in Blocks |-> Read(b)] ELSE Durable

Txn == INSTANCE AtomicTxn
           WITH Values <- Contents, durable <- Durable, current <- Current,
                active <- {p \in Procs : pc[p] \in {"inop", "lock", "held",
                                                     "logwrite"}}

(* The log makes file-system calls atomic with respect to crashes: the   *)
(* disk as recovery sees it changes only at write_head of a commit, to    *)
(* exactly what bread showed with no call between begin_op and end_op,    *)
(* and bread itself changes only by a write of an open call or a crash.  *)
(* Catches commit() steps in the wrong order and a logged buffer         *)
(* recycled before it is installed. With one crash and one value, a crash *)
(* during a recovery that replays blocks, and two transactions mixed in   *)
(* the log, are outside what this run reaches.                             *)
TxnAtomic == Txn!Spec

(* No lost wakeup: a call asleep in begin_op, waiting for a commit or for *)
(* log space, is eventually woken (unless the machine panics), which      *)
(* needs the wakeup of end_op and the one at the end of commit(), and     *)
(* that every started commit runs to its end.                             *)
BeginOpWoken ==
    \A p \in Procs : pc[p] = "asleep" ~> (pc[p] # "asleep" \/ panicked)

(* The buffer bget handed out still holds the block asked for when its   *)
(* caller gets the sleep-lock and for as long as it holds it: the         *)
(* reference taken under bcache.lock keeps another bget from recycling    *)
(* it in the window before acquiresleep (bio.c:77-81).                    *)
BufferIdentity ==
    \A p \in Procs : pc[p] \in {"lock", "held", "logwrite"} =>
                        buf[hb[p]].blk = want[p]

(* log_write never panics with "too big a transaction", and bget never   *)
(* runs out of buffers, for calls that keep to MAXOPBLOCKS blocks, as     *)
(* begin_op's reservation intends.                                        *)
NoLogOverflow == ~panicked

=============================================================================
