# TLA+ models of the 6.828 lab code

This directory holds TLA+ models of the code under `src/`. The code is the
JOS kernel and library of the MIT 6.828 labs (`src/lab`) plus xv6 homework
solutions (`src/xv6-public`, `src/hw02`, `src/hw06`). The models are checked
with TLC. `PROJECT.json` lists:

- every component, modelled or not;
- every TLC run and what it is expected to show;
- the seeded faults (mutants) that each property must catch;
- the source lines each definition translates;
- the findings;
- the hazards of the code.

## The system

| Part | Source | State | Operations |
|---|---|---|---|
| JOS system calls | `lab/kern/syscall.c` | env table (status, parent, upcall, IPC fields), page tables, free page list | `sys_exofork`, `sys_env_set_status`, `sys_env_set_pgfault_upcall`, `sys_page_alloc/map/unmap`, `sys_ipc_try_send/recv`, `sys_env_destroy`, `sys_yield`, `sys_env_set_trapframe`, the `syscall` dispatcher |
| JOS scheduler | `lab/kern/sched.c` | `curenv` per CPU, env statuses | `sched_yield` (round robin starting after the current env), `sched_halt` |
| JOS COW fork | `lab/lib/fork.c`, `lab/lib/pgfault.c` | the user's PTEs seen through `uvpt`, `_pgfault_handler` | `fork`, `duppage`, `pgfault`, `set_pgfault_handler` |
| JOS IPC programs | `lab/user/pingpong.c`, `primes.c` | each env's counter / prime | fork, send-receive loops over `ipc_send`/`ipc_recv` |
| JOS monitor | `lab/kern/monitor.c` | none (console) | command parsing, backtrace |
| xv6 log | `xv6-public/log.c` | `log.lh`, `outstanding`, `committing`, the on-disk log header and blocks | `begin_op`, `end_op`, `log_write`, `commit`, `recover_from_log` |
| xv6 buffer cache | `xv6-public/bio.c` | buffer list with `refcnt`, flags, LRU order | `bget`, `bread`, `bwrite`, `brelse` |
| xv6 traps | `xv6-public/trap.c`, `sysproc.c` | `ticks`, `proc->killed`, `proc->sz`, alarm fields, page tables | timer tick, lazy page-fault allocation, `sys_sleep`, `sys_sbrk`, `sys_alarm`, `sys_kill` |
| uthread | `xv6-public/uthread.c` | thread table, `current_thread` | `thread_create`, `thread_schedule`, `thread_yield` |
| ph | `hw06/ph.c` | hash table buckets, one mutex, the `done` counter | `put`, `get`, the spinning barrier between the phases |
| sh | `hw02/sh.c` | none persistent | parsing, fork/exec/pipe/redirect |

How the parts interact:

- JOS user code (fork, pgfault, the IPC programs) acts only through system
  calls.
- Every system call runs under the big kernel lock, so each one is atomic.
- User environments interleave freely between calls. The scheduler
  preempts them on the timer.
- The page-fault path goes from a user store, through the kernel's
  `page_fault_handler`, to the user upcall `pgfault`, which makes three
  more system calls.
- The xv6 parts are independent of JOS. The log sits on top of the buffer
  cache. The trap handler serves one process at a time: its timer case
  wakes `sys_sleep` and makes the alarm upcall, and its page-fault case
  backs the lazy `sbrk`.
- `ph` is a host program with pthreads: the threads share the table and
  meet at a barrier of their own.

## Modules

### `MemSyscalls.tla`: the address-space and environment system calls

The kernel state is one record `kern`:

- env status, parent and upcall;
- each env's page directory and page-table pages;
- the PTE (frame and permission set) of each followed virtual page;
- the free list;
- the content of every frame.

The followed pages are PFTEMP, a writable data page, a read-only page and
the exception stack. Because the kernel lock makes every system call
atomic, each call is a pure operator from `kern` to a result
`[ret, k, env]`. The early returns of the C code become the `IF` chain.

The kernel functions these calls use are not in the repository:
`page_alloc`, `page_insert`, `page_remove`, `pgdir_walk`, `envid2env`,
`env_alloc` and `env_free`. They are modelled from their documented
behaviour and marked spec-modelled in the map. `page_insert` needs a
page-table page when the region has none, which is how an insertion can
fail.

### `CowFork.tla`: user-level copy-on-write fork

Each environment runs the library code as a small program counter `pc`
with the labels of `fork`, `duppage`, `pgfault` and
`set_pgfault_handler`. Each label is one system call or one user step, so
environments interleave at exactly the points where the real ones can.

- **Program choices.** The program may store to its data page
  (`StartWrite`, then `Store`, or a `PageFault` when the PTE is not
  writable) or call `fork` (`ForkBegin`).
- **Page faults.** `PageFault` is the kernel's delivery of the fault: to
  the upcall when it is registered and the exception stack is writable,
  otherwise the environment is destroyed.
- **The upcall.** `PgfaultCheck` through `PgfaultUnmap` is the upcall.
  The `memcpy` is one step, which is sound because no one else can write
  the source page.
- **Failures.** A failing checked call panics (`"panicked"`). An ignored
  result is ignored, as in the code.
- **The child.** It is created at `child_ret` with a copy of the parent's
  `_pgfault_handler`, and becomes runnable only at `ForkSetStatus`.
- **History variable.** `snap` records what the parent's memory showed at
  the instant of `sys_exofork`.

Bounds:

- `MaxForks`: the total number of `fork` calls.
- `MaxWrites`: stores per environment.

Both counters stay below their bound in every guard that increments them.

### `IsolatedMemory.tla`: what fork promises

This is the abstract specification. Every environment has a private
memory, and a step changes one environment's memory only by:

- completing its own pending store;
- copying one of its pages into its scratch page;
- mapping a page whose contents another mapped page shows, without
  changing a page that is already mapped;
- zero-filling an unmapped page;
- unmapping.

`CowFork` implements it under the refinement mapping:

- `mem[e][va]` is the content of the frame `e` maps at `va`;
- `pending[e]` is the store `e` is in the middle of.

The mapping is checked as the property `PrivateMemory`.

### `JosKernel.tla` and `JosSched.tla`: the scheduler and IPC on several CPUs

`JosKernel` holds the kernel state that decides who runs, as one record
`k`:

- each env's status, parent and IPC fields (`env_ipc_recving`, `_from`,
  `_value`);
- `curenv` of each CPU;
- `env_free_list`, a stack;
- whether a CPU has dropped into the monitor.

Every kernel entry holds the big kernel lock until it returns to user mode
or halts, so `sched_yield`, `sched_halt`, `sys_env_destroy`,
`sys_exofork`, `sys_env_set_status`, `sys_ipc_try_send`, `sys_ipc_recv`,
`sys_env_set_trapframe` and the dispatcher's `SYS_ipc_recv` case are
pure operators on `k`. `env_run`, `env_free`, `env_destroy` and
`envid2env` are not in the repository and follow their documented
behaviour. `sys_exofork` returns the new env id or `-E_NO_FREE_ENV`, as in
C. The page branch of `sys_ipc_try_send` is left out: every sender in the
repository passes `srcva >= UTOP`.

`JosSched` runs user environments on `NCPU` CPUs. An env's user code is a
small `pc`. It may:

- yield;
- send with `ipc_send`, retrying on `-E_IPC_NOT_RECV`;
- receive with `ipc_recv`;
- fork (`sys_exofork`, then `sys_env_set_status`);
- exit or destroy another env, as `Calls` allows.

This is the shape of `pingpong` and `primes`. The timer interrupt
(`TimerTick`) frees a DYING curenv and calls `sched_yield`. `mailbox[e]`
is a history variable of the sends completed to `e` and not yet received.

### `XvFs.tla` and `AtomicTxn.tla`: the xv6 log on the buffer cache

One module holds both layers, because every disk access of the log goes
through the cache: `write_log`, `write_head`, `install_trans` and
`read_head` all `bread`, `bwrite` and `brelse`. Disk blocks are numbered
as `mkfs` lays them out from `log.start = 0`: the header `HEAD = 0`, the
log blocks `1 .. NLOG-1`, then the data blocks `Blocks`.

State:

- **disk:** `disk[n]` for the log and data blocks, and `dhead`, the
  on-disk header;
- **the cache:** `NBUF` buffers `buf[i]` (block number, `refcnt`,
  `B_VALID`, `B_DIRTY`, data, sleep-lock holder) and `lru`, the list from
  `bcache.head.next`;
- **the log:** `lh`, `outstanding`, `committing`, and `tail`, the loop
  variable of the commit and recovery loops;
- **each process:** `pc`, the buffer `hb` it holds and the block `want`
  it asked for, and the blocks `touched` in its current call.

The cache is a set of operators on a record `[buf, lru]`: `Claim` is the
state change of `bget` (lookup from the head, recycling from the tail),
`Load` the read of `bread`, `Bwritten` `bwrite`, `Relse` `brelse` with
its move to the head. A kernel routine that makes several cache calls
in a row with no lock released in between (`write_head`, one iteration
of `write_log` or `install_trans`) is one step built from them.

Each process makes file-system calls:

1. `BeginOp`: sleep for a commit or for log space, or join.
2. Any number of `bread`s, each two steps: `Bget` under `bcache.lock`
   (or the panic "bget: no buffers"), then `Lock`, the `acquiresleep`
   and disk read. Another process can run in between.
3. For at most `MAXOPBLOCKS` distinct blocks: store a value, then
   `log_write` as two steps, because its capacity test runs before
   `acquire(&log.lock)`: `LogWriteCheck` (the test, or the panic) and
   `LogWriteAppend` (absorption, append, `B_DIRTY`).
4. `Brelse`, and finally `EndOp`.

The process whose `end_op` finds nobody outstanding runs `commit()`,
one disk write per step: `WriteLog` per block, `CommitHead`, `Install`
per block, `Clear`, and `EndCommit` with the wakeup. `Crash` may come
between any two steps, up to `MaxCrashes` times. It empties the cache
(`binit`) and restarts recovery (`ReadHead`, `RecoverInstall`,
`RecoverClear`), which goes through the cache too. A panic stops the
kernel until the next crash (reboot).

`AtomicTxn` is what the log promises: calls change a shared current
view; a commit copies it to the durable state only when no call is open;
a crash resets the view to the durable state. The mapping:

- `durable` is what recovery would produce from the disk now;
- `current` is what `bread` returns, or `durable` during recovery;
- `active` is the set of calls between `begin_op` and `end_op`.

### `PhTable.tla`: the pthread hash table

`NTHREAD` threads share `table`, one list per bucket, head first. Thread
`t` puts `keys[b*t .. b*t+b-1]` (`b = NKEYS / NTHREAD`), each `put` being
three steps:

1. `PutLock`: `pthread_mutex_lock`;
2. `PutRead`: the evaluation of `insert`'s argument `table[i]`, kept in
   `n[t]`;
3. `PutLink`: `*p = e` with `e->next = n`, then the unlock.

The read and the write are apart because they are apart in the code; the
mutex is what makes them atomic. Then `Arrive` (`__sync_fetch_and_add`),
`Pass` (the spin ends once `done = NTHREAD`) and one `Get` step per key,
which walks the bucket without the lock and counts a missing key in
`k[t]`. `keys` is chosen freely in `Init` from a few values, so keys
repeat and share buckets as `random()`'s do.

### `XvTrap.tla`: the xv6 trap handler, sleep, the alarm and lazy allocation

One user process on one CPU, with the clock. `ps` is the process's
place: running in user mode, sleeping in `sys_sleep`, woken there
(RUNNABLE), or a zombie. The actions:

- `Tick`: the timer case of `trap()`: the alarm count and upcall from
  user mode (`Alarm`), `ticks++` modulo `2^TICKW`, `wakeup(&ticks)`
  (`WakeupTicks`), and the exit of a killed process in user mode.
- `Syscall(call)`: the `T_SYSCALL` case of `trap()`. A killed process
  exits before `syscall()`, otherwise `call` runs. The killed test after
  `syscall()` sees the flag the call began with, because nothing else runs
  on the CPU in between. The calls are `SysSleep`, `SysAlarm` and
  `SysExit`.
- `SysSleep` and `SleepWake`: `sys_sleep`'s snapshot and its loop, with
  the `killed` test and the uint comparison (`StillSleeping`).
- `Kill`: `sys_kill` from another process, which wakes a sleeper.
- `Touch(va, op)`: a load or store; on an unmapped page, the page-fault
  case (`kalloc`, the `KERNBASE` test, `memset`, `mappages` with its
  page-table page) and the retried access, or the kill. A page above
  `KERNBASE` is a kernel address, which the leak run lets user code touch.
- `SysAlarm`, `SysExit`, `Misbehave` (the default case), and `HandlerRet`
  (the handler's `ret` pops the pushed `eip`).

`slept` and `shadow` are history variables: the ticks since `sys_sleep`
began, and the last value stored at each page. The process starts with
its alarm fields zero, as the zeroed process table leaves them, so from
the first user-mode tick every tick makes an upcall to address 0, the
program's entry (`Main`).

## Runs

The `cow_*` runs use `MCCowFork`, the `sched_*` and `ipc_*` runs `MCJosSched`, the `fs_*` runs `MCXvFs` (which fixes `NLOG = LOGSIZE` and puts the data blocks right after the log), `ph_safety` `MCPhTable` and the `trap_*` runs `MCXvTrap`. Frames, envs and the `No*` constants are model
values. No symmetry is declared, because the liveness run would not be
sound under it.

| Run | cfg | Expect | Properties | Bounds |
|---|---|---|---|---|
| cow_refinement | CowForkRefine.cfg | pass | TypeOK, WritableExclusive, PrivateMemory, ForkCopiesMemory, FaultResolves | 3 envs, 18 frames, 2 forks, 1 store per env |
| cow_leak | CowForkLeak.cfg | violation | NoFrameLeak | 2 envs, 11 frames, 1 fork, 1 store |
| sched_safety | JosSched.cfg | pass | TypeOK, FreeListExact, NoDoubleRun | 2 envs, 2 CPUs, values {0,1}, exit |
| sched_liveness | JosSchedLive.cfg | pass | RunnableEventuallyRuns, RecvGetsSentValue | 3 envs, 1 CPU, value {0}, no exit |
| sched_starvation | JosStarve.cfg | violation | RunnableEventuallyRuns | 3 envs, 1 CPU, exit |
| sched_double_destroy | JosDoubleDestroy.cfg | violation | NoDoubleRun | 2 envs, 2 CPUs, destroy of any env |
| ipc_recv_fallthrough | JosRecvFallthrough.cfg | violation | NoEnvVanishes | 2 envs, 1 CPU, misaligned recv |
| fs_atomic | XvFs.cfg | pass | TypeOK, BufferIdentity, TxnAtomic, BeginOpWoken | 2 processes, 2 data blocks, 3 buffers, MAXOPBLOCKS 1, LOGSIZE 3, 1 crash |
| fs_overflow | XvFsOverflow.cfg | violation | NoLogOverflow | as fs_atomic |
| ph_safety | PhTable.cfg | pass | TypeOK, NoKeyMissing, AllJoined | 2 threads, 4 keys from {0,1,2}, 2 buckets |
| trap_safety | XvTrap.cfg | pass | TypeOK, ZeroFill, SleepLasts, NoPageLeak, SleepReturns | 2-bit ticks, sleep(-1..2), alarms of 1 and 2 ticks, 3 pages, 4 free pages |
| trap_page_leak | XvTrapLeak.cfg | violation | NoPageLeak | as trap_safety, with 2 user pages and 1 kernel page |

What each run checks:

- **`WritableExclusive`**: a frame writable in one PTE is mapped nowhere
  else. The only exceptions are the two windows the code opens on purpose:
  - between the two `sys_page_map` calls of `duppage`;
  - between `sys_page_map` and `sys_page_unmap` of `pgfault`.

  It fails if duppage never downgrades the parent's PTE. The model has
  no user stack, so the parent writes nothing between the two
  `sys_page_map` calls. The reverse order of those calls would pass too.
- **`PrivateMemory`**: the refinement described above.
- **`ForkCopiesMemory`**: when a child first runs, its data and read-only
  pages show what the parent's showed at `sys_exofork`. It fails if
  duppage skips a page or maps the wrong one. The parent runs `fork`'s
  own code during the loop and has no stack in the model, so a parent
  write in the middle of the loop is not reached.
- **`FaultResolves`**: every fault that reaches `pgfault` ends, either by
  returning to the store or by a panic. Fairness is weak fairness on each
  environment's started steps. It is justified because `sched_yield` is
  round robin and the timer preempts. The choice to start a store or a
  fork is the program's and has no fairness.
- **`NoFrameLeak`** (violation): every frame is free or referenced.
  `sys_page_alloc` breaks it, because it does not free its page when
  `page_insert` fails. This is the finding `code_bug` in PROJECT.json.
- `duppage` maps a page copy-on-write into the child before it
  downgrades the parent's PTE. So for one system call, the page is
  `PTE_COW` in the child and still `PTE_W` in the parent. `spec.md` 3 and
  4.3 describe that order too. The child is not runnable yet, so
  `PrivateMemory` holds, and `WritableExclusive` allows exactly this
  window.

- **`FreeListExact`**: `env_free_list` holds exactly the free slots, each
  once. A slot freed twice would be handed out twice.
- **`NoDoubleRun`**: no env is curenv of two CPUs. It needs two CPUs and
  an env that is `RUNNING` on one CPU while another CPU schedules.
- **`RecvGetsSentValue`** (action property): when a blocked receiver
  returns, its `env_ipc_from` and `env_ipc_value` are those of the one
  completed send it has not yet received. It fails if a second sender can
  overwrite the first, which is the case if `env_ipc_recving` were not
  cleared in the same kernel entry.
- **`RunnableEventuallyRuns`**: a runnable env eventually runs (or is
  freed, or the machine is in the monitor). Fairness is weak fairness of
  each CPU's timer interrupt, since the LAPIC timer preempts every CPU
  whatever its user code does. User code gets no fairness.
- **`sched_starvation`** (violation): once envs exit, `curenv` is NULL
  after the exit and `sched_yield` restarts its scan at `envs[0]`. The
  LIFO free list gives the freed low slots straight back to new children,
  so a runnable env in a high slot can wait for ever. `spec.md` 4.1
  promises round robin without starvation. The passing run has no exits,
  like `primes`, whose envs never exit.
- **`sched_double_destroy`** (violation): `sys_env_destroy` of an env
  already DYING on another CPU frees it while it runs. Its slot is
  reused and the same slot runs on two CPUs. No program in the
  repository destroys another env, so `sched_safety` only exits.
- **`ipc_recv_fallthrough`** (violation): `NoEnvVanishes` says a live
  env stays live unless it is destroyed. The `SYS_ipc_recv` case of
  `syscall()` has no `return`, so `-E_INVAL` from `sys_ipc_recv` falls
  into `sys_env_set_trapframe(dstva, 0)`, and `user_mem_assert` destroys
  the caller.
- **`TxnAtomic`**: the refinement of `AtomicTxn` described above. It fails
  in any of these cases:
  - the steps of `commit()` are reordered;
  - a logged buffer can be evicted before it is installed.

  The run's bounds leave two cases out. `MaxCrashes = 1` means the only
  crash during recovery happens at boot, when the log is empty. With
  `Values = {1}`, two transactions mixed in the log look like one. So an
  unerased header or a crash in the middle of a replay is not checked.
- **`BeginOpWoken`**: no lost wakeup. Fairness is weak fairness of each
  process's kernel steps inside `begin_op`, the sleep-lock, `log_write`
  and `commit()`, and of recovery, since the round-robin scheduler runs a
  runnable process. A system call is finite code, so a call that keeps
  coming back to a `brelse` or an `end_op` does it: strong fairness of
  those two. Starting a call, what a call reads or writes, and crashing
  get none. The stronger claim that every `begin_op` returns is false: a
  woken process can lose the race every time to a neighbour that keeps
  starting calls. `log.c` promises no order, so this is a hazard, not a
  finding.
- **`fs_overflow`** (violation): `log_write` panics "too big a
  transaction" when `lh.n >= log.size - 1`, and tests this before
  absorption. `begin_op` reserves `LOGSIZE` blocks. Two admitted calls of
  one block each therefore panic when one rewrites its block. The on-disk
  size is `LOGSIZE`, as xv6's `mkfs` writes it. The trace also has both
  processes past the unlocked test before either appends. `fs_atomic`
  keeps the panic reachable and its properties hold anyway.
- **`BufferIdentity`**: the buffer `bget` returned still holds the
  caller's block when the caller gets the sleep-lock, and for as long as
  it holds it. The reference count bars recycling in the window, also
  against the recycling done by `write_log`'s and `write_head`'s own
  `bread`s.
- **`NoKeyMissing`**: every thread that returns found every key, as `ph`
  prints "0 keys missing". Without the mutex, two puts to one bucket
  read the same head and one entry is lost. With a barrier that opens
  early, a get runs before the other thread's puts.
- **`AllJoined`**: every thread returns, so main's `pthread_join`
  returns. Fairness is weak fairness of each thread, which the OS
  scheduler gives a pthread. A `pthread_mutex_t` is not fair, but a
  thread stops competing after its `b` puts, so weak fairness is enough.
  It fails if a put keeps the mutex, or if an arrival is not counted.
- **`SleepLasts`**: back in user mode after `sleep(n)`, the process has
  slept at least `n` ticks. This holds even when `ticks` wraps between the
  snapshot and the last wakeup, because the loop compares the unsigned
  difference. It fails for the test `ticks < ticks0 + n`.
- **`SleepReturns`**: every `sleep` ends, by returning or by a kill. The
  fairness is weak fairness of the clock and of the scheduler running a
  woken process. Neither depends on what the program does. It fails if
  the timer case does not call `wakeup(&ticks)`.
- **`trap_page_leak`** (violation): `NoPageLeak` says the free pages,
  the mapped pages and the page-table pages add up to the pages there
  were. The `T_PGFLT` case calls `kalloc` before its `va <= KERNBASE`
  test and, for a kernel address, kills the process without `kfree`, so
  one load from a kernel address loses a page.
- **`ZeroFill`**: lazy allocation is invisible. A mapped page holds the
  last value the program stored there, or 0 if it never stored one. It
  fails if the fault handler maps `kalloc`'s page without `memset`.
- **`NoPageLeak`** in `trap_safety`: the same invariant over heap pages
  only. There the pages add up on every path, including a `mappages` that
  fails for want of a page-table page and must `kfree` its page
  (trap.c:110). It fails if that `kfree` is dropped (`Kfreed`).

The bounds are chosen so that the interesting cases happen:

- Two forks give a grandchild, or two children of one parent.
- With three envs, a COW page can be shared three ways, and a write by
  one env must not reach the other two.
- 18 frames let the whole chain complete, while smaller cfgs exhaust
  memory on purpose.
- `Values = {0, 1}` is enough to tell a copied page from a fresh one.
- JOS: two CPUs are needed for a double run. Three envs are needed for
  two senders racing to one receiver, and for a slot to starve behind two
  others. One CPU is enough for those, and keeps the runs well within
  their time. The IPC value is one value, because the
  mailbox records the sender identity, which is what tells two sends
  apart.
- Log and cache: `MAXOPBLOCKS = 1` and `LOGSIZE = 3` keep xv6's ratio
  `LOGSIZE = 3 * MAXOPBLOCKS`, and `NBUF = 3 = LOGSIZE` keeps param.h's
  `NBUF` against the log. Two processes and two data blocks make
  `begin_op` sleep both for a commit and for space. Three buffers for six
  block numbers (header, two log blocks, two data blocks) force
  recycling, also of buffers the commit itself needs. One crash lands at
  every step of commit and of recovery. A call writes the value 1 over
  `mkfs`'s 0: the two data blocks then show every mix of old and new
  that a broken commit could leave, and a second value only multiplied
  the states. The `bget` panic is a step of the model but needs more
  pinned or held buffers than two one-block calls make.
- ph: two threads with two keys each, over two buckets and three key
  values. Both threads then put into one bucket, and keys repeat.
- traps: with `ticks` 2 bits wide and any start value, every sleep of up
  to 3 ticks can straddle the wrap. `sleep(-1)` sleeps 3 ticks, as it
  sleeps `2^32 - 1` in xv6. Three pages in two page-table pages with four
  free pages make `kalloc` and `walkpgdir` fail on some orders of first
  touches. `MaxNest = 2` lets upcalls nest once. It stops the clock only
  while two upcalls are unreturned in user mode. A woken sleeper runs
  before the next tick: with one CPU and one process, the scheduler picks
  it as soon as the interrupt returns.

## Plan

The project keeps at most twelve runs. That is why `cow_safety` was merged
into `cow_refinement`, with one store per env. The violation run for the
duppage window, which `spec.md` itself describes, was dropped for the
same reason.

Done:

1. `MemSyscalls`, `CowFork` and `IsolatedMemory`: the memory system calls,
   fork and the fault handler, and the refinement.
2. `JosKernel` and `JosSched`: the scheduler, env life cycle and IPC on
   several CPUs.
3. `XvLog` and `AtomicTxn`: the log with crashes, and the refinement to
   atomic transactions.
4. `XvBio`: the buffer cache.
5. `PhTable`: the hash table's puts, barrier and gets.
6. `XvTrap`: the timer, `sys_sleep`, the alarm and lazy allocation.

Next:

7. Compose `XvLog` with `XvBio`, replacing the abstract cache by the real
   buffers, so that `NBUF` is checked against the log's pins. Done:
   `XvFs` replaced `XvLog` and `XvBio`, and its run replaced their two.
8. Violation runs for the trap handler's hazards. Done for the page leaked
   on a fault above `KERNBASE` (`trap_page_leak`). The upcall to address 0
   of a process that never called `alarm` depends on `allocproc`, which is
   not in the repository.
9. `UThread` (`uthread.c`): `thread_schedule` and `thread_yield`. It needs
   a run of its own, and all twelve are taken. It stays unmodelled: each
   of the twelve runs either checks a property no other run can hold, or
   carries a finding.
10. `sys_env_set_status` on a running env, and the page branch of
    `sys_ipc_try_send` joined with `MemSyscalls`.

## Not modelled

- **`monitor.c`** is console I/O and formatting.
- **`sh.c`** is a string parser driving host system calls.
- **`fs.h` and `file.h`** only declare data.
- **`uthread.c`** is not modelled: a model needs a run of its own, and
  the project keeps to twelve runs, all spent on the parts above. Its
  context switch is in `uthread_switch.S`, which the repository does not
  have.
- **`sfork`** only panics.
- **Real addresses and the `uvpt` self-map** are abstracted to four named
  pages and three page-table regions.
- **Page contents** are abstracted to one small value per frame.
- **The disk driver** (`iderw`) is one atomic read or write per block. A
  single-block write, the header's included, is assumed atomic, as xv6
  assumes.
- **`sys_cputs`, `sys_cgetc` and `sys_getenvid`** change no modelled state.
- **`sys_sbrk`** only moves `p->sz`, and the lazy fault handler never
  reads `p->sz`. Nothing the model observes depends on it. The hazards in
  PROJECT.json say what that allows.
- **The device cases of `trap()`** (IDE, keyboard, UART, spurious), and
  `tvinit`/`idtinit`. So are `sys_fork`, `sys_wait`, `sys_getpid`,
  `sys_uptime` and `sys_date`, which only call `proc.c` or read state.
- **Registers** are not modelled. The alarm handler is a C function, and
  it may clobber the caller-saved registers of the code it interrupted.
- **ph's timing and output** are not modelled, and neither is the value
  stored with each key, which nothing reads.
