------------------------------- MODULE CowFork -------------------------------
(***************************************************************************)
(* User-level copy-on-write fork (src/lab/lib/fork.c) and its page-fault  *)
(* upcall (pgfault in fork.c, set_pgfault_handler in                      *)
(* src/lab/lib/pgfault.c), running in several environments at once over   *)
(* the memory system calls of MemSyscalls.                                *)
(*                                                                         *)
(* Each environment runs a program that, at "run", either writes a value  *)
(* to its data page or calls fork(). A write to a page that is not        *)
(* writable traps; the kernel's page-fault handler hands it to the        *)
(* registered upcall, which runs pgfault() and then re-executes the       *)
(* write. Environments interleave at system-call granularity: each        *)
(* system call is atomic under the big kernel lock, user code between    *)
(* two calls touches only its own address space.                          *)
(***************************************************************************)
EXTENDS MemSyscalls, Integers, Sequences

CONSTANTS
    InitEnv,    \* the environment the kernel creates at boot (env_create)
    MaxForks,   \* how many fork() calls the whole system makes
    MaxWrites   \* how many stores each environment starts

NoVal == -1

VARIABLES
    kern,       \* the kernel state record of MemSyscalls
    pc,         \* where each environment's user code is
    handler,    \* the user global _pgfault_handler is set
    child,      \* fork(): the envid returned by sys_exofork
    idx,        \* fork(): the position of the page loop in VAOrder
    wva,        \* the page the pending write is to
    wval,       \* the value the pending write stores
    forks,      \* fork() calls made so far
    snap,       \* history: what the parent saw when the child was created
    writes      \* stores started by each environment

vars == <<kern, pc, handler, child, idx, wva, wval, forks, snap, writes>>

PCs == {"none", "run", "write", "pf_check", "pf_alloc", "pf_copy", "pf_map",
        "pf_unmap", "f_uxalloc", "f_upcall", "f_exofork", "f_childux",
        "f_childupcall", "f_dup", "f_dup_self", "child_ret",
        "panicked"}

(* The steps at which a write is in progress, the fault handler included. *)
Writing == {"write", "pf_check", "pf_alloc", "pf_copy", "pf_map", "pf_unmap"}

(* What e reads at va: the contents of the page its PTE maps.             *)
View(e, va) ==
    IF kern.status[e] # "free" /\ Present(kern.pt[e][va])
    THEN kern.content[kern.pt[e][va].frame] ELSE NoVal

PTE(e, va) == kern.pt[e][va]

TypeOK ==
    /\ kern \in KernelType
    /\ pc \in [Envs -> PCs]
    /\ handler \in [Envs -> BOOLEAN]
    /\ child \in [Envs -> Envs \cup {NoEnv}]
    /\ idx \in [Envs -> 1..Len(VAOrder) + 1]
    /\ wva \in [Envs -> VAs]
    /\ wval \in [Envs -> Values]
    /\ forks \in 0..MaxForks
    /\ snap \in [Envs -> [VAs -> Values \cup {NoVal}]]
    /\ writes \in [Envs -> 0..MaxWrites]

(* env_create of the first environment: a page directory, the page tables *)
(* of its text and stack regions, a writable data page and a read-only   *)
(* text page; no exception stack and no upcall yet.                       *)
Init ==
    LET d  == Pick(Frames)
        t1 == Pick(Frames \ {d})
        t2 == Pick(Frames \ {d, t1})
        p1 == Pick(Frames \ {d, t1, t2})
        p2 == Pick(Frames \ {d, t1, t2, p1})
        used == {d, t1, t2, p1, p2}
    IN
    /\ kern = [status |-> [e \in Envs |-> IF e = InitEnv THEN "runnable" ELSE "free"],
               parent |-> [e \in Envs |-> NoEnv],
               upcall |-> [e \in Envs |-> FALSE],
               pgdir  |-> [e \in Envs |-> IF e = InitEnv THEN d ELSE NoFrame],
               ptab   |-> [e \in Envs |-> [r \in Regions |->
                             IF e = InitEnv /\ r = "text" THEN t1
                             ELSE IF e = InitEnv /\ r = "stack" THEN t2
                             ELSE NoFrame]],
               pt     |-> [e \in Envs |-> [va \in VAs |->
                             IF e = InitEnv /\ va = "DATA"
                                THEN [frame |-> p1, perm |-> PUW]
                             ELSE IF e = InitEnv /\ va = "RODATA"
                                THEN [frame |-> p2, perm |-> PU]
                             ELSE NoMap]],
               free   |-> Frames \ used,
               content|-> [f \in Frames |-> 0]]
    /\ pc = [e \in Envs |-> IF e = InitEnv THEN "run" ELSE "none"]
    /\ handler = [e \in Envs |-> FALSE]
    /\ child = [e \in Envs |-> NoEnv]
    /\ idx = [e \in Envs |-> 1]
    /\ wva = [e \in Envs |-> "DATA"]
    /\ wval = [e \in Envs |-> 0]
    /\ forks = 0
    /\ snap = [e \in Envs |-> [va \in VAs |-> NoVal]]
    /\ writes = [e \in Envs |-> 0]

Running(e) == kern.status[e] = "runnable"

Goto(e, l) == pc' = [pc EXCEPT ![e] = l]

(* Apply a system call's result: on success continue at ok, otherwise    *)
(* the library panics (the environment stops for good).                   *)
Call(e, r, ok) ==
    /\ kern' = r.k
    /\ Goto(e, IF r.ret = "ok" THEN ok ELSE "panicked")

----------------------------------------------------------------------------
(* The program: a store to the data page.                                 *)

StartWrite(e) ==
    /\ Running(e) /\ pc[e] = "run"
    /\ writes[e] < MaxWrites
    /\ writes' = [writes EXCEPT ![e] = @ + 1]
    /\ \E v \in Values : wval' = [wval EXCEPT ![e] = v]
    /\ wva' = [wva EXCEPT ![e] = "DATA"]
    /\ Goto(e, "write")
    /\ UNCHANGED <<kern, handler, child, idx, forks, snap>>

(* The store goes through a writable PTE.                                 *)
Store(e) ==
    /\ Running(e) /\ pc[e] = "write"
    /\ "W" \in PTE(e, wva[e]).perm
    /\ kern' = [kern EXCEPT !.content[PTE(e, wva[e]).frame] = wval[e]]
    /\ Goto(e, "run")
    /\ UNCHANGED <<handler, child, idx, wva, wval, forks, snap, writes>>

(* page_fault_handler (kern/trap.c): a user fault is delivered to the     *)
(* upcall on the exception stack; without an upcall or a writable        *)
(* exception stack the environment is destroyed.                          *)
PageFault(e) ==
    /\ Running(e) /\ pc[e] = "write"
    /\ "W" \notin PTE(e, wva[e]).perm
    /\ IF kern.upcall[e] /\ "W" \in PTE(e, "UXSTACK").perm
       THEN Goto(e, "pf_check") /\ UNCHANGED kern
       ELSE kern' = EnvFree(kern, e) /\ Goto(e, "none")
    /\ UNCHANGED <<handler, child, idx, wva, wval, forks, snap, writes>>

----------------------------------------------------------------------------
(* pgfault(utf): check that the fault is a write to a PTE_COW page, then *)
(* copy the page through PFTEMP into a fresh writable page.               *)

(* get_pte(addr) read through uvpt; an absent page table reads as 0.      *)
PgfaultCheck(e) ==
    /\ Running(e) /\ pc[e] = "pf_check"
    /\ Goto(e, IF "COW" \in PTE(e, wva[e]).perm THEN "pf_alloc" ELSE "panicked")
    /\ UNCHANGED <<kern, handler, child, idx, wva, wval, forks, snap, writes>>

PgfaultAlloc(e) ==
    /\ Running(e) /\ pc[e] = "pf_alloc"
    /\ Call(e, SysPageAlloc(kern, e, e, "PFTEMP", PUW), "pf_copy")
    /\ UNCHANGED <<handler, child, idx, wva, wval, forks, snap, writes>>

(* Seeded fault: pgfault without the memcpy into PFTEMP.                  *)
PgfaultNoCopy(e) ==
    /\ Running(e) /\ pc[e] = "pf_copy"
    /\ Goto(e, "pf_map")
    /\ UNCHANGED <<kern, handler, child, idx, wva, wval, forks, snap, writes>>


(* Seeded fault: the fresh copy is mapped with PTE_COW as well.           *)
PgfaultMapCow(e) ==
    /\ Running(e) /\ pc[e] = "pf_map"
    /\ Call(e, SysPageMap(kern, e, e, "PFTEMP", e, wva[e], PUCOW), "pf_unmap")
    /\ UNCHANGED <<handler, child, idx, wva, wval, forks, snap, writes>>


(* memcpy(PFTEMP, ROUNDDOWN(addr, PGSIZE), PGSIZE), taken as one step:    *)
(* no other environment can write the faulting page (see                   *)
(* WritableExclusive).                                                     *)
PgfaultCopy(e) ==
    /\ Running(e) /\ pc[e] = "pf_copy"
    /\ kern' = [kern EXCEPT !.content[PTE(e, "PFTEMP").frame] =
                                kern.content[PTE(e, wva[e]).frame]]
    /\ Goto(e, "pf_map")
    /\ UNCHANGED <<handler, child, idx, wva, wval, forks, snap, writes>>

PgfaultMap(e) ==
    /\ Running(e) /\ pc[e] = "pf_map"
    /\ Call(e, SysPageMap(kern, e, e, "PFTEMP", e, wva[e], PUW), "pf_unmap")
    /\ UNCHANGED <<handler, child, idx, wva, wval, forks, snap, writes>>

(* The upcall returns and the faulting store is executed again.           *)
PgfaultUnmap(e) ==
    /\ Running(e) /\ pc[e] = "pf_unmap"
    /\ Call(e, SysPageUnmap(kern, e, e, "PFTEMP"), "write")
    /\ UNCHANGED <<handler, child, idx, wva, wval, forks, snap, writes>>

----------------------------------------------------------------------------
(* fork(): set_pgfault_handler(pgfault), sys_exofork, the child's         *)
(* exception stack and upcall, duppage over every page below UTOP except *)
(* the exception stack, and finally mark the child runnable.              *)

(* set_pgfault_handler: only the first call allocates the exception stack *)
(* and registers the upcall.                                               *)
ForkBegin(e) ==
    /\ Running(e) /\ pc[e] = "run"
    /\ forks < MaxForks
    /\ forks' = forks + 1
    /\ Goto(e, IF handler[e] THEN "f_exofork" ELSE "f_uxalloc")
    /\ UNCHANGED <<kern, handler, child, idx, wva, wval, snap, writes>>

(* Both results are ignored by set_pgfault_handler.                       *)
SetHandlerAlloc(e) ==
    /\ Running(e) /\ pc[e] = "f_uxalloc"
    /\ kern' = SysPageAlloc(kern, e, e, "UXSTACK", PUW).k
    /\ Goto(e, "f_upcall")
    /\ UNCHANGED <<handler, child, idx, wva, wval, forks, snap, writes>>

SetHandlerUpcall(e) ==
    /\ Running(e) /\ pc[e] = "f_upcall"
    /\ kern' = SysEnvSetPgfaultUpcall(kern, e, e).k
    /\ handler' = [handler EXCEPT ![e] = TRUE]
    /\ Goto(e, "f_exofork")
    /\ UNCHANGED <<child, idx, wva, wval, forks, snap, writes>>

(* The child resumes from a copy of the parent's trap frame with eax = 0: *)
(* at "child_ret", with the parent's _pgfault_handler (its data page is   *)
(* copied by the duppage loop before the child can run).                  *)
ForkExofork(e) ==
    /\ Running(e) /\ pc[e] = "f_exofork"
    /\ LET r == SysExofork(kern, e)
           c == r.env
       IN /\ kern' = r.k
          /\ IF r.ret = "ok"
             THEN /\ pc' = [pc EXCEPT ![e] = "f_childux", ![c] = "child_ret"]
                  /\ child' = [child EXCEPT ![e] = c]
                  /\ handler' = [handler EXCEPT ![c] = handler[e]]
                  /\ snap' = [snap EXCEPT ![c] = [va \in VAs |-> View(e, va)]]
             ELSE /\ Goto(e, "panicked")
                  /\ UNCHANGED <<child, handler, snap>>
    /\ UNCHANGED <<idx, wva, wval, forks, writes>>

ForkChildUxstack(e) ==
    /\ Running(e) /\ pc[e] = "f_childux"
    /\ Call(e, SysPageAlloc(kern, e, child[e], "UXSTACK", PUW), "f_childupcall")
    /\ UNCHANGED <<handler, child, idx, wva, wval, forks, snap, writes>>

(* Seeded fault: the page loop starts one entry before the first page.    *)
ForkChildUpcallFromZero(e) ==
    /\ Running(e) /\ pc[e] = "f_childupcall"
    /\ kern' = SysEnvSetPgfaultUpcall(kern, e, child[e]).k
    /\ Goto(e, "f_dup")
    /\ idx' = [idx EXCEPT ![e] = 0]
    /\ UNCHANGED <<handler, child, wva, wval, forks, snap, writes>>


(* The result of sys_env_set_pgfault_upcall is ignored.                   *)
ForkChildUpcall(e) ==
    /\ Running(e) /\ pc[e] = "f_childupcall"
    /\ kern' = SysEnvSetPgfaultUpcall(kern, e, child[e]).k
    /\ Goto(e, "f_dup")
    /\ idx' = [idx EXCEPT ![e] = 1]
    /\ UNCHANGED <<handler, child, wva, wval, forks, snap, writes>>

DupVA(e) == VAOrder[idx[e]]

NextPage(e) == idx' = [idx EXCEPT ![e] = @ + 1]

(* The loop skips the exception stack; duppage returns -E_INVAL (ignored) *)
(* for a page whose PTE is not present.                                    *)
DupSkip(e) ==
    /\ Running(e) /\ pc[e] = "f_dup" /\ idx[e] <= Len(VAOrder)
    /\ DupVA(e) = "UXSTACK" \/ ~Present(PTE(e, DupVA(e)))
    /\ NextPage(e)
    /\ UNCHANGED <<kern, pc, handler, child, wva, wval, forks, snap, writes>>

(* Seeded fault: duppage leaves the parent's own PTE writable.            *)
DupSelfNoDowngrade(e) ==
    /\ Running(e) /\ pc[e] = "f_dup_self"
    /\ Goto(e, "f_dup")
    /\ NextPage(e)
    /\ UNCHANGED <<kern, handler, child, wva, wval, forks, snap, writes>>


(* duppage, writable or copy-on-write page: map it copy-on-write into the *)
(* child first, then (DupSelf) remap the parent's own PTE copy-on-write.  *)
DupCow(e) ==
    /\ Running(e) /\ pc[e] = "f_dup" /\ idx[e] <= Len(VAOrder)
    /\ DupVA(e) # "UXSTACK" /\ Present(PTE(e, DupVA(e)))
    /\ PTE(e, DupVA(e)).perm \cap {"W", "COW"} # {}
    /\ Call(e, SysPageMap(kern, e, e, DupVA(e), child[e], DupVA(e), PUCOW), "f_dup_self")
    /\ UNCHANGED <<handler, child, idx, wva, wval, forks, snap, writes>>

DupSelf(e) ==
    /\ Running(e) /\ pc[e] = "f_dup_self"
    /\ Call(e, SysPageMap(kern, e, e, DupVA(e), e, DupVA(e), PUCOW), "f_dup")
    /\ NextPage(e)
    /\ UNCHANGED <<handler, child, wva, wval, forks, snap, writes>>

(* Seeded fault: read-only pages are not passed to the child.             *)
DupSharedSkipped(e) ==
    /\ Running(e) /\ pc[e] = "f_dup" /\ idx[e] <= Len(VAOrder)
    /\ DupVA(e) # "UXSTACK" /\ Present(PTE(e, DupVA(e)))
    /\ PTE(e, DupVA(e)).perm \cap {"W", "COW"} = {}
    /\ NextPage(e)
    /\ UNCHANGED <<kern, pc, handler, child, wva, wval, forks, snap, writes>>


(* duppage, read-only page: share it read-only, no fault will ever copy it. *)
DupShared(e) ==
    /\ Running(e) /\ pc[e] = "f_dup" /\ idx[e] <= Len(VAOrder)
    /\ DupVA(e) # "UXSTACK" /\ Present(PTE(e, DupVA(e)))
    /\ PTE(e, DupVA(e)).perm \cap {"W", "COW"} = {}
    /\ Call(e, SysPageMap(kern, e, e, DupVA(e), child[e], DupVA(e), PU), "f_dup")
    /\ NextPage(e)
    /\ UNCHANGED <<handler, child, wva, wval, forks, snap, writes>>

(* After the loop: sys_env_set_status(envid, ENV_RUNNABLE), return envid. *)
ForkSetStatus(e) ==
    /\ Running(e) /\ pc[e] = "f_dup" /\ idx[e] > Len(VAOrder)
    /\ Call(e, SysEnvSetStatus(kern, e, child[e], "runnable"), "run")
    /\ UNCHANGED <<handler, child, idx, wva, wval, forks, snap, writes>>

(* The child's sys_exofork returns 0: fix thisenv and return 0.           *)
ChildReturn(e) ==
    /\ Running(e) /\ pc[e] = "child_ret"
    /\ Goto(e, "run")
    /\ UNCHANGED <<kern, handler, child, idx, wva, wval, forks, snap, writes>>

----------------------------------------------------------------------------
(* Everything an environment does once it has started an operation; the  *)
(* choice to start one (StartWrite, ForkBegin) is the program's.          *)
Step(e) ==
    \/ Store(e) \/ PageFault(e)
    \/ PgfaultCheck(e) \/ PgfaultAlloc(e) \/ PgfaultCopy(e) \/ PgfaultMap(e)
    \/ PgfaultUnmap(e)
    \/ SetHandlerAlloc(e) \/ SetHandlerUpcall(e) \/ ForkExofork(e)
    \/ ForkChildUxstack(e) \/ ForkChildUpcall(e)
    \/ DupSkip(e) \/ DupCow(e) \/ DupSelf(e) \/ DupShared(e)
    \/ ForkSetStatus(e) \/ ChildReturn(e)

Next == \E e \in Envs : StartWrite(e) \/ ForkBegin(e) \/ Step(e)

(* The round-robin scheduler (sched_yield) with timer preemption runs    *)
(* every runnable environment again and again, so an environment that   *)
(* can take a step eventually takes it.                                   *)
Spec == Init /\ [][Next]_vars /\ \A e \in Envs : WF_vars(Step(e))

----------------------------------------------------------------------------
(* Properties.                                                            *)

(* A writable page is mapped nowhere else. fork() and pgfault() each     *)
(* open one window in which it is not: duppage between mapping a         *)
(* writable page copy-on-write into the child and downgrading the        *)
(* parent's own PTE, and pgfault between mapping the fresh copy at the   *)
(* faulting address and unmapping it from PFTEMP. Outside these windows  *)
(* a store through a writable PTE can change no one else's memory.       *)
WritableExclusive ==
    \A e \in Envs, va \in VAs :
        "W" \in PTE(e, va).perm =>
            \A e2 \in Envs, va2 \in VAs :
                (<<e2, va2>> # <<e, va>> /\ PTE(e2, va2).frame = PTE(e, va).frame) =>
                    \/ /\ pc[e] = "f_dup_self" /\ e2 = child[e]
                       /\ va = DupVA(e) /\ va2 = va
                    \/ /\ pc[e] = "pf_unmap" /\ e2 = e
                       /\ {va, va2} = {"PFTEMP", wva[e]}

(* When a forked child first runs (its sys_exofork "returns" 0), it sees *)
(* at every page it shares with its parent what the parent saw when      *)
(* sys_exofork created it, whatever the parent and the other             *)
(* environments have written since.                                       *)
ForkCopiesMemory ==
    [][\A c \in Envs :
         (pc[c] = "child_ret" /\ pc'[c] = "run") =>
             \A va \in {"DATA", "RODATA"} : (View(c, va))' = snap[c][va]]_vars

(* Copy-on-write is invisible: the frames, PTEs and page faults together *)
(* implement a private memory per environment (IsolatedMemory), in which *)
(* a store changes only the storing environment's memory and remapping   *)
(* a mapped page never changes what it shows.                            *)
NoWrite == [va |-> "none", v |-> NoVal]

Iso == INSTANCE IsolatedMemory
         WITH Scratch <- "PFTEMP",
              mem <- [e \in Envs |-> [va \in VAs |-> View(e, va)]],
              pending <- [e \in Envs |->
                            IF kern.status[e] # "free" /\ pc[e] \in Writing
                            THEN [va |-> wva[e], v |-> wval[e]] ELSE NoWrite]

PrivateMemory == Iso!Spec

(* A copy-on-write fault is resolved: once the upcall is running, the    *)
(* faulting store eventually completes, unless the handler panics (out   *)
(* of memory) or the environment is destroyed. The re-executed store     *)
(* must not fault again.                                                  *)
FaultResolves ==
    \A e \in Envs : pc[e] = "pf_check" ~> pc[e] \in {"run", "panicked", "none"}

(* Every physical page is on the free list or in use as a page directory, *)
(* a page table or a mapped user page: a page that sys_page_alloc takes  *)
(* from page_alloc and fails to insert is given back (spec.md 4.2:       *)
(* "If mapping fails after the page is allocated, the page is released  *)
(* (no leak)").                                                           *)
InUse ==
    ({PTE(e, va).frame : e \in Envs, va \in VAs}
       \cup {kern.ptab[e][r] : e \in Envs, r \in Regions}
       \cup {kern.pgdir[e] : e \in Envs}) \ {NoFrame}

NoFrameLeak == kern.free \cup InUse = Frames

=============================================================================
