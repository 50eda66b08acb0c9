---------------------------- MODULE MemSyscalls ----------------------------
(***************************************************************************)
(* The JOS system calls that create environments and manipulate their     *)
(* address spaces (src/lab/kern/syscall.c), over the address-space        *)
(* primitives they call (page_alloc, page_insert, page_remove,            *)
(* page_lookup of kern/pmap.c and env_alloc, env_free, envid2env of       *)
(* kern/env.c, which are not in this repository and are modelled from     *)
(* their documented behaviour).                                           *)
(*                                                                         *)
(* The whole kernel state is one record K:                                 *)
(*   status[e]   ENV_FREE / ENV_RUNNABLE / ENV_NOT_RUNNABLE               *)
(*   parent[e]   env_parent_id                                             *)
(*   upcall[e]   env_pgfault_upcall has been set                          *)
(*   pgdir[e]    the frame holding e's page directory (NoFrame if none)   *)
(*   ptab[e][r]  the frame holding e's page table for region r            *)
(*   pt[e][va]   the page-table entry of va: a frame and a permission set *)
(*   free        page_free_list                                            *)
(*   content[f]  the data of frame f, abstracted to a small set of values *)
(* Every system call runs under the big kernel lock, so each one is a     *)
(* pure function from K to a result record [ret, k, env].                 *)
(***************************************************************************)
EXTENDS FiniteSets

CONSTANTS
    Envs,       \* the slots of envs[NENV]
    Frames,     \* the physical pages
    Values,     \* what a page may hold; 0 is a zeroed page
    NoFrame,    \* no page (an absent PTE, an unused page-table slot)
    NoEnv       \* no environment (env_parent_id of the first environment)

(* The user virtual pages the model follows, in PGNUM order: the         *)
(* page-fault scratch page PFTEMP, a writable data page, a read-only      *)
(* text page and the user exception stack UXSTACKTOP-PGSIZE.              *)
VAs == {"PFTEMP", "DATA", "RODATA", "UXSTACK"}
VAOrder == <<"PFTEMP", "DATA", "RODATA", "UXSTACK">>

(* The page directory entry (4MB region) each page lies in: PFTEMP is in *)
(* PDX 1, text and data from 0x800000 in PDX 2, both user stacks below   *)
(* USTACKTOP in the same PDX.                                             *)
Regions == {"temp", "text", "stack"}
Region(va) == CASE va = "PFTEMP"  -> "temp"
                [] va = "UXSTACK" -> "stack"
                [] OTHER          -> "text"

(* Permission bits; PTE_SYSCALL = PTE_P|PTE_U|PTE_W|PTE_AVAIL and PTE_COW *)
(* is one of the PTE_AVAIL bits.                                          *)
PTE_SYSCALL == {"P", "U", "W", "COW"}
PUW   == {"P", "U", "W"}
PU    == {"P", "U"}
PUCOW == {"P", "U", "COW"}
Perms == {p \in SUBSET PTE_SYSCALL : PU \subseteq p}

NoMap == [frame |-> NoFrame, perm |-> {}]
Mapping == [frame : Frames, perm : Perms] \cup {NoMap}

Statuses == {"free", "runnable", "not_runnable"}

KernelType == [status : [Envs -> Statuses],
               parent : [Envs -> Envs \cup {NoEnv}],
               upcall : [Envs -> BOOLEAN],
               pgdir  : [Envs -> Frames \cup {NoFrame}],
               ptab   : [Envs -> [Regions -> Frames \cup {NoFrame}]],
               pt     : [Envs -> [VAs -> Mapping]],
               free   : SUBSET Frames,
               content: [Frames -> Values]]

(* page_alloc takes the head of page_free_list: any free page will do.    *)
Pick(S) == CHOOSE x \in S : TRUE

Present(m) == m.frame # NoFrame

(* pp_ref: the number of PTEs that map f.                                 *)
Referenced(pt, f) == \E e \in Envs, va \in VAs : pt[e][va].frame = f

(* A page leaves the free list when its last reference goes (page_decref). *)
Released(pt, f) == IF f # NoFrame /\ ~Referenced(pt, f) THEN {f} ELSE {}

(* pgdir_walk(create=1) inside page_insert needs a page for a missing     *)
(* page table; page_insert fails with -E_NO_MEM when none is left.        *)
InsertOK(k, e, va) == k.ptab[e][Region(va)] # NoFrame \/ k.free # {}

(* page_insert(pgdir, pp, va, perm), assuming InsertOK: it allocates the   *)
(* page table if needed, drops the old mapping of va (which frees its     *)
(* page if that was the last reference; re-inserting the same page keeps *)
(* it) and installs the new entry.                                         *)
PageInsert(k, e, f, va, perm) ==
    LET r     == Region(va)
        newPT == k.ptab[e][r] = NoFrame
        ptp   == Pick(k.free)
        pt2   == [k.pt EXCEPT ![e][va] = [frame |-> f, perm |-> perm]]
        free2 == IF newPT THEN k.free \ {ptp} ELSE k.free
    IN [k EXCEPT !.ptab = IF newPT THEN [@ EXCEPT ![e][r] = ptp] ELSE @,
                 !.pt   = pt2,
                 !.free = free2 \cup Released(pt2, k.pt[e][va].frame)]

(* page_remove(pgdir, va): silently does nothing when va is unmapped.     *)
PageRemove(k, e, va) ==
    LET pt2 == [k.pt EXCEPT ![e][va] = NoMap]
    IN [k EXCEPT !.pt = pt2, !.free = @ \cup Released(pt2, k.pt[e][va].frame)]

(* envid2env(envid, &e, checkperm): the environment must be live and,     *)
(* when checkperm is set, be the caller or a child of the caller.        *)
(* Environment ids are the slots themselves: an id is never stale here.  *)
Envid2EnvOK(k, cur, e, checkperm) ==
    /\ k.status[e] # "free"
    /\ ~checkperm \/ e = cur \/ k.parent[e] = cur

Result(r, k) == [ret |-> r, k |-> k, env |-> NoEnv]

(* sys_page_alloc(envid, va, perm). The address checks always pass for    *)
(* the page-aligned user pages of VAs. When page_insert fails the page   *)
(* taken by page_alloc is not given back.                                 *)
SysPageAlloc(k, cur, e, va, perm) ==
    IF ~(PU \subseteq perm /\ perm \subseteq PTE_SYSCALL) THEN Result("E_INVAL", k)
    ELSE IF ~Envid2EnvOK(k, cur, e, TRUE) THEN Result("E_BAD_ENV", k)
    ELSE IF k.free = {} THEN Result("E_NO_MEM", k)
    ELSE LET p  == Pick(k.free)
             k1 == [k EXCEPT !.free = @ \ {p}, !.content[p] = 0]
         IN IF ~InsertOK(k1, e, va) THEN Result("E_NO_MEM", k1)
            ELSE Result("ok", PageInsert(k1, e, p, va, perm))

(* sys_page_map(srcenvid, srcva, dstenvid, dstva, perm).                  *)
SysPageMap(k, cur, se, sva, de, dva, perm) ==
    LET src == k.pt[se][sva] IN
    IF ~(PU \subseteq perm /\ perm \subseteq PTE_SYSCALL) THEN Result("E_INVAL", k)
    ELSE IF ~Envid2EnvOK(k, cur, se, TRUE) \/ ~Envid2EnvOK(k, cur, de, TRUE)
         THEN Result("E_BAD_ENV", k)
    ELSE IF ~Present(src) THEN Result("E_INVAL", k)
    ELSE IF "W" \notin src.perm /\ "W" \in perm THEN Result("E_INVAL", k)
    ELSE IF ~InsertOK(k, de, dva) THEN Result("E_NO_MEM", k)
    ELSE Result("ok", PageInsert(k, de, src.frame, dva, perm))

(* sys_page_unmap(envid, va).                                              *)
SysPageUnmap(k, cur, e, va) ==
    IF ~Envid2EnvOK(k, cur, e, TRUE) THEN Result("E_BAD_ENV", k)
    ELSE Result("ok", PageRemove(k, e, va))

(* sys_exofork(): env_alloc takes a free slot and a page for the page     *)
(* directory (env_setup_vm); the child is ENV_NOT_RUNNABLE, has no user   *)
(* mappings and no upcall, and its env_parent_id is the caller.           *)
SysExofork(k, cur) ==
    IF \A e \in Envs : k.status[e] # "free" THEN Result("E_NO_FREE_ENV", k)
    ELSE IF k.free = {} THEN Result("E_NO_MEM", k)
    ELSE LET c == Pick({e \in Envs : k.status[e] = "free"})
             d == Pick(k.free)
         IN [ret |-> "ok", env |-> c,
             k |-> [k EXCEPT !.status[c] = "not_runnable", !.parent[c] = cur,
                             !.upcall[c] = FALSE, !.pgdir[c] = d,
                             !.free = @ \ {d}]]

(* sys_env_set_status(envid, status).                                      *)
SysEnvSetStatus(k, cur, e, s) ==
    IF s \notin {"runnable", "not_runnable"} THEN Result("E_INVAL", k)
    ELSE IF ~Envid2EnvOK(k, cur, e, TRUE) THEN Result("E_BAD_ENV", k)
    ELSE Result("ok", [k EXCEPT !.status[e] = s])

(* sys_env_set_pgfault_upcall(envid, func).                               *)
SysEnvSetPgfaultUpcall(k, cur, e) ==
    IF ~Envid2EnvOK(k, cur, e, TRUE) THEN Result("E_BAD_ENV", k)
    ELSE Result("ok", [k EXCEPT !.upcall[e] = TRUE])

(* env_destroy / env_free: unmap every user page, free the page tables   *)
(* and the page directory, and free the slot.                             *)
EnvFree(k, e) ==
    LET pt2 == [k.pt EXCEPT ![e] = [va \in VAs |-> NoMap]]
        own == {k.ptab[e][r] : r \in Regions} \cup {k.pgdir[e]}
        gone == UNION {Released(pt2, k.pt[e][va].frame) : va \in VAs}
    IN [k EXCEPT !.pt = pt2,
                 !.ptab[e] = [r \in Regions |-> NoFrame],
                 !.pgdir[e] = NoFrame,
                 !.free = @ \cup gone \cup (own \ {NoFrame}),
                 !.status[e] = "free", !.upcall[e] = FALSE]

=============================================================================
