----------------------------- MODULE JosKernel -----------------------------
(***************************************************************************)
(* The JOS scheduler (src/lab/kern/sched.c) and the environment, IPC and  *)
(* dispatch system calls (src/lab/kern/syscall.c) on a machine with       *)
(* several CPUs. Address spaces are left to MemSyscalls; here the state is *)
(* what decides who runs and who talks to whom:                            *)
(*   status[e]   ENV_FREE / RUNNABLE / RUNNING / NOT_RUNNABLE / DYING      *)
(*   parent[e]   env_parent_id                                             *)
(*   cur[c]      curenv of CPU c (NoEnv: the CPU is halted in sched_halt) *)
(*   recving[e], from[e], value[e]  env_ipc_recving/from/value             *)
(*   freelist    env_free_list, a stack: env_free pushes, env_alloc pops  *)
(*   monitor     some CPU dropped into the kernel monitor for good         *)
(* Every entry into the kernel holds the big kernel lock until it returns *)
(* to user mode or halts, so each entry is one pure function of K.        *)
(* Environments are their slot numbers 0..NENV-1 in envs[]; env_run,      *)
(* env_free, env_destroy, env_alloc and the trap() glue are in kern/env.c *)
(* and kern/trap.c, not in this repository, and follow their documented   *)
(* behaviour.                                                              *)
(***************************************************************************)
EXTENDS Integers, Sequences, FiniteSetsExt

CONSTANTS
    NENV,       \* slots in envs[]
    NCPU,       \* CPUs
    Values      \* the 32-bit IPC values, abstracted to a small set

Envs == 0 .. NENV - 1
CPUs == 0 .. NCPU - 1
NoEnv == -1

Statuses == {"free", "runnable", "running", "not_runnable", "dying"}

KernelType == [status  : [Envs -> Statuses],
               parent  : [Envs -> Envs \cup {NoEnv}],
               cur     : [CPUs -> Envs \cup {NoEnv}],
               recving : [Envs -> BOOLEAN],
               from    : [Envs -> Envs \cup {NoEnv}],
               value   : [Envs -> Values],
               freelist: Seq(Envs),
               monitor : BOOLEAN]

(* env_run(e) on CPU c: the previous curenv, if still RUNNING, becomes    *)
(* RUNNABLE; e becomes curenv and RUNNING.                                 *)
EnvRun(k, c, e) ==
    LET prev == k.cur[c]
        st   == IF prev # NoEnv /\ k.status[prev] = "running"
                THEN [k.status EXCEPT ![prev] = "runnable"] ELSE k.status
    IN [k EXCEPT !.status = [st EXCEPT ![e] = "running"], !.cur[c] = e]

(* sched_halt: with no environment RUNNABLE, RUNNING or DYING the CPU     *)
(* drops into the monitor (holding the kernel lock, forever); otherwise   *)
(* it clears curenv and halts until the next timer interrupt.             *)
SchedHalt(k, c) ==
    IF \A e \in Envs : k.status[e] \notin {"runnable", "running", "dying"}
    THEN [k EXCEPT !.monitor = TRUE]
    ELSE [k EXCEPT !.cur[c] = NoEnv]

(* Seeded fault: the scan also accepts an environment that is RUNNING,   *)
(* possibly on another CPU.                                                *)
SchedYieldAnyLive(k, c) ==
    LET idle    == IF k.cur[c] = NoEnv THEN 0 ELSE (k.cur[c] + 1) % NENV
        Slot(i) == (idle + i) % NENV
        hits    == {i \in 0 .. NENV - 1 : k.status[Slot(i)] \in {"runnable", "running"}}
    IN IF hits # {} THEN EnvRun(k, c, Slot(Min(hits)))
       ELSE SchedHalt(k, c)

(* Seeded fault: the scan always starts at envs[0].                       *)
SchedYieldFromZero(k, c) ==
    LET hits == {i \in 0 .. NENV - 1 : k.status[i] = "runnable"}
    IN IF hits # {} THEN EnvRun(k, c, Min(hits))
       ELSE IF k.cur[c] # NoEnv /\ k.status[k.cur[c]] = "running"
            THEN EnvRun(k, c, k.cur[c])
       ELSE SchedHalt(k, c)

(* sched_yield: scan envs[] circularly from the slot after curenv (from  *)
(* slot 0 when there is none) and run the first RUNNABLE one; otherwise   *)
(* keep running curenv if it is still RUNNING; otherwise halt.            *)
SchedYield(k, c) ==
    LET idle    == IF k.cur[c] = NoEnv THEN 0 ELSE (k.cur[c] + 1) % NENV
        Slot(i) == (idle + i) % NENV
        hits    == {i \in 0 .. NENV - 1 : k.status[Slot(i)] = "runnable"}
    IN IF hits # {} THEN EnvRun(k, c, Slot(Min(hits)))
       ELSE IF k.cur[c] # NoEnv /\ k.status[k.cur[c]] = "running"
            THEN EnvRun(k, c, k.cur[c])
       ELSE SchedHalt(k, c)

(* trap(), after the handler: resume curenv if it is still RUNNING,      *)
(* otherwise schedule.                                                     *)
TrapReturn(k, c) ==
    IF k.cur[c] # NoEnv /\ k.status[k.cur[c]] = "running" THEN k
    ELSE SchedYield(k, c)

(* env_free: the slot is pushed on the head of env_free_list (its memory *)
(* is the business of MemSyscalls).                                        *)
EnvFree(k, e) == [k EXCEPT !.status[e] = "free", !.freelist = <<e>> \o @]

(* env_destroy(e) called on CPU c: an environment running on another CPU *)
(* is only marked DYING (that CPU frees it at its next trap); otherwise   *)
(* it is freed, and if it was curenv the CPU has no curenv any more.      *)
EnvDestroy(k, c, e) ==
    IF k.status[e] = "running" /\ k.cur[c] # e
    THEN [k EXCEPT !.status[e] = "dying"]
    ELSE LET k1 == EnvFree(k, e)
         IN IF k.cur[c] = e THEN [k1 EXCEPT !.cur[c] = NoEnv] ELSE k1

(* trap() entered from user mode by a DYING curenv: free it and schedule. *)
ReapDying(k, c) ==
    SchedYield([EnvFree(k, k.cur[c]) EXCEPT !.cur[c] = NoEnv], c)

(* envid2env(envid, &e, checkperm). Ids are slot numbers: a stale id of  *)
(* a reused slot is not distinguished from the new environment.           *)
Envid2EnvOK(k, cur, e, checkperm) ==
    /\ e \in Envs
    /\ k.status[e] # "free"
    /\ ~checkperm \/ e = cur \/ k.parent[e] = cur

Result(r, k) == [ret |-> r, k |-> k]

(* sys_exofork returns the new envid or -E_NO_FREE_ENV (inc/error.h).     *)
E_NO_FREE_ENV == 5

(* sys_env_destroy(envid).                                                 *)
SysEnvDestroy(k, c, e) ==
    IF ~Envid2EnvOK(k, k.cur[c], e, TRUE) THEN Result("E_BAD_ENV", k)
    ELSE Result("ok", EnvDestroy(k, c, e))

(* Seeded fault: env_alloc does not unlink the slot from env_free_list.  *)
SysExoforkNoPop(k, c) ==
    IF k.freelist = <<>> THEN Result(-E_NO_FREE_ENV, k)
    ELSE LET e == Head(k.freelist)
         IN [ret |-> e,
             k   |-> [k EXCEPT !.status[e] = "not_runnable",
                               !.parent[e] = k.cur[c],
                               !.recving[e] = FALSE]]

(* sys_exofork(): env_alloc pops the head of env_free_list, clears       *)
(* env_ipc_recving and sets the parent; the child is NOT_RUNNABLE.        *)
SysExofork(k, c) ==
    IF k.freelist = <<>> THEN Result(-E_NO_FREE_ENV, k)
    ELSE LET e == Head(k.freelist)
         IN [ret |-> e,
             k   |-> [k EXCEPT !.status[e] = "not_runnable",
                               !.parent[e] = k.cur[c],
                               !.recving[e] = FALSE,
                               !.freelist = Tail(@)]]

(* sys_env_set_status(envid, status).                                      *)
SysEnvSetStatus(k, c, e, s) ==
    IF s \notin {"runnable", "not_runnable"} THEN Result("E_INVAL", k)
    ELSE IF ~Envid2EnvOK(k, k.cur[c], e, TRUE) THEN Result("E_BAD_ENV", k)
    ELSE Result("ok", [k EXCEPT !.status[e] = s])

(* Seeded fault: the send does not clear env_ipc_recving.                 *)
SysIpcTrySendKeepRecving(k, c, e, v) ==
    IF ~Envid2EnvOK(k, k.cur[c], e, FALSE) THEN Result("E_BAD_ENV", k)
    ELSE IF ~k.recving[e] THEN Result("E_IPC_NOT_RECV", k)
    ELSE Result("ok", [k EXCEPT !.from[e] = k.cur[c],
                                !.value[e] = v, !.status[e] = "runnable"])

(* sys_ipc_try_send(envid, value, srcva, perm). Every sender in this     *)
(* repository passes srcva >= UTOP (ipc_send with pg = 0), so the page    *)
(* transfer branch never runs and env_ipc_perm is 0.                      *)
SysIpcTrySend(k, c, e, v) ==
    IF ~Envid2EnvOK(k, k.cur[c], e, FALSE) THEN Result("E_BAD_ENV", k)
    ELSE IF ~k.recving[e] THEN Result("E_IPC_NOT_RECV", k)
    ELSE Result("ok", [k EXCEPT !.recving[e] = FALSE, !.from[e] = k.cur[c],
                                !.value[e] = v, !.status[e] = "runnable"])

(* sys_ipc_recv(dstva): a misaligned dstva below UTOP is rejected;        *)
(* otherwise the caller waits NOT_RUNNABLE and the CPU schedules (the     *)
(* call never returns).                                                    *)
SysIpcRecv(k, c, dstva) ==
    LET e == k.cur[c] IN
    IF dstva = "misaligned" THEN Result("E_INVAL", k)
    ELSE Result("blocked", SchedYield([k EXCEPT !.recving[e] = TRUE,
                                                !.status[e] = "not_runnable"], c))

(* sys_env_set_trapframe(envid, tf): user_mem_assert destroys the caller *)
(* when tf is not a readable user address (tf = "null").                  *)
SysEnvSetTrapframe(k, c, e, tf) ==
    IF tf = "null" THEN Result("destroyed", EnvDestroy(k, c, k.cur[c]))
    ELSE IF ~Envid2EnvOK(k, k.cur[c], e, TRUE) THEN Result("E_BAD_ENV", k)
    ELSE Result("ok", k)

(* The SYS_ipc_recv case of syscall() has no return: when sys_ipc_recv   *)
(* returns its error, control falls into SYS_env_set_trapframe with      *)
(* envid = dstva and tf = a2, which ipc_recv passes as 0.                 *)
SyscallIpcRecv(k, c, dstva) ==
    LET r == SysIpcRecv(k, c, dstva) IN
    IF r.ret = "blocked" THEN r
    ELSE SysEnvSetTrapframe(r.k, c, NoEnv, "null")

=============================================================================
