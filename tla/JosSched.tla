----------------------------- MODULE JosSched ------------------------------
(***************************************************************************)
(* User environments on NCPU CPUs calling the scheduler and the IPC and   *)
(* environment system calls of JosKernel, the way the user library of    *)
(* src/lab/lib and the programs of src/lab/user call them:                *)
(*   ipc_send   loop sys_ipc_try_send, sys_yield while -E_IPC_NOT_RECV,  *)
(*              panic on any other error;                                  *)
(*   ipc_recv   sys_ipc_recv(dstva), then read thisenv->env_ipc_value;    *)
(*   fork       sys_exofork, then sys_env_set_status(child, RUNNABLE);   *)
(*   sys_yield;                                                            *)
(* Calls says which further calls the programs make: "exit"              *)
(* (sys_env_destroy(0) of itself, as exit() does when umain returns), and *)
(* two that no program of the repository makes: "destroy"                *)
(* (sys_env_destroy of any environment) and "recv_misaligned"            *)
(* (sys_ipc_recv with a misaligned dstva). Every CPU takes timer          *)
(* interrupts.                                                             *)
(* A user panic stops the machine in the kernel monitor.                  *)
(***************************************************************************)
EXTENDS JosKernel

CONSTANTS Calls     \* subset of {"exit", "destroy", "recv_misaligned"}

VARIABLES
    k,          \* the kernel state, a KernelType record
    pc,         \* where each environment's user code is
    dest,       \* the [to, v] of the ipc_send in progress (NoSend outside)
    child,      \* the child of the fork in progress (NoEnv outside)
    mailbox     \* history: the [from, v] sends accepted for e, not yet read by it

vars == <<k, pc, dest, child, mailbox>>

NoSend == [to |-> NoEnv, v |-> 0]

PCs == {"user", "sending", "send_yield", "blocked", "forking"}

TypeOK ==
    /\ k \in KernelType
    /\ pc \in [Envs -> PCs]
    /\ dest \in [Envs -> [to : Envs, v : Values] \cup {NoSend}]
    /\ child \in [Envs -> Envs \cup {NoEnv}]
    /\ mailbox \in [Envs -> Seq([from : Envs, v : Values])]

(* i386_init: env_init puts every slot on env_free_list in order, one    *)
(* environment is created RUNNABLE in slot 0, and every CPU enters       *)
(* sched_yield with no curenv.                                            *)
Init ==
    /\ k = [status  |-> [e \in Envs |-> IF e = 0 THEN "runnable" ELSE "free"],
            parent  |-> [e \in Envs |-> NoEnv],
            cur     |-> [c \in CPUs |-> NoEnv],
            recving |-> [e \in Envs |-> FALSE],
            from    |-> [e \in Envs |-> NoEnv],
            value   |-> [e \in Envs |-> 0],
            freelist|-> [i \in 1 .. NENV - 1 |-> i],
            monitor |-> FALSE]
    /\ pc = [e \in Envs |-> "user"]
    /\ dest = [e \in Envs |-> NoSend]
    /\ child = [e \in Envs |-> NoEnv]
    /\ mailbox = [e \in Envs |-> <<>>]

(* CPU c is executing the user code of e (a DYING curenv is reaped at its *)
(* next trap instead of making a system call).                            *)
Runs(c, e) ==
    /\ ~k.monitor
    /\ k.cur[c] = e /\ e # NoEnv
    /\ k.status[e] # "dying"

Panic == [k EXCEPT !.monitor = TRUE]

----------------------------------------------------------------------------
(* The timer interrupt (or any trap) on CPU c: a DYING curenv is freed,   *)
(* then sched_yield; a halted CPU wakes up into sched_yield.              *)
TimerTick(c) ==
    /\ ~k.monitor
    /\ k' = IF k.cur[c] # NoEnv /\ k.status[k.cur[c]] = "dying"
            THEN ReapDying(k, c) ELSE SchedYield(k, c)
    /\ UNCHANGED <<pc, dest, child, mailbox>>

(* sys_yield.                                                              *)
Yield(c, e) ==
    /\ Runs(c, e) /\ pc[e] = "user"
    /\ k' = SchedYield(k, c)
    /\ UNCHANGED <<pc, dest, child, mailbox>>

(* ipc_send(to, v, 0, 0) is entered.                                       *)
StartSend(c, e) ==
    /\ Runs(c, e) /\ pc[e] = "user"
    /\ \E to \in Envs, v \in Values : dest' = [dest EXCEPT ![e] = [to |-> to, v |-> v]]
    /\ pc' = [pc EXCEPT ![e] = "sending"]
    /\ UNCHANGED <<k, child, mailbox>>

TrySend(c, e) ==
    /\ Runs(c, e) /\ pc[e] = "sending"
    /\ LET r == SysIpcTrySend(k, c, dest[e].to, dest[e].v) IN
       CASE r.ret = "ok" ->
              /\ k' = TrapReturn(r.k, c)
              /\ pc' = [pc EXCEPT ![e] = "user"]
              /\ dest' = [dest EXCEPT ![e] = NoSend]
              /\ mailbox' = [mailbox EXCEPT ![dest[e].to] =
                                Append(@, [from |-> e, v |-> dest[e].v])]
         [] r.ret = "E_IPC_NOT_RECV" ->
              /\ k' = TrapReturn(r.k, c)
              /\ pc' = [pc EXCEPT ![e] = "send_yield"]
              /\ UNCHANGED <<dest, mailbox>>
         [] OTHER -> k' = Panic /\ UNCHANGED <<pc, dest, mailbox>>
    /\ UNCHANGED child

SendYield(c, e) ==
    /\ Runs(c, e) /\ pc[e] = "send_yield"
    /\ k' = SchedYield(k, c)
    /\ pc' = [pc EXCEPT ![e] = "sending"]
    /\ UNCHANGED <<dest, child, mailbox>>

RecvVAs == {"utop"} \cup IF "recv_misaligned" \in Calls THEN {"misaligned"} ELSE {}

(* ipc_recv(&from, pg, &perm): the system call either blocks the caller  *)
(* or, through the dispatcher's fall-through, destroys it.                *)
Recv(c, e) ==
    /\ Runs(c, e) /\ pc[e] = "user"
    /\ \E dstva \in RecvVAs :
         LET r == SyscallIpcRecv(k, c, dstva) IN
         IF r.ret = "blocked"
         THEN k' = r.k /\ pc' = [pc EXCEPT ![e] = "blocked"]
         ELSE k' = TrapReturn(r.k, c) /\ UNCHANGED pc
    /\ UNCHANGED <<dest, child, mailbox>>

(* The environment runs again: ipc_recv stores thisenv->env_ipc_from and *)
(* returns thisenv->env_ipc_value.                                         *)
RecvReturn(c, e) ==
    /\ Runs(c, e) /\ pc[e] = "blocked"
    /\ pc' = [pc EXCEPT ![e] = "user"]
    /\ mailbox' = [mailbox EXCEPT ![e] = IF @ = <<>> THEN @ ELSE Tail(@)]
    /\ UNCHANGED <<k, dest, child>>

(* Seeded fault: fork does not check the result of sys_exofork.          *)
ExoforkUnchecked(c, e) ==
    /\ Runs(c, e) /\ pc[e] = "user"
    /\ LET r == SysExofork(k, c) IN
       IF r.ret >= 0
       THEN /\ k' = TrapReturn(r.k, c)
            /\ pc' = [pc EXCEPT ![e] = "forking", ![r.ret] = "user"]
            /\ dest' = [dest EXCEPT ![r.ret] = NoSend]
            /\ child' = [child EXCEPT ![e] = r.ret]
            /\ mailbox' = [mailbox EXCEPT ![r.ret] = <<>>]
       ELSE /\ k' = TrapReturn(r.k, c)
            /\ pc' = [pc EXCEPT ![e] = "forking"]
            /\ child' = [child EXCEPT ![e] = r.ret]
            /\ UNCHANGED <<dest, mailbox>>

(* fork: envid = sys_exofork(), panic if envid < 0; the child starts at   *)
(* its own user code, NOT_RUNNABLE.                                       *)
Exofork(c, e) ==
    /\ Runs(c, e) /\ pc[e] = "user"
    /\ LET r == SysExofork(k, c) IN
       IF r.ret >= 0
       THEN /\ k' = TrapReturn(r.k, c)
            /\ pc' = [pc EXCEPT ![e] = "forking", ![r.ret] = "user"]
            /\ dest' = [dest EXCEPT ![r.ret] = NoSend]
            /\ child' = [child EXCEPT ![e] = r.ret]
            /\ mailbox' = [mailbox EXCEPT ![r.ret] = <<>>]
       ELSE k' = Panic /\ UNCHANGED <<pc, dest, child, mailbox>>

(* fork: sys_env_set_status(child, ENV_RUNNABLE), panic on error.         *)
ForkRun(c, e) ==
    /\ Runs(c, e) /\ pc[e] = "forking"
    /\ LET r == SysEnvSetStatus(k, c, child[e], "runnable") IN
       /\ k' = IF r.ret = "ok" THEN TrapReturn(r.k, c) ELSE Panic
       /\ pc' = [pc EXCEPT ![e] = "user"]
       /\ child' = [child EXCEPT ![e] = NoEnv]
    /\ UNCHANGED <<dest, mailbox>>

DestroyTargets(e) ==
    (IF "exit" \in Calls THEN {e} ELSE {}) \cup (IF "destroy" \in Calls THEN Envs ELSE {})

(* sys_env_destroy(t); the result is not checked.                         *)
Destroy(c, e) ==
    /\ Runs(c, e) /\ pc[e] = "user"
    /\ \E t \in DestroyTargets(e) : k' = TrapReturn(SysEnvDestroy(k, c, t).k, c)
    /\ UNCHANGED <<pc, dest, child, mailbox>>

(* The machine sits in the kernel monitor.                                 *)
Stopped == k.monitor /\ UNCHANGED vars

UserStep(c, e) ==
    \/ Yield(c, e) \/ StartSend(c, e) \/ TrySend(c, e) \/ SendYield(c, e)
    \/ Recv(c, e) \/ RecvReturn(c, e) \/ Exofork(c, e) \/ ForkRun(c, e)
    \/ Destroy(c, e)

Next ==
    \/ \E c \in CPUs : TimerTick(c) \/ \E e \in Envs : UserStep(c, e)
    \/ Stopped

(* The local APIC timer interrupts every CPU periodically whatever its    *)
(* user code does; user code itself gets no fairness.                    *)
Spec == Init /\ [][Next]_vars /\ \A c \in CPUs : WF_vars(TimerTick(c))

----------------------------------------------------------------------------
(* env_alloc and env_free keep env_free_list exactly the free slots,     *)
(* each once: a slot freed twice would be handed out twice.               *)
FreeListExact ==
    /\ IsInjective(k.freelist)
    /\ Range(k.freelist) = {e \in Envs : k.status[e] = "free"}

(* sched.c: "Never choose an environment that's currently running on     *)
(* another CPU". No environment is curenv of two CPUs at once.            *)
NoDoubleRun ==
    \A c1, c2 \in CPUs : c1 # c2 /\ k.cur[c1] # NoEnv => k.cur[c1] # k.cur[c2]

(* The rendezvous of sys_ipc_try_send and sys_ipc_recv: when ipc_recv    *)
(* returns, the sender and value it reads are those of the one send       *)
(* accepted for it since it blocked; no second send overwrote them and no *)
(* wake-up came without a send.                                           *)
RecvGetsSentValue ==
    [][\A e \in Envs : /\ pc[e] = "blocked" /\ pc'[e] = "user"
                       /\ k.status[e] # "free" /\ k'.status[e] # "free"
                       => mailbox[e] = <<[from |-> k.from[e], v |-> k.value[e]]>>]_vars

(* Round robin in sched_yield: an environment made RUNNABLE eventually  *)
(* runs, unless it is destroyed first or the machine stops in the        *)
(* monitor.                                                                *)
RunnableEventuallyRuns ==
    \A e \in Envs : k.status[e] = "runnable"
        ~> (\E c \in CPUs : k.cur[c] = e) \/ k.status[e] = "free" \/ k.monitor

(* spec.md 4.2: sys_ipc_recv "only returns directly on a validation error *)
(* (misaligned destination address)". With no sys_env_destroy in the      *)
(* programs, no environment ever leaves the system.                       *)
NoEnvVanishes ==
    [][\A e \in Envs : k.status[e] # "free" => k'.status[e] # "free"]_vars

=============================================================================
