-------------------------------- MODULE XvTrap --------------------------------
(***************************************************************************)
(* One xv6 user process on one CPU and the clock, as src/xv6-public/trap.c *)
(* and sysproc.c handle them: the timer interrupt (ticks, the wakeup of    *)
(* sys_sleep, the alarm upcall), the lazy page-fault handler behind the    *)
(* lazy sys_sbrk, and sys_sleep, sys_alarm and sys_exit.                   *)
(*   ticks            the global uint, TICKW bits wide                     *)
(*   ps               user | sleeping | runnable (woken inside sys_sleep)  *)
(*                    | zombie                                             *)
(*   sn, ticks0       sys_sleep's argument and its snapshot of ticks       *)
(*   mem[va]          the page at va: NoPage when unmapped, else its data  *)
(*   ptab             the page-table pages of the page directory           *)
(*   nfree            pages on kmem's free list                            *)
(*   eip, ustack      where user code runs, and the return addresses the   *)
(*                    alarm upcall pushed on the user stack                *)
(* History variables: slept counts the ticks since sys_sleep began,      *)
(* shadow[va] the last value the program stored at va.                     *)
(***************************************************************************)
EXTENDS Integers, SequencesExt

CONSTANTS
    TICKW,      \* bits of ticks (uint: 32)
    SleepArgs,  \* arguments of sleep(n), negative ones included
    AlarmArgs,  \* the ticks argument of alarm(ticks, handler)
    KERNBASE,   \* the first kernel page
    VAs,        \* pages the program touches (above KERNBASE: kernel ones)
    PTPAGES,    \* pages one page-table page maps
    Values,     \* stored data, abstracted; 0 is a zeroed page
    Load,       \* a load instead of a store
    Junk,       \* what kfree leaves in a free page (memset 1)
    NoPage,     \* an unmapped page
    NFRAMES,    \* free pages at the start
    Main,       \* the program's own code, at address 0
    Handler,    \* the function it registers with alarm()
    MaxNest     \* bound on alarm upcalls not yet returned

Mod == 2 ^ TICKW
U(x) == x % Mod                    \* conversion of an int to uint
Region(va) == va \div PTPAGES      \* the page-table page that maps va

VARIABLES ticks, ps, sn, ticks0, killed, mem, ptab, nfree, alarmticks,
          alarmhandler, tickspassed, eip, ustack, slept, shadow

vars == <<ticks, ps, sn, ticks0, killed, mem, ptab, nfree, alarmticks,
          alarmhandler, tickspassed, eip, ustack, slept, shadow>>

TypeOK ==
    /\ ticks \in 0 .. Mod - 1 /\ ticks0 \in 0 .. Mod - 1
    /\ ps \in {"user", "sleeping", "runnable", "zombie"}
    /\ sn \in SleepArgs /\ killed \in BOOLEAN
    /\ mem \in [VAs -> Values \cup {Junk, NoPage}]
    /\ ptab \subseteq {Region(va) : va \in VAs} /\ nfree \in 0 .. NFRAMES
    /\ alarmticks \in AlarmArgs \cup {0}
    /\ tickspassed \in 0 .. Max(AlarmArgs \cup {0})
    /\ alarmhandler \in {Main, Handler} /\ eip \in {Main, Handler}
    /\ ustack \in Seq({Main, Handler}) /\ Len(ustack) <= MaxNest
    /\ slept \in 0 .. Mod /\ shadow \in [VAs -> Values]

(* The process has just been started by exec: no heap page is mapped    *)
(* yet, ticks has some value, and proc's alarm fields are zero, so its   *)
(* alarm handler is address 0, the program's entry.                      *)
Init ==
    /\ ticks \in 0 .. Mod - 1 /\ ticks0 = 0
    /\ ps = "user" /\ sn = 0 /\ killed = FALSE
    /\ mem = [va \in VAs |-> NoPage] /\ ptab = {} /\ nfree = NFRAMES
    /\ alarmticks = 0 /\ alarmhandler = Main /\ tickspassed = 0
    /\ eip = Main /\ ustack = <<>>
    /\ slept = 0 /\ shadow = [va \in VAs |-> 0]

(* exit(), from trap() or a system call; freevm returns the pages, which *)
(* no later step of this process observes.                                *)
Exit == ps' = "zombie"

----------------------------------------------------------------------------
(* Seeded fault: the loop test written as ticks < ticks0 + n.             *)
StillSleepingNoWrap(t0, n) == ticks < U(t0 + n)

(* sys_sleep's loop test: ticks - ticks0 < n, in uint arithmetic.        *)
StillSleeping(t0, n) == U(ticks - t0) < U(n)

(* A system call (the T_SYSCALL case of trap()): a killed process exits  *)
(* before syscall(); otherwise the call runs. The second killed test      *)
(* after syscall() sees the flag the call began with, since nothing else  *)
(* runs on the one CPU meanwhile (a sleep that blocks takes it up again   *)
(* in SleepWake).                                                          *)
Syscall(call) ==
    /\ ps = "user"
    /\ IF killed
       THEN Exit /\ UNCHANGED <<ticks, sn, ticks0, killed, mem, ptab, nfree,
                                alarmticks, alarmhandler, tickspassed, eip,
                                ustack, slept, shadow>>
       ELSE call

(* sys_sleep: ticks0 = ticks, then sleep while the loop test holds.      *)
SysSleep(n) ==
    /\ sn' = n /\ ticks0' = ticks /\ slept' = 0
    /\ ps' = IF StillSleeping(ticks, n) THEN "sleeping" ELSE "user"
    /\ UNCHANGED <<ticks, killed, mem, ptab, nfree, alarmticks, alarmhandler,
                   tickspassed, eip, ustack, shadow>>

(* Woken in sys_sleep: test again; return -1 if killed (and trap() exits *)
(* the process), sleep again, or return 0 (and trap() exits a process     *)
(* killed meanwhile).                                                     *)
SleepWake ==
    /\ ps = "runnable"
    /\ ps' = IF killed THEN "zombie"
             ELSE IF StillSleeping(ticks0, sn) THEN "sleeping" ELSE "user"
    /\ UNCHANGED <<ticks, sn, ticks0, killed, mem, ptab, nfree, alarmticks,
                   alarmhandler, tickspassed, eip, ustack, slept, shadow>>
(* The alarm upcall is due: a tick from user mode brings the count to   *)
(* alarmticks.                                                             *)
Upcall == ps = "user" /\ tickspassed + 1 >= alarmticks

(* Seeded fault: the count is not reset when the upcall is made.          *)
AlarmNoReset ==
    IF Upcall
    THEN /\ tickspassed' = tickspassed + 1 /\ ustack' = Append(ustack, eip)
         /\ eip' = alarmhandler
    ELSE /\ tickspassed' = IF ps = "user" THEN tickspassed + 1 ELSE tickspassed
         /\ UNCHANGED <<ustack, eip>>

(* The alarm part of the timer case: from user mode tickspassed++; once  *)
(* it reaches alarmticks it is reset, the old eip is pushed on the user  *)
(* stack and the trap frame returns into alarmhandler.                    *)
Alarm ==
    IF Upcall
    THEN /\ tickspassed' = 0 /\ ustack' = Append(ustack, eip)
         /\ eip' = alarmhandler
    ELSE /\ tickspassed' = IF ps = "user" THEN tickspassed + 1 ELSE tickspassed
         /\ UNCHANGED <<ustack, eip>>

(* Seeded fault: the timer interrupt does not wakeup(&ticks).            *)
WakeupTicksNone(p) == p

(* wakeup(&ticks): a process sleeping in sys_sleep becomes RUNNABLE.     *)
WakeupTicks(p) == IF p = "sleeping" THEN "runnable" ELSE p

(* The timer interrupt on CPU 0: the alarm, ticks++ and wakeup(&ticks),  *)
(* then a killed process in user mode exits. The one CPU runs a woken    *)
(* sleeper before the next tick; the upcalls not yet returned stay below *)
(* MaxNest.                                                                *)
Tick ==
    /\ ps # "runnable" /\ (Upcall => Len(ustack) < MaxNest)
    /\ Alarm
    /\ ticks' = U(ticks + 1)
    /\ slept' = IF ps = "sleeping" /\ slept < Mod THEN slept + 1 ELSE slept
    /\ ps' = IF ps = "user" /\ killed THEN "zombie" ELSE WakeupTicks(ps)
    /\ UNCHANGED <<sn, ticks0, killed, mem, ptab, nfree, alarmticks,
                   alarmhandler, shadow>>

(* kill(pid) from another process: p->killed = 1, and a SLEEPING p is    *)
(* made RUNNABLE.                                                          *)
Kill ==
    /\ ps # "zombie" /\ ~killed
    /\ killed' = TRUE
    /\ ps' = IF ps = "sleeping" THEN "runnable" ELSE ps
    /\ UNCHANGED <<ticks, sn, ticks0, mem, ptab, nfree, alarmticks,
                   alarmhandler, tickspassed, eip, ustack, slept, shadow>>

(* sys_alarm: alarmticks and alarmhandler are set; the count is not.     *)
SysAlarm(t) ==
    /\ alarmticks' = t /\ alarmhandler' = Handler
    /\ UNCHANGED <<ticks, ps, sn, ticks0, killed, mem, ptab, nfree, tickspassed,
                   eip, ustack, slept, shadow>>

(* sys_exit.                                                                *)
SysExit ==
    /\ Exit
    /\ UNCHANGED <<ticks, sn, ticks0, killed, mem, ptab, nfree, alarmticks,
                   alarmhandler, tickspassed, eip, ustack, slept, shadow>>

(* Any other trap from user mode (the default case): the process is     *)
(* assumed to have misbehaved, is killed, and exits at the end of trap(). *)
Misbehave ==
    /\ ps = "user" /\ killed' = TRUE /\ Exit
    /\ UNCHANGED <<ticks, sn, ticks0, mem, ptab, nfree, alarmticks,
                   alarmhandler, tickspassed, eip, ustack, slept, shadow>>

(* The alarm handler returns: ret pops the interrupted eip.               *)
HandlerRet ==
    /\ ps = "user" /\ eip = Handler /\ ustack # <<>>
    /\ eip' = Last(ustack) /\ ustack' = Front(ustack)
    /\ UNCHANGED <<ticks, ps, sn, ticks0, killed, mem, ptab, nfree, alarmticks,
                   alarmhandler, tickspassed, slept, shadow>>
(* Seeded fault: the fresh page is mapped without memset(m, 0, PGSIZE).  *)
FreshPageUnset == Junk

(* memset(m, 0, PGSIZE).                                                    *)
FreshPage == 0

(* Seeded fault: the error path never kfrees the page from kalloc.      *)
KfreedNever(va) == FALSE

(* Whether the fault handler's error path kfrees the page kalloc gave    *)
(* it: only inside the va <= KERNBASE test, after mappages fails.        *)
Kfreed(va) == va <= KERNBASE

(* A load or store (op) by user code at va. A mapped page is used at    *)
(* once. Otherwise the page fault handler kallocs a page and, if va is   *)
(* not above KERNBASE, zeroes it and mappages it PTE_W|PTE_U (walkpgdir  *)
(* kallocs the page-table page if there is none); the retried access then *)
(* succeeds. If kalloc or mappages fails, the page is kfreed, the process *)
(* is killed and exits at the end of trap(); above KERNBASE the page      *)
(* from kalloc is not kfreed.                                              *)
Touch(va, op) ==
    /\ ps = "user"
    /\ IF mem[va] # NoPage
       THEN /\ mem' = IF op = Load THEN mem ELSE [mem EXCEPT ![va] = op]
            /\ UNCHANGED <<ps, killed, ptab, nfree>>
       ELSE LET newpt == Region(va) \notin ptab
                mapped == nfree > 0 /\ va <= KERNBASE /\ (newpt => nfree > 1)
            IN IF mapped
               THEN /\ mem' = [mem EXCEPT ![va] = IF op = Load THEN FreshPage ELSE op]
                    /\ ptab' = ptab \cup {Region(va)}
                    /\ nfree' = nfree - (IF newpt THEN 2 ELSE 1)
                    /\ ps' = IF killed THEN "zombie" ELSE ps
                    /\ UNCHANGED killed
               ELSE /\ killed' = TRUE /\ Exit
                    /\ nfree' = IF nfree > 0 /\ ~Kfreed(va) THEN nfree - 1 ELSE nfree
                    /\ UNCHANGED <<mem, ptab>>
    /\ shadow' = IF op = Load \/ mem'[va] = NoPage THEN shadow
                 ELSE [shadow EXCEPT ![va] = op]
    /\ UNCHANGED <<ticks, sn, ticks0, alarmticks, alarmhandler, tickspassed,
                   eip, ustack, slept>>

Next ==
    \/ Tick \/ Kill \/ SleepWake \/ Misbehave \/ HandlerRet
    \/ Syscall(SysExit)
    \/ \E n \in SleepArgs : Syscall(SysSleep(n))
    \/ \E t \in AlarmArgs : Syscall(SysAlarm(t))
    \/ \E va \in VAs, op \in Values \cup {Load} : Touch(va, op)

(* The clock keeps interrupting, and the scheduler runs a RUNNABLE        *)
(* process; the program itself may stop at any point.                     *)
Spec == Init /\ [][Next]_vars /\ WF_vars(Tick) /\ WF_vars(SleepWake)

----------------------------------------------------------------------------
(* sleep(n) returns 0 only after n clock ticks, also when ticks wraps     *)
(* around between sys_sleep's snapshot ticks0 and the wakeup that ends   *)
(* it (sysproc.c:77 with the uint ticks of trap.c:70): back in user mode *)
(* the process has slept at least the n of its last sleep.                *)
SleepLasts == ps = "user" => slept >= sn

(* Every sleep(n) ends: wakeup(&ticks) on each tick makes the sleeper     *)
(* test its loop again, and kill() wakes a killed one.                     *)
SleepReturns == (ps \in {"sleeping", "runnable"}) ~> (ps \in {"user", "zombie"})

(* Lazy allocation is invisible to the program: every page it can reach *)
(* holds what it last stored there, and 0 where it never stored.         *)
ZeroFill == \A va \in VAs : mem[va] # NoPage => mem[va] = shadow[va]

(* No page is lost by the page-fault handler: every page kalloc gives it  *)
(* is mapped into the process, is a page-table page, or is kfreed again   *)
(* (the comment at trap.c:109), so these and the free list always add up  *)
(* to the pages there were. A mappages that fails for want of a page-    *)
(* table page must kfree the page it was given (trap.c:110); a fault on a *)
(* kernel address kallocs before it tests va (trap.c:102-103) and does   *)
(* not.                                                                    *)
NoPageLeak ==
    nfree + Cardinality({va \in VAs : mem[va] # NoPage}) + Cardinality(ptab) = NFRAMES

====
