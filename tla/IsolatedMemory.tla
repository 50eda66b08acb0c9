--------------------------- MODULE IsolatedMemory ---------------------------
(***************************************************************************)
(* What copy-on-write fork promises (spec.md 4.3, 4.4, 8): every           *)
(* environment sees a private memory. mem[e][va] is what e reads at va    *)
(* (NoVal when va is unmapped). A step changes the memory of one          *)
(* environment only, and only by                                           *)
(*   - completing the write the environment is performing (pending[e]),   *)
(*   - copying one of its own pages into its scratch page (the memcpy    *)
(*     of the fault handler),                                              *)
(*   - mapping a page whose contents another page shows, where a page     *)
(*     that is already mapped must keep showing what it showed,           *)
(*   - mapping a fresh zeroed page where nothing was mapped,              *)
(*   - unmapping a page or the whole address space.                       *)
(* Sharing a writable page between two environments, or a write that     *)
(* shows up in someone else's memory, is not a step of this module.      *)
(***************************************************************************)
CONSTANTS Envs, VAs, Values, NoVal, NoWrite, Scratch

VARIABLES mem, pending

Writes == [va : VAs, v : Values]

TypeOK ==
    /\ mem \in [Envs -> [VAs -> Values \cup {NoVal}]]
    /\ pending \in [Envs -> Writes \cup {NoWrite}]

Init ==
    /\ mem \in [Envs -> [VAs -> Values \cup {NoVal}]]
    /\ pending = [e \in Envs |-> NoWrite]

Begin(e) ==
    /\ pending[e] = NoWrite
    /\ \E w \in Writes : pending' = [pending EXCEPT ![e] = w]
    /\ UNCHANGED mem

Store(e) ==
    /\ pending[e] # NoWrite
    /\ mem[e][pending[e].va] # NoVal
    /\ mem' = [mem EXCEPT ![e][pending[e].va] = pending[e].v]
    /\ pending' = [pending EXCEPT ![e] = NoWrite]

Abort(e) ==
    /\ pending[e] # NoWrite
    /\ pending' = [pending EXCEPT ![e] = NoWrite]
    /\ UNCHANGED mem

Copy(e, src) ==
    /\ mem[e][Scratch] # NoVal
    /\ mem[e][src] # NoVal
    /\ mem' = [mem EXCEPT ![e][Scratch] = mem[e][src]]
    /\ UNCHANGED pending

Share(e, dst, s, src) ==
    /\ mem[s][src] # NoVal
    /\ mem[e][dst] \in {NoVal, mem[s][src]}
    /\ mem' = [mem EXCEPT ![e][dst] = mem[s][src]]
    /\ UNCHANGED pending

Fill(e, va) ==
    /\ mem[e][va] = NoVal
    /\ mem' = [mem EXCEPT ![e][va] = 0]
    /\ UNCHANGED pending

Drop(e, va) ==
    /\ mem' = [mem EXCEPT ![e][va] = NoVal]
    /\ UNCHANGED pending

DropAll(e) ==
    /\ mem' = [mem EXCEPT ![e] = [va \in VAs |-> NoVal]]
    /\ pending' = [pending EXCEPT ![e] = NoWrite]

Next ==
    \E e \in Envs :
        \/ Begin(e) \/ Store(e) \/ Abort(e) \/ DropAll(e)
        \/ \E va \in VAs : Fill(e, va) \/ Drop(e, va)
        \/ \E src \in VAs : Copy(e, src)
        \/ \E s \in Envs, dst, src \in VAs : Share(e, dst, s, src)

Spec == Init /\ [][Next]_<<mem, pending>>

=============================================================================
