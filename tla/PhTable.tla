------------------------------- MODULE PhTable -------------------------------
(***************************************************************************)
(* The pthread hash table benchmark (src/hw06/ph.c). main fills keys[]    *)
(* with random numbers and starts NTHREAD threads; thread n puts its      *)
(* share keys[b*n .. b*n+b-1] into NBUCKET chained lists under one mutex, *)
(* meets the others at a spinning barrier on `done`, then looks up every  *)
(* key without the lock and counts the ones it cannot find.               *)
(*   table[i]   bucket i's list, head first; an entry is [key, value]      *)
(*   lock       the holder of the mutex, or NoThread                       *)
(*   i[t], k[t] the loop index and the missing-key count of thread t       *)
(*   n[t]       the old head that put read as insert's argument            *)
(* put reads table[i] when it evaluates insert's arguments and writes     *)
(* *p = e at the end of insert, so the two are separate steps.            *)
(***************************************************************************)
EXTENDS Integers, Sequences

CONSTANTS
    NTHREAD,    \* argv[1]
    NKEYS,      \* keys put in all
    NBUCKET,    \* chained lists
    KeyVals,    \* the values random() may give, abstracted to a few
    NoThread    \* a free mutex

ASSUME NKEYS % NTHREAD = 0      \* main: assert(NKEYS % nthread == 0)

Threads == 0 .. NTHREAD - 1
KeyIdx == 0 .. NKEYS - 1
Entry == [key : KeyVals, value : Threads]

VARIABLES keys, table, lock, done, pc, i, k, n

vars == <<keys, table, lock, done, pc, i, k, n>>

TypeOK ==
    /\ keys \in [KeyIdx -> KeyVals]
    /\ table \in [0 .. NBUCKET - 1 -> Seq(Entry)]
    /\ lock \in Threads \cup {NoThread}
    /\ done \in 0 .. NTHREAD
    /\ pc \in [Threads -> {"put", "insert", "link", "barrier", "spin", "get", "exit"}]
    /\ i \in [Threads -> 0 .. NKEYS] /\ k \in [Threads -> 0 .. NKEYS]
    /\ n \in [Threads -> Seq(Entry)]

(* b = NKEYS/nthread: the keys each thread puts.                          *)
B == NKEYS \div NTHREAD

(* The bucket of a key: key % NBUCKET.                                     *)
Bucket(key) == key % NBUCKET

(* get(key): the first entry of key's bucket with that key, if any.      *)
Found(key) == \E j \in 1 .. Len(table[Bucket(key)]) : table[Bucket(key)][j].key = key

(* main: keys[i] = random() for every i, then one pthread_create per     *)
(* thread; the table is a zeroed global.                                   *)
Init ==
    /\ keys \in [KeyIdx -> KeyVals]
    /\ table = [b \in 0 .. NBUCKET - 1 |-> <<>>]
    /\ lock = NoThread /\ done = 0
    /\ pc = [t \in Threads |-> "put"]
    /\ i = [t \in Threads |-> 0] /\ k = [t \in Threads |-> 0]
    /\ n = [t \in Threads |-> <<>>]

(* Seeded fault: put without pthread_mutex_lock.                         *)
AcquireNone(t) == UNCHANGED lock

(* pthread_mutex_lock(&lock): wait until the mutex is free and take it.   *)
Acquire(t) == lock = NoThread /\ lock' = t

(* Seeded fault: put returns without pthread_mutex_unlock.                *)
ReleaseNone == UNCHANGED lock

(* pthread_mutex_unlock(&lock).                                            *)
Release == lock' = NoThread

(* The put loop of thread(): put(keys[b*n + i], n) takes the mutex, or   *)
(* the loop ends and the thread goes to the barrier.                      *)
PutLock(t) ==
    /\ pc[t] = "put"
    /\ IF i[t] < B
       THEN Acquire(t) /\ pc' = [pc EXCEPT ![t] = "insert"]
       ELSE pc' = [pc EXCEPT ![t] = "barrier"] /\ UNCHANGED lock
    /\ UNCHANGED <<keys, table, done, i, k, n>>

(* insert(key, value, &table[i], table[i]): the argument table[i] is read. *)
PutRead(t) ==
    /\ pc[t] = "insert"
    /\ n' = [n EXCEPT ![t] = table[Bucket(keys[B * t + i[t]])]]
    /\ pc' = [pc EXCEPT ![t] = "link"]
    /\ UNCHANGED <<keys, table, lock, done, i, k>>

(* The rest of insert: e->next = n; *p = e (head insertion); then put     *)
(* unlocks and the loop moves to the next key.                            *)
PutLink(t) ==
    /\ pc[t] = "link"
    /\ LET key == keys[B * t + i[t]] IN
       table' = [table EXCEPT ![Bucket(key)] = <<[key |-> key, value |-> t]>> \o n[t]]
    /\ Release
    /\ i' = [i EXCEPT ![t] = @ + 1]
    /\ pc' = [pc EXCEPT ![t] = "put"]
    /\ UNCHANGED <<keys, done, k, n>>

(* Seeded fault: the fetch-and-add is inside the spin loop.              *)
ArriveInLoop(t) ==
    /\ pc[t] \in {"barrier", "spin"}
    /\ done' = done + 1
    /\ pc' = [pc EXCEPT ![t] = "spin"]
    /\ UNCHANGED <<keys, table, lock, i, k, n>>

(* __sync_fetch_and_add(&done, 1).                                         *)
Arrive(t) ==
    /\ pc[t] = "barrier"
    /\ done' = done + 1
    /\ pc' = [pc EXCEPT ![t] = "spin"]
    /\ UNCHANGED <<keys, table, lock, i, k, n>>

(* while (done < nthread) ; spins; the get loop starts at i = 0.          *)
Pass(t) ==
    /\ pc[t] = "spin" /\ done >= NTHREAD
    /\ pc' = [pc EXCEPT ![t] = "get"] /\ i' = [i EXCEPT ![t] = 0]
    /\ UNCHANGED <<keys, table, lock, done, k, n>>

(* One turn of the get loop: e = get(keys[i]); if (e == 0) k++. get walks *)
(* the list without the lock; the thread returns once i reaches NKEYS.    *)
Get(t) ==
    /\ pc[t] = "get"
    /\ IF i[t] < NKEYS
       THEN /\ k' = [k EXCEPT ![t] = IF Found(keys[i[t]]) THEN @ ELSE @ + 1]
            /\ i' = [i EXCEPT ![t] = @ + 1]
            /\ UNCHANGED pc
       ELSE pc' = [pc EXCEPT ![t] = "exit"] /\ UNCHANGED <<k, i>>
    /\ UNCHANGED <<keys, table, lock, done, n>>

Thread(t) ==
    PutLock(t) \/ PutRead(t) \/ PutLink(t) \/ Arrive(t) \/ Pass(t) \/ Get(t)

(* main waits in pthread_join for every thread and returns.               *)
Joined == \A t \in Threads : pc[t] = "exit"

Next == \E t \in Threads : Thread(t)

(* Each thread is a pthread the OS keeps scheduling.                       *)
Spec == Init /\ [][Next]_vars /\ \A t \in Threads : WF_vars(Thread(t))

----------------------------------------------------------------------------
(* Every thread prints "0 keys missing": a thread that has returned found *)
(* every key of keys[]. A put whose head read and head write are not     *)
(* under the mutex loses a concurrent insert to the same bucket, and a   *)
(* barrier that opens early lets a get run before the other thread's     *)
(* puts.                                                                  *)
NoKeyMissing == \A t \in Threads : pc[t] = "exit" => k[t] = 0

(* main's pthread_join returns: every thread gets through its puts, the  *)
(* barrier and its gets, which needs the mutex to be released after each *)
(* put and every thread's arrival to be counted in done.                  *)
AllJoined == <>Joined

=============================================================================
