----------------------------- MODULE ShmMutex -----------------------------
(***************************************************************************)
(* ngx_shmtx_t, the mutex of a shared memory zone (ngx_shmtx.c, the atomic *)
(* operations variant): a lock word that holds the pid of its owner, and,  *)
(* where POSIX semaphores work, a count of waiters and a semaphore they    *)
(* sleep on.  Every read or atomic operation on shared memory is a step;   *)
(* "*mtx->lock == 0 && ngx_atomic_cmp_set(...)" is one, since a failed     *)
(* read and a failed cmp_set have the same outcome.                        *)
(*                                                                         *)
(* Where it is:  "lock" at the head of the loop or spinning, "count"       *)
(* before it adds itself to wait, "retry" before its second attempt,       *)
(* "undo" with the lock but still counted, "sleep" in sem_wait, "cs" with  *)
(* the lock; in ngx_shmtx_wakeup "wake" before it reads wait, "cas" before *)
(* the cmp_set of wait, "post" before sem_post.                            *)
(***************************************************************************)
EXTENDS NgxProcs

VARIABLES semaphore,  \* mtx->semaphore: sem_init succeeded
          lock,       \* *mtx->lock, the pid of the owner or None
          wait,       \* *mtx->wait, read as a signed number
          sem,        \* the value of mtx->sem
          pc,         \* process -> where it is
          seen        \* process -> its local variable wait

mutexVars == <<semaphore, lock, wait, sem, pc, seen>>

Actors == Procs \cup {Master}

(* ngx_shmtx_create on zeroed shared memory, for a zone mutex (spin 0).    *)
ngx_shmtx_create == /\ semaphore \in BOOLEAN
                    /\ lock = None
                    /\ wait = 0
                    /\ sem = 0
                    /\ pc = [a \in Actors |-> "idle"]
                    /\ seen = [a \in Actors |-> 0]

Goto(a, l) == pc' = [pc EXCEPT ![a] = l]

At(a, l) == /\ pc[a] = l
            /\ a \in Alive \cup {Master}

----------------------------------------------------------------------------
(* ngx_shmtx_trylock, when it succeeds; a failure changes nothing.         *)
ngx_shmtx_trylock(p) == /\ At(p, "idle")
                        /\ lock = None
                        /\ lock' = p
                        /\ Goto(p, "cs")
                        /\ UNCHANGED <<semaphore, wait, sem, seen, procVars>>

ngx_shmtx_lock(p) == /\ At(p, "idle")
                     /\ Goto(p, "lock")
                     /\ UNCHANGED <<semaphore, lock, wait, sem, seen, procVars>>

Acquire(p) == /\ At(p, "lock")
              /\ lock = None
              /\ lock' = p
              /\ Goto(p, "cs")
              /\ UNCHANGED <<semaphore, wait, sem, seen, procVars>>

(* It has found the lock taken and spun enough.  Without a semaphore it    *)
(* yields the processor and stays in the loop: no step.                    *)
SpinOver(p) == /\ At(p, "lock")
               /\ lock # None
               /\ semaphore
               /\ Goto(p, "count")
               /\ UNCHANGED <<semaphore, lock, wait, sem, seen, procVars>>

CountIn(p) == /\ At(p, "count")
              /\ wait' = wait + 1
              /\ Goto(p, "retry")
              /\ UNCHANGED <<semaphore, lock, sem, seen, procVars>>

(* Mutant: to sleep without the second attempt.                            *)
RetryNot(p) == /\ At(p, "retry")
               /\ Goto(p, "sleep")
               /\ UNCHANGED <<semaphore, lock, wait, sem, seen, procVars>>


Retry(p) == /\ At(p, "retry")
            /\ IF lock = None
                 THEN /\ lock' = p
                      /\ Goto(p, "undo")
                 ELSE /\ Goto(p, "sleep")
                      /\ UNCHANGED lock
            /\ UNCHANGED <<semaphore, wait, sem, seen, procVars>>

(* Mutant: the count not taken back.                                       *)
CountStays(p) == /\ At(p, "undo")
                 /\ Goto(p, "cs")
                 /\ UNCHANGED <<semaphore, lock, wait, sem, seen, procVars>>


CountOut(p) == /\ At(p, "undo")
               /\ wait' = wait - 1
               /\ Goto(p, "cs")
               /\ UNCHANGED <<semaphore, lock, sem, seen, procVars>>

(* sem_wait returns; a return with EINTR is a repeated call: no step.      *)
SemWait(p) == /\ At(p, "sleep")
              /\ sem > 0
              /\ sem' = sem - 1
              /\ Goto(p, "lock")
              /\ UNCHANGED <<semaphore, lock, wait, seen, procVars>>

(* Mutant: a plain store of 0.                                             *)
StoreFree(a, pid) == /\ lock' = None
                     /\ Goto(a, IF semaphore THEN "wake" ELSE "idle")
                     /\ UNCHANGED <<semaphore, wait, sem, seen>>

(* The cmp_set of the lock word from pid to 0 by process a, and whether    *)
(* ngx_shmtx_wakeup has anything to do after it.                           *)
CmpSetFree(a, pid) == /\ lock' = IF lock = pid THEN None ELSE lock
                      /\ Goto(a, IF lock = pid /\ semaphore THEN "wake" ELSE "idle")
                      /\ UNCHANGED <<semaphore, wait, sem, seen>>

ngx_shmtx_unlock(p) == /\ At(p, "cs")
                       /\ CmpSetFree(p, p)
                       /\ UNCHANGED procVars

(* Mutant: the master only takes note of the death.                        *)
NoForceUnlock(p) == /\ At(Master, "idle")
                    /\ Waited(p)
                    /\ UNCHANGED mutexVars

(* The master frees the mutex of a dead process.                           *)
ngx_shmtx_force_unlock(p) == /\ At(Master, "idle")
                             /\ Waited(p)
                             /\ CmpSetFree(Master, p)

----------------------------------------------------------------------------
(* Mutant: a single waiter is taken for none.                              *)
ReadWaitOver1(a) == /\ At(a, "wake")
                    /\ IF wait <= 1
                         THEN /\ Goto(a, "idle")
                              /\ UNCHANGED seen
                         ELSE /\ Goto(a, "cas")
                              /\ seen' = [seen EXCEPT ![a] = wait]
                    /\ UNCHANGED <<semaphore, lock, wait, sem, procVars>>

(* ngx_shmtx_wakeup, by the process a that freed the lock.                 *)
ReadWait(a) == /\ At(a, "wake")
               /\ IF wait <= 0
                    THEN /\ Goto(a, "idle")
                         /\ UNCHANGED seen
                    ELSE /\ Goto(a, "cas")
                         /\ seen' = [seen EXCEPT ![a] = wait]
               /\ UNCHANGED <<semaphore, lock, wait, sem, procVars>>

CmpSetWait(a) == /\ At(a, "cas")
                 /\ IF wait = seen[a]
                      THEN /\ wait' = wait - 1
                           /\ Goto(a, "post")
                      ELSE /\ Goto(a, "wake")
                           /\ UNCHANGED wait
                 /\ seen' = [seen EXCEPT ![a] = 0]
                 /\ UNCHANGED <<semaphore, lock, sem, procVars>>

SemPost(a) == /\ At(a, "post")
              /\ sem' = sem + 1
              /\ Goto(a, "idle")
              /\ UNCHANGED <<semaphore, lock, wait, seen, procVars>>

----------------------------------------------------------------------------
MutexInit == ProcsInit /\ ngx_shmtx_create

(* The steps inside a call that has begun.                                 *)
InLock(p) == \/ Acquire(p)
             \/ SpinOver(p)
             \/ CountIn(p)
             \/ Retry(p)
             \/ CountOut(p)
             \/ SemWait(p)

InWakeup(a) == \/ ReadWait(a)
               \/ CmpSetWait(a)
               \/ SemPost(a)

Begin(p) == \/ ngx_shmtx_trylock(p)
            \/ ngx_shmtx_lock(p)

MutexNext == \/ \E p \in Procs : \/ Begin(p)
                                 \/ InLock(p)
                                 \/ ngx_shmtx_unlock(p)
                                 \/ ngx_shmtx_force_unlock(p)
                                 \/ Crash(p) /\ UNCHANGED mutexVars
                                 \/ Respawn(p) /\ UNCHANGED mutexVars
             \/ \E a \in Actors : InWakeup(a)

MutexSpec == MutexInit /\ [][MutexNext]_<<procVars, mutexVars>>

----------------------------------------------------------------------------
MutexTypeOK == /\ semaphore \in BOOLEAN
               /\ lock \in Procs \cup {None}
               /\ wait \in Int
               /\ sem \in Nat
               /\ pc \in [Actors -> {"idle", "lock", "count", "retry", "undo", "sleep",
                                    "cs", "wake", "cas", "post"}]
               /\ seen \in [Actors -> Int]

Owning == {"undo", "cs"}

(* The lock word names exactly the process that believes it has the lock:  *)
(* no two processes are between ngx_shmtx_lock and ngx_shmtx_unlock, and   *)
(* ngx_shmtx_force_unlock, which the master calls while other workers lock *)
(* and unlock, frees the lock of the dead process it is called for and of  *)
(* no other.                                                               *)
LockWord == \A p \in Procs : lock = p <=> pc[p] \in Owning /\ p \notin reaped

Waiting == {p \in Procs : pc[p] \in {"retry", "undo", "sleep"}}

Posting == {a \in Actors : pc[a] = "post"}

(* Every waiter that counted itself in is matched by a count in wait, a    *)
(* token in the semaphore or a sem_post under way, also when a waiter gets *)
(* the lock at its second attempt and wait goes below 0                    *)
(* (ngx_shmtx_lock, ngx_shmtx_wakeup).  The dead count where they died.    *)
SemBalance == wait + sem + Cardinality(Posting) = Cardinality(Waiting)

(* On the way to the lock, or to waking another process.                   *)
Moving == {"lock", "count", "retry", "wake", "cas", "post"}

(* A process died there, with the wakeup it had taken or owed.             *)
WakeupDied == \E p \in dead : pc[p] \in Moving

(* No wakeup is lost: while the lock is free, a process that sleeps in     *)
(* sem_wait will find a token, or another process is still on its way to   *)
(* the lock or to waking it (the second attempt of ngx_shmtx_lock after    *)
(* the count, the loop of ngx_shmtx_wakeup).  Processes that die with the  *)
(* lock or asleep do no harm; only one that dies between the two can.      *)
NoLostWakeup ==
    ~WakeupDied /\ lock = None /\ sem = 0 /\ (\E p \in Alive : pc[p] = "sleep")
        => \E a \in Alive \cup {Master} : pc[a] \in Moving

Wanting == {p \in Alive : pc[p] \in {"lock", "count", "retry", "sleep"}}

(* So a lock that is free while a process is in ngx_shmtx_lock is taken,   *)
(* unless all those that want it die.  Which process gets it is left open: *)
(* one that arrives may overtake the one that sleeps.                      *)
FreeLockTaken ==
    lock = None /\ Wanting # {} ~> lock # None \/ Wanting = {} \/ WakeupDied

ZoneLock == INSTANCE CrashLock WITH holder <- lock

(* The zone mutex is a lock that survives its owner: it passes from hand   *)
(* to hand only through being free, a living owner keeps it until it       *)
(* unlocks, and that of a dead one is freed by ngx_unlock_mutexes.         *)
ZoneLockImplemented == ZoneLock!FairSpec
=============================================================================
