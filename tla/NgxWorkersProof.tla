-------------------------- MODULE NgxWorkersProof ---------------------------
(***************************************************************************)
(* Proofs about ShmMutex, RwLock, AcceptMutex and the server they make up, *)
(* NgxWorkers, for any number of processes and of deaths.                  *)
(***************************************************************************)
EXTENDS NgxWorkers, FiniteSetTheorems, TLAPS

(* The master is none of the workers, and no process is None.              *)
LEMMA ActorSets ==
  /\ Procs \subseteq Actors /\ Master \in Actors /\ Master \notin Procs
  /\ None \notin Procs
  /\ IsFiniteSet(Procs) /\ IsFiniteSet(Actors)
BY ProcsAssumption, FS_AddElement DEF Actors

(* Two sets that differ in one element at most, and their sizes.           *)
LEMMA SizeMoves ==
  ASSUME NEW S, NEW T, NEW a, IsFiniteSet(S), T \ {a} = S \ {a}
  PROVE  /\ IsFiniteSet(T)
         /\ Cardinality(S) \in Nat /\ Cardinality(T) \in Nat
         /\ (a \in S <=> a \in T) => Cardinality(T) = Cardinality(S)
         /\ a \in T /\ a \notin S => Cardinality(T) = Cardinality(S) + 1
         /\ a \in S /\ a \notin T => Cardinality(T) = Cardinality(S) - 1
<1>1. CASE a \in S <=> a \in T
  <2>1. T = S
    BY <1>1
  <2> QED
    BY <1>1, <2>1, FS_CardinalityType
<1>2. CASE a \in T /\ a \notin S
  <2>1. T = S \cup {a}
    BY <1>2
  <2> QED
    BY <1>2, <2>1, FS_CardinalityType, FS_AddElement
<1>3. CASE a \in S /\ a \notin T
  <2>1. T = S \ {a}
    BY <1>3
  <2> QED
    BY <1>3, <2>1, FS_CardinalityType, FS_RemoveElement
<1> QED
  BY <1>1, <1>2, <1>3

(* What a step of one process does to the program counters.                *)
LEMMA Moves ==
  ASSUME MutexTypeOK, NEW a \in Actors, NEW l, Goto(a, l)
  PROVE  /\ pc'[a] = l
         /\ \A b \in Actors \ {a} : pc'[b] = pc[b]
BY DEF MutexTypeOK, Goto

(* The sets of waiters and of posters change by that process only.         *)
LEMMA SetsMove ==
  ASSUME NEW a \in Actors, \A b \in Actors \ {a} : pc'[b] = pc[b]
  PROVE  /\ Waiting' \ {a} = Waiting \ {a}
         /\ Posting' \ {a} = Posting \ {a}
         /\ IsFiniteSet(Waiting) /\ IsFiniteSet(Posting)
<1>1. Waiting \subseteq Procs /\ Posting \subseteq Actors
  BY DEF Waiting, Posting
<1>2. IsFiniteSet(Waiting) /\ IsFiniteSet(Posting)
  BY <1>1, ActorSets, FS_Subset
<1>3. Waiting' \ {a} = Waiting \ {a}
  BY ActorSets DEF Waiting
<1>4. Posting' \ {a} = Posting \ {a}
  BY DEF Posting
<1> QED
  BY <1>2, <1>3, <1>4

----------------------------------------------------------------------------
(* A pid that has not been given to a worker does nothing.                 *)
UnbornIdle == \A p \in Procs \ born : pc[p] = "idle"

(* Without a semaphore nobody counts, sleeps or wakes.                     *)
NoSemaphore == ~semaphore => \A a \in Actors : pc[a] \in {"idle", "lock", "cs"}

(* The steps of the mutex, one process moving from one place to another.   *)
MutexStep(a, from, to) == /\ a \in Alive \cup {Master}
                          /\ pc[a] = from
                          /\ pc'[a] = to
                          /\ \A b \in Actors \ {a} : pc'[b] = pc[b]

MutexInv == /\ ProcsTypeOK
            /\ MutexTypeOK
            /\ UnbornIdle
            /\ NoSemaphore
            /\ LockWord
            /\ SemBalance
            /\ NoLostWakeup

(* The processes keep their types.                                         *)
LEMMA ProcsStep ==
  ASSUME ProcsTypeOK, MutexNext \/ UNCHANGED procVars
  PROVE  ProcsTypeOK'
<1> USE DEF ProcsTypeOK, procVars, Alive
<1>1. CASE UNCHANGED procVars
  BY <1>1
<1>2. ASSUME NEW p \in Procs, Waited(p) PROVE ProcsTypeOK'
  BY <1>2 DEF Waited
<1>3. ASSUME NEW p \in Procs, Crash(p) PROVE ProcsTypeOK'
  BY <1>3 DEF Crash
<1>4. ASSUME NEW p \in Procs, Respawn(p) PROVE ProcsTypeOK'
  BY <1>4, Zenon DEF Respawn
<1>5. ASSUME MutexNext PROVE \/ UNCHANGED procVars
                             \/ \E p \in Procs : Waited(p) \/ Crash(p) \/ Respawn(p)
  BY <1>5, Zenon DEF MutexNext, Begin, InLock, InWakeup, ngx_shmtx_trylock, ngx_shmtx_lock,
     Acquire, SpinOver, CountIn, Retry, CountOut, SemWait, ngx_shmtx_unlock,
     ngx_shmtx_force_unlock, ReadWait, CmpSetWait, SemPost
<1> QED
  BY <1>1, <1>2, <1>3, <1>4, <1>5

(* Every step keeps the types of the mutex.                                *)
LEMMA TypeStep ==
  ASSUME MutexTypeOK, MutexNext
  PROVE  MutexTypeOK'
<1> USE ActorSets DEF MutexTypeOK, Goto
<1>1. ASSUME NEW p \in Procs, Begin(p) PROVE MutexTypeOK'
  BY <1>1 DEF Begin, ngx_shmtx_trylock, ngx_shmtx_lock
<1>2. ASSUME NEW p \in Procs, InLock(p) PROVE MutexTypeOK'
  <2>1. CASE Acquire(p)
    BY <2>1 DEF Acquire
  <2>2. CASE SpinOver(p)
    BY <2>2 DEF SpinOver
  <2>3. CASE CountIn(p)
    BY <2>3 DEF CountIn
  <2>4. CASE Retry(p)
    BY <2>4 DEF Retry
  <2>5. CASE CountOut(p)
    BY <2>5 DEF CountOut
  <2>6. CASE SemWait(p)
    BY <2>6 DEF SemWait
  <2> QED
    BY <1>2, <2>1, <2>2, <2>3, <2>4, <2>5, <2>6, Zenon DEF InLock
<1>3. ASSUME NEW p \in Procs, ngx_shmtx_unlock(p) PROVE MutexTypeOK'
  BY <1>3 DEF ngx_shmtx_unlock, CmpSetFree
<1>4. ASSUME NEW p \in Procs, ngx_shmtx_force_unlock(p) PROVE MutexTypeOK'
  BY <1>4 DEF ngx_shmtx_force_unlock, CmpSetFree
<1>5. ASSUME NEW a \in Actors, InWakeup(a) PROVE MutexTypeOK'
  <2>1. CASE ReadWait(a)
    BY <2>1 DEF ReadWait
  <2>2. CASE CmpSetWait(a)
    BY <2>2 DEF CmpSetWait
  <2>3. CASE SemPost(a)
    BY <2>3 DEF SemPost
  <2> QED
    BY <1>5, <2>1, <2>2, <2>3 DEF InWakeup
<1>6. ASSUME UNCHANGED mutexVars PROVE MutexTypeOK'
  BY <1>6 DEF mutexVars
<1> QED
  BY <1>1, <1>2, <1>3, <1>4, <1>5, <1>6 DEF MutexNext

----------------------------------------------------------------------------
(* A step of process a from one place to another, as the invariants below  *)
(* see it.  The first lemma covers what does not depend on the numbers.    *)
LEMMA PlaceStep ==
  ASSUME ProcsTypeOK, UnbornIdle, NoSemaphore,
         NEW a \in Actors, NEW from, NEW to, MutexStep(a, from, to),
         UNCHANGED <<born, semaphore>>,
         ~semaphore => to \in {"idle", "lock", "cs"}
  PROVE  UnbornIdle' /\ NoSemaphore'
<1>1. UnbornIdle'
  BY ActorSets DEF UnbornIdle, MutexStep, ProcsTypeOK, Alive
<1>2. NoSemaphore'
  BY DEF NoSemaphore, MutexStep
<1> QED
  BY <1>1, <1>2

(* The lock word where the step neither takes nor frees the lock.          *)
LEMMA WordKept ==
  ASSUME LockWord, NEW a \in Actors, NEW from, NEW to, MutexStep(a, from, to),
         UNCHANGED <<lock, reaped>>,
         from \in Owning <=> to \in Owning
  PROVE  LockWord'
BY ActorSets DEF LockWord, MutexStep

(* The lock word where the step takes it.                                  *)
LEMMA WordTaken ==
  ASSUME LockWord, ProcsTypeOK,
         NEW p \in Procs, NEW from, NEW to, MutexStep(p, from, to),
         UNCHANGED reaped, lock = None, lock' = p, to \in Owning
  PROVE  LockWord'
<1>1. p \notin reaped
  BY ActorSets DEF MutexStep, Alive, ProcsTypeOK
<1>2. \A q \in Procs \ {p} : ~(pc[q] \in Owning /\ q \notin reaped)
  BY ActorSets DEF LockWord
<1> QED
  BY <1>1, <1>2, ActorSets DEF LockWord, MutexStep

(* No wakeup is lost in a step that leaves its process under way, the lock *)
(* taken, a token in the semaphore or nobody asleep.                       *)
LEMMA WakeupKept ==
  ASSUME NoLostWakeup, ProcsTypeOK,
         NEW a \in Actors, NEW from, NEW to, MutexStep(a, from, to),
         UNCHANGED <<born, dead>>,
         \/ to \in Moving
         \/ lock' # None
         \/ sem' # 0
         \/ \A q \in Procs : pc'[q] # "sleep"
  PROVE  NoLostWakeup'
<1>1. CASE to \in Moving
  BY <1>1 DEF NoLostWakeup, MutexStep, Alive
<1>2. CASE lock' # None \/ sem' # 0
  BY <1>2 DEF NoLostWakeup
<1>3. CASE \A q \in Procs : pc'[q] # "sleep"
  BY <1>3 DEF NoLostWakeup, Alive, ProcsTypeOK
<1> QED
  BY <1>1, <1>2, <1>3

Counted == {"retry", "undo", "sleep"}

(* The sizes of the two sets after a step, from the places it is between.  *)
LEMMA SizesMove ==
  ASSUME NEW a \in Actors, NEW from, NEW to, MutexStep(a, from, to)
  PROVE  /\ Cardinality(Waiting) \in Nat /\ Cardinality(Waiting') \in Nat
         /\ Cardinality(Posting) \in Nat /\ Cardinality(Posting') \in Nat
         /\ a \notin Procs \/ (from \in Counted <=> to \in Counted)
              => Cardinality(Waiting') = Cardinality(Waiting)
         /\ a \in Procs /\ from \notin Counted /\ to \in Counted
              => Cardinality(Waiting') = Cardinality(Waiting) + 1
         /\ a \in Procs /\ from \in Counted /\ to \notin Counted
              => Cardinality(Waiting') = Cardinality(Waiting) - 1
         /\ (from = "post" <=> to = "post") => Cardinality(Posting') = Cardinality(Posting)
         /\ from # "post" /\ to = "post"
              => Cardinality(Posting') = Cardinality(Posting) + 1
         /\ from = "post" /\ to # "post"
              => Cardinality(Posting') = Cardinality(Posting) - 1
<1>1. /\ pc[a] = from /\ pc'[a] = to
      /\ \A b \in Actors \ {a} : pc'[b] = pc[b]
  BY DEF MutexStep
<1>2. /\ Waiting' \ {a} = Waiting \ {a}
      /\ Posting' \ {a} = Posting \ {a}
      /\ IsFiniteSet(Waiting) /\ IsFiniteSet(Posting)
  BY <1>1, SetsMove, Zenon
<1>3. /\ a \in Waiting <=> a \in Procs /\ from \in Counted
      /\ a \in Waiting' <=> a \in Procs /\ to \in Counted
  BY <1>1 DEF Waiting, Counted
<1>4. /\ a \in Posting <=> from = "post"
      /\ a \in Posting' <=> to = "post"
  BY <1>1 DEF Posting
<1>5. /\ Cardinality(Waiting) \in Nat /\ Cardinality(Waiting') \in Nat
      /\ (a \in Waiting <=> a \in Waiting') => Cardinality(Waiting') = Cardinality(Waiting)
      /\ a \in Waiting' /\ a \notin Waiting
           => Cardinality(Waiting') = Cardinality(Waiting) + 1
      /\ a \in Waiting /\ a \notin Waiting'
           => Cardinality(Waiting') = Cardinality(Waiting) - 1
  BY <1>2, SizeMoves
<1>6. /\ Cardinality(Posting) \in Nat /\ Cardinality(Posting') \in Nat
      /\ (a \in Posting <=> a \in Posting') => Cardinality(Posting') = Cardinality(Posting)
      /\ a \in Posting' /\ a \notin Posting
           => Cardinality(Posting') = Cardinality(Posting) + 1
      /\ a \in Posting /\ a \notin Posting'
           => Cardinality(Posting') = Cardinality(Posting) - 1
  BY <1>2, SizeMoves
<1> QED
  BY <1>3, <1>4, <1>5, <1>6

(* Whoever sleeps while nothing is counted is owed a token.                *)
LEMMA OwedToken ==
  ASSUME ProcsTypeOK, MutexTypeOK, UnbornIdle, SemBalance, sem = 0, wait <= 0,
         ~WakeupDied, NEW q \in Procs, pc[q] = "sleep"
  PROVE  \E b \in Alive \cup {Master} : pc[b] = "post"
<1>1. /\ IsFiniteSet(Waiting) /\ IsFiniteSet(Posting) /\ q \in Waiting
  BY ActorSets, FS_Subset DEF Waiting, Posting
<1>2. Cardinality(Waiting) # 0 /\ Cardinality(Waiting) \in Nat
  BY <1>1, FS_EmptySet, FS_CardinalityType
<1>3. Cardinality(Posting) \in Nat
  BY <1>1, FS_CardinalityType
<1>4. Cardinality(Posting) # 0
  BY <1>2, <1>3 DEF SemBalance, MutexTypeOK
<1>5. PICK b \in Actors : pc[b] = "post"
  BY <1>4, <1>1, FS_EmptySet DEF Posting
<1>6. b \notin dead
  BY <1>5 DEF WakeupDied, Moving
<1>7. b = Master \/ b \in born
  BY <1>5, ActorSets DEF UnbornIdle, Actors
<1> QED
  BY <1>5, <1>6, <1>7, Zenon DEF Alive


----------------------------------------------------------------------------
(* The invariant, action by action.  A death first: it may lose a wakeup,  *)
(* and then says so.                                                       *)
LEMMA CrashStep ==
  ASSUME MutexInv, NEW p \in Procs, Crash(p), UNCHANGED mutexVars
  PROVE  UnbornIdle' /\ NoSemaphore' /\ LockWord' /\ SemBalance' /\ NoLostWakeup'
<1> USE DEF MutexInv, Crash, mutexVars
<1>1. UnbornIdle' /\ NoSemaphore' /\ LockWord'
  BY DEF UnbornIdle, NoSemaphore, LockWord
<1>2. SemBalance'
  BY DEF SemBalance, Waiting, Posting
<1>3. NoLostWakeup'
  <2>1. CASE pc[p] \in Moving
    BY <2>1 DEF NoLostWakeup, WakeupDied
  <2>2. CASE pc[p] \notin Moving
    <3>1. Alive' = Alive \ {p}
      BY DEF Alive
    <3>2. WakeupDied => WakeupDied'
      BY DEF WakeupDied
    <3> QED
      BY <2>2, <3>1, <3>2 DEF NoLostWakeup
  <2> QED
    BY <2>1, <2>2
<1> QED
  BY <1>1, <1>2, <1>3

(* A new process has done nothing yet.                                     *)
LEMMA RespawnStep ==
  ASSUME MutexInv, NEW p \in Procs, Respawn(p), UNCHANGED mutexVars
  PROVE  UnbornIdle' /\ NoSemaphore' /\ LockWord' /\ SemBalance' /\ NoLostWakeup'
<1> USE DEF MutexInv, Respawn, mutexVars
<1>1. UnbornIdle' /\ NoSemaphore' /\ LockWord'
  BY DEF UnbornIdle, NoSemaphore, LockWord
<1>2. SemBalance'
  BY DEF SemBalance, Waiting, Posting
<1>3. NoLostWakeup'
  <2>1. pc[p] = "idle"
    BY DEF UnbornIdle
  <2>2. Alive \subseteq Alive' /\ Alive' \subseteq Alive \cup {p}
    BY DEF Alive
  <2>3. WakeupDied <=> WakeupDied'
    BY DEF WakeupDied
  <2> QED
    BY <2>1, <2>2, <2>3 DEF NoLostWakeup
<1> QED
  BY <1>1, <1>2, <1>3, Zenon

(* ngx_shmtx_trylock takes the lock.                                       *)
LEMMA TryLockStep ==
  ASSUME MutexInv, NEW p \in Procs, ngx_shmtx_trylock(p)
  PROVE  UnbornIdle' /\ NoSemaphore' /\ LockWord' /\ SemBalance' /\ NoLostWakeup'
<1> USE ActorSets DEF MutexInv
<1>1. MutexStep(p, "idle", "cs")
  BY Moves DEF ngx_shmtx_trylock, At, MutexStep
<1>2. UnbornIdle' /\ NoSemaphore'
  <2>1. semaphore \/ "cs" \in {"idle", "lock", "cs"}
    BY DEF ngx_shmtx_trylock, At, NoSemaphore
  <2> QED
    BY <1>1, <2>1, PlaceStep DEF ngx_shmtx_trylock, procVars
<1>3. LockWord'
  BY <1>1, WordTaken, Zenon DEF ngx_shmtx_trylock, procVars, Owning
<1>4. SemBalance'
  BY <1>1, SizesMove, SMTT(20) DEF ngx_shmtx_trylock, SemBalance, MutexTypeOK, Counted
<1>5. NoLostWakeup'
  BY <1>1, WakeupKept, Zenon DEF ngx_shmtx_trylock, procVars, Moving
<1> QED
  BY <1>2, <1>3, <1>4, <1>5, Zenon

(* Into the loop.                                                          *)
LEMMA LockStep ==
  ASSUME MutexInv, NEW p \in Procs, ngx_shmtx_lock(p)
  PROVE  UnbornIdle' /\ NoSemaphore' /\ LockWord' /\ SemBalance' /\ NoLostWakeup'
<1> USE ActorSets DEF MutexInv
<1>1. MutexStep(p, "idle", "lock")
  BY Moves DEF ngx_shmtx_lock, At, MutexStep
<1>2. UnbornIdle' /\ NoSemaphore'
  <2>1. semaphore \/ "lock" \in {"idle", "lock", "cs"}
    BY DEF ngx_shmtx_lock, At, NoSemaphore
  <2> QED
    BY <1>1, <2>1, PlaceStep, Zenon DEF ngx_shmtx_lock, procVars
<1>3. LockWord'
  BY <1>1, WordKept, Zenon DEF ngx_shmtx_lock, procVars, Owning
<1>4. SemBalance'
  BY <1>1, SizesMove DEF ngx_shmtx_lock, SemBalance, MutexTypeOK, Counted
<1>5. NoLostWakeup'
  BY <1>1, WakeupKept, Zenon DEF ngx_shmtx_lock, procVars, Moving
<1> QED
  BY <1>2, <1>3, <1>4, <1>5

(* The first attempt.                                                      *)
LEMMA AcquireStep ==
  ASSUME MutexInv, NEW p \in Procs, Acquire(p)
  PROVE  UnbornIdle' /\ NoSemaphore' /\ LockWord' /\ SemBalance' /\ NoLostWakeup'
<1> USE ActorSets DEF MutexInv
<1>1. MutexStep(p, "lock", "cs")
  BY Moves DEF Acquire, At, MutexStep
<1>2. UnbornIdle' /\ NoSemaphore'
  <2>1. semaphore \/ "cs" \in {"idle", "lock", "cs"}
    BY DEF Acquire, At, NoSemaphore
  <2> QED
    BY <1>1, <2>1, PlaceStep, Zenon DEF Acquire, procVars
<1>3. LockWord'
  BY <1>1, WordTaken, Zenon DEF Acquire, procVars, Owning
<1>4. SemBalance'
  BY <1>1, SizesMove, SMTT(20) DEF Acquire, SemBalance, MutexTypeOK, Counted
<1>5. NoLostWakeup'
  BY <1>1, WakeupKept, Zenon DEF Acquire, procVars, Moving
<1> QED
  BY <1>2, <1>3, <1>4, <1>5

(* The attempt has failed.                                                 *)
LEMMA SpinOverStep ==
  ASSUME MutexInv, NEW p \in Procs, SpinOver(p)
  PROVE  UnbornIdle' /\ NoSemaphore' /\ LockWord' /\ SemBalance' /\ NoLostWakeup'
<1> USE ActorSets DEF MutexInv
<1>1. MutexStep(p, "lock", "count")
  BY Moves DEF SpinOver, At, MutexStep
<1>2. UnbornIdle' /\ NoSemaphore'
  <2>1. semaphore \/ "count" \in {"idle", "lock", "cs"}
    BY DEF SpinOver, At, NoSemaphore
  <2> QED
    BY <1>1, <2>1, PlaceStep, Zenon DEF SpinOver, procVars
<1>3. LockWord'
  BY <1>1, WordKept, Zenon DEF SpinOver, procVars, Owning
<1>4. SemBalance'
  BY <1>1, SizesMove DEF SpinOver, SemBalance, MutexTypeOK, Counted
<1>5. NoLostWakeup'
  BY <1>1, WakeupKept, Zenon DEF SpinOver, procVars, Moving
<1> QED
  BY <1>2, <1>3, <1>4, <1>5

(* One more waiter.                                                        *)
LEMMA CountInStep ==
  ASSUME MutexInv, NEW p \in Procs, CountIn(p)
  PROVE  UnbornIdle' /\ NoSemaphore' /\ LockWord' /\ SemBalance' /\ NoLostWakeup'
<1> USE ActorSets DEF MutexInv
<1>1. MutexStep(p, "count", "retry")
  BY Moves DEF CountIn, At, MutexStep
<1>2. UnbornIdle' /\ NoSemaphore'
  <2>1. semaphore \/ "retry" \in {"idle", "lock", "cs"}
    BY DEF CountIn, At, NoSemaphore
  <2> QED
    BY <1>1, <2>1, PlaceStep DEF CountIn, procVars
<1>3. LockWord'
  BY <1>1, WordKept, Zenon DEF CountIn, procVars, Owning
<1>4. SemBalance'
  BY <1>1, SizesMove, SMTT(20) DEF CountIn, SemBalance, MutexTypeOK, Counted
<1>5. NoLostWakeup'
  BY <1>1, WakeupKept, Zenon DEF CountIn, procVars, Moving
<1> QED
  BY <1>2, <1>3, <1>4, <1>5

(* One waiter less, with the lock.                                         *)
LEMMA CountOutStep ==
  ASSUME MutexInv, NEW p \in Procs, CountOut(p)
  PROVE  UnbornIdle' /\ NoSemaphore' /\ LockWord' /\ SemBalance' /\ NoLostWakeup'
<1> USE ActorSets DEF MutexInv
<1>1. MutexStep(p, "undo", "cs")
  BY Moves DEF CountOut, At, MutexStep
<1>2. UnbornIdle' /\ NoSemaphore'
  <2>1. semaphore \/ "cs" \in {"idle", "lock", "cs"}
    BY DEF CountOut, At, NoSemaphore
  <2> QED
    BY <1>1, <2>1, PlaceStep, Zenon DEF CountOut, procVars
<1>3. LockWord'
  BY <1>1, WordKept, Zenon DEF CountOut, procVars, Owning
<1>4. SemBalance'
  BY <1>1, SizesMove, SMTT(20) DEF CountOut, SemBalance, MutexTypeOK, Counted
<1>5. NoLostWakeup'
  <2>1. p \notin reaped
    BY <1>1, Zenon DEF MutexStep, Alive, ProcsTypeOK
  <2>2. lock' # None
    BY <1>1, <2>1, Zenon DEF CountOut, MutexStep, LockWord, Owning
  <2> QED
    BY <1>1, <2>2, WakeupKept, Zenon DEF CountOut, procVars
<1> QED
  BY <1>2, <1>3, <1>4, <1>5

(* A token is taken.                                                       *)
LEMMA SemWaitStep ==
  ASSUME MutexInv, NEW p \in Procs, SemWait(p)
  PROVE  UnbornIdle' /\ NoSemaphore' /\ LockWord' /\ SemBalance' /\ NoLostWakeup'
<1> USE ActorSets DEF MutexInv
<1>1. MutexStep(p, "sleep", "lock")
  BY Moves DEF SemWait, At, MutexStep
<1>2. UnbornIdle' /\ NoSemaphore'
  <2>1. semaphore \/ "lock" \in {"idle", "lock", "cs"}
    BY DEF SemWait, At, NoSemaphore
  <2> QED
    BY <1>1, <2>1, PlaceStep, Zenon DEF SemWait, procVars
<1>3. LockWord'
  BY <1>1, WordKept, Zenon DEF SemWait, procVars, Owning
<1>4. SemBalance'
  BY <1>1, SizesMove, SMTT(20) DEF SemWait, SemBalance, MutexTypeOK, Counted
<1>5. NoLostWakeup'
  BY <1>1, WakeupKept DEF SemWait, procVars, Moving
<1> QED
  BY <1>2, <1>3, <1>4, <1>5

(* A token is given.                                                       *)
LEMMA SemPostStep ==
  ASSUME MutexInv, NEW a \in Actors, SemPost(a)
  PROVE  UnbornIdle' /\ NoSemaphore' /\ LockWord' /\ SemBalance' /\ NoLostWakeup'
<1> USE ActorSets DEF MutexInv
<1>1. MutexStep(a, "post", "idle")
  BY Moves, Zenon DEF SemPost, At, MutexStep
<1>2. UnbornIdle' /\ NoSemaphore'
  <2>1. semaphore \/ "idle" \in {"idle", "lock", "cs"}
    BY DEF SemPost, At, NoSemaphore
  <2> QED
    BY <1>1, <2>1, PlaceStep, Zenon DEF SemPost, procVars
<1>3. LockWord'
  BY <1>1, WordKept, Zenon DEF SemPost, procVars, Owning
<1>4. SemBalance'
  BY <1>1, SizesMove, SMTT(20) DEF SemPost, SemBalance, MutexTypeOK, Counted
<1>5. NoLostWakeup'
  <2>1. sem' # 0
    BY SMTT(20) DEF SemPost, MutexTypeOK
  <2> QED
    BY <1>1, <2>1, WakeupKept, Zenon DEF SemPost, procVars
<1> QED
  BY <1>2, <1>3, <1>4, <1>5, Zenon

(* The second attempt, after the count: it takes the lock or goes to sleep *)
(* on a lock that is taken.                                                *)
LEMMA RetryStep ==
  ASSUME MutexInv, NEW p \in Procs, Retry(p)
  PROVE  UnbornIdle' /\ NoSemaphore' /\ LockWord' /\ SemBalance' /\ NoLostWakeup'
<1> USE ActorSets DEF MutexInv
<1>1. /\ lock = None => lock' = p /\ MutexStep(p, "retry", "undo")
      /\ lock # None => lock' = lock /\ MutexStep(p, "retry", "sleep")
  BY Moves DEF Retry, At, MutexStep
<1>2. semaphore
  BY Zenon DEF Retry, At, NoSemaphore
<1>3. UnbornIdle' /\ NoSemaphore'
  BY <1>1, <1>2, PlaceStep, Zenon DEF Retry, procVars
<1>4. LockWord'
  <2>1. CASE lock = None
    BY <1>1, <2>1, WordTaken, Zenon DEF Retry, procVars, Owning
  <2>2. CASE lock # None
    BY <1>1, <2>2, WordKept, Zenon DEF Retry, procVars, Owning
  <2> QED
    BY <2>1, <2>2, Zenon
<1>5. SemBalance'
  <2>1. Cardinality(Waiting') = Cardinality(Waiting)
    BY <1>1, SizesMove, Zenon DEF Counted
  <2>2. Cardinality(Posting') = Cardinality(Posting)
    BY <1>1, SizesMove, SMTT(20)
  <2> QED
    BY <2>1, <2>2, Zenon DEF Retry, SemBalance
<1>6. NoLostWakeup'
  <2>1. lock' # None
    BY <1>1
  <2> QED
    BY <2>1 DEF NoLostWakeup
<1> QED
  BY <1>3, <1>4, <1>5, <1>6

(* Freeing the lock: its process goes on to wake another, unless there is  *)
(* no semaphore and nobody sleeps.                                         *)
LEMMA FreeStep ==
  ASSUME MutexInv, NEW a \in Actors, NEW from, NEW p \in Procs,
         a \in Alive \cup {Master}, pc[a] = from, from \in {"idle", "cs"},
         CmpSetFree(a, p), UNCHANGED <<born, dead>>, lock = p \/ from = "idle"
  PROVE  UnbornIdle' /\ NoSemaphore' /\ SemBalance' /\ NoLostWakeup'
<1> USE ActorSets DEF MutexInv
<1>1. PICK to \in {"idle", "wake"} :
        /\ MutexStep(a, from, to)
        /\ to = "wake" <=> lock = p /\ semaphore
  BY Moves, Zenon DEF CmpSetFree, MutexStep
<1>2. UnbornIdle' /\ NoSemaphore'
  BY <1>1, PlaceStep, Zenon DEF CmpSetFree
<1>3. SemBalance'
  <2>1. Cardinality(Waiting') = Cardinality(Waiting)
    BY <1>1, SizesMove, Zenon DEF Counted
  <2>2. Cardinality(Posting') = Cardinality(Posting)
    BY <1>1, SizesMove, Zenon
  <2> QED
    BY <2>1, <2>2, Zenon DEF CmpSetFree, SemBalance
<1>4. NoLostWakeup'
  <2>1. CASE to = "wake"
    BY <1>1, <2>1, WakeupKept, Zenon DEF Moving
  <2>2. CASE ~semaphore
    <3>1. \A q \in Procs : pc'[q] # "sleep"
      BY <1>2, <2>2, Zenon DEF NoSemaphore, CmpSetFree
    <3> QED
      BY <1>1, <3>1, WakeupKept, Zenon
  <2>3. CASE semaphore /\ to # "wake"
    <3>1. lock # p /\ from = "idle"
      BY <1>1, <2>3, Zenon
    <3>2. lock' = lock /\ sem' = sem /\ to = "idle"
      BY <1>1, <2>3, <3>1, Zenon DEF CmpSetFree
    <3>3. \A b \in Actors : pc'[b] = pc[b]
      BY <1>1, <3>1, <3>2, Zenon DEF MutexStep
    <3>4. /\ Alive' = Alive /\ Alive \subseteq Actors
          /\ WakeupDied' <=> WakeupDied
      BY <3>3 DEF Alive, WakeupDied, ProcsTypeOK
    <3> QED
      BY <3>2, <3>3, <3>4, Zenon DEF NoLostWakeup
  <2> QED
    BY <1>1, <2>1, <2>2, <2>3, Zenon
<1> QED
  BY <1>2, <1>3, <1>4, Zenon

(* The owner frees the lock.                                               *)
LEMMA UnlockStep ==
  ASSUME MutexInv, NEW p \in Procs, ngx_shmtx_unlock(p)
  PROVE  UnbornIdle' /\ NoSemaphore' /\ LockWord' /\ SemBalance' /\ NoLostWakeup'
<1> USE ActorSets DEF MutexInv
<1>1. p \in Alive /\ pc[p] = "cs" /\ CmpSetFree(p, p)
      /\ UNCHANGED <<born, dead, reaped>>
  BY DEF ngx_shmtx_unlock, At, procVars
<1>2. lock = p
  BY <1>1, Zenon DEF LockWord, Owning, Alive, ProcsTypeOK
<1>3. UnbornIdle' /\ NoSemaphore' /\ SemBalance' /\ NoLostWakeup'
  BY <1>1, <1>2, FreeStep, Zenon
<1>4. /\ lock' = None
      /\ pc'[p] \notin Owning
      /\ \A b \in Actors \ {p} : pc'[b] = pc[b]
  BY <1>1, <1>2, Moves, SMTT(20) DEF CmpSetFree, Owning
<1>5. LockWord'
  BY <1>1, <1>2, <1>4, Zenon DEF LockWord
<1> QED
  BY <1>3, <1>5, Zenon

(* The master frees the lock of p, and of p only.                          *)
LEMMA ForceUnlockStep ==
  ASSUME MutexInv, NEW p \in Procs, ngx_shmtx_force_unlock(p)
  PROVE  UnbornIdle' /\ NoSemaphore' /\ LockWord' /\ SemBalance' /\ NoLostWakeup'
<1> USE ActorSets DEF MutexInv
<1>1. /\ pc[Master] = "idle" /\ CmpSetFree(Master, p)
      /\ UNCHANGED <<born, dead>> /\ reaped' = reaped \cup {p}
  BY DEF ngx_shmtx_force_unlock, At, Waited
<1>2. UnbornIdle' /\ NoSemaphore' /\ SemBalance' /\ NoLostWakeup'
  BY <1>1, FreeStep, Zenon
<1>3. /\ lock' = IF lock = p THEN None ELSE lock
      /\ \A b \in Actors \ {Master} : pc'[b] = pc[b]
  BY <1>1, Moves, Zenon DEF CmpSetFree
<1>4. LockWord'
  BY <1>1, <1>3, Zenon DEF LockWord
<1> QED
  BY <1>2, <1>4

(* The loop of ngx_shmtx_wakeup: it ends without a token only if a token   *)
(* is on its way already.                                                  *)
LEMMA ReadWaitStep ==
  ASSUME MutexInv, NEW a \in Actors, ReadWait(a)
  PROVE  UnbornIdle' /\ NoSemaphore' /\ LockWord' /\ SemBalance' /\ NoLostWakeup'
<1> USE ActorSets DEF MutexInv
<1>1. /\ wait <= 0 => MutexStep(a, "wake", "idle")
      /\ ~(wait <= 0) => MutexStep(a, "wake", "cas")
  BY Moves, Zenon DEF ReadWait, At, MutexStep
<1>2. semaphore
  BY Zenon DEF ReadWait, At, NoSemaphore
<1>3. UnbornIdle' /\ NoSemaphore'
  BY <1>1, <1>2, PlaceStep, Zenon DEF ReadWait, procVars
<1>4. LockWord'
  BY <1>1, WordKept, Zenon DEF ReadWait, procVars, Owning
<1>5. SemBalance'
  <2>1. Cardinality(Waiting') = Cardinality(Waiting)
    BY <1>1, SizesMove, SMTT(20) DEF Counted
  <2>2. Cardinality(Posting') = Cardinality(Posting)
    BY <1>1, SizesMove
  <2> QED
    BY <2>1, <2>2, Zenon DEF ReadWait, SemBalance
<1>6. NoLostWakeup'
  <2>1. CASE ~(wait <= 0)
    BY <1>1, <2>1, WakeupKept, Zenon DEF ReadWait, procVars, Moving
  <2>2. CASE wait <= 0
    <3> SUFFICES ASSUME ~WakeupDied', sem' = 0, NEW q \in Alive', pc'[q] = "sleep"
                 PROVE  \E b \in Alive' \cup {Master} : pc'[b] \in Moving
      BY Zenon DEF NoLostWakeup
    <3>1. sem = 0 /\ dead' = dead /\ born' = born /\ Alive' = Alive
      BY Zenon DEF ReadWait, procVars, Alive
    <3>2. /\ pc[a] = "wake" /\ pc'[a] = "idle" /\ a \in Alive \cup {Master}
          /\ \A b \in Actors \ {a} : pc'[b] = pc[b]
      BY <1>1, <2>2, Zenon DEF MutexStep
    <3>3. q \in Procs /\ q # a
      BY <3>1, <3>2, Zenon DEF Alive, ProcsTypeOK
    <3>4. pc[q] = "sleep"
      BY <3>2, <3>3, Zenon
    <3>5. a \notin dead
      BY <3>2, Zenon DEF Alive, ProcsTypeOK
    <3>6. ~WakeupDied
      BY <3>1, <3>2, <3>5, Zenon DEF WakeupDied, ProcsTypeOK
    <3>7. PICK b \in Alive \cup {Master} : pc[b] = "post"
      BY <2>2, <3>1, <3>3, <3>4, <3>6, OwedToken, Zenon
    <3>8. b \in Actors /\ b # a
      BY <3>2, <3>7, Zenon DEF Alive, ProcsTypeOK
    <3> QED
      BY <3>1, <3>2, <3>7, <3>8, Zenon DEF Moving
  <2> QED
    BY <2>1, <2>2, Zenon
<1> QED
  BY <1>3, <1>4, <1>5, <1>6

(* The count is handed over to a post, or the loop starts again.           *)
LEMMA CmpSetWaitStep ==
  ASSUME MutexInv, NEW a \in Actors, CmpSetWait(a)
  PROVE  UnbornIdle' /\ NoSemaphore' /\ LockWord' /\ SemBalance' /\ NoLostWakeup'
<1> USE ActorSets DEF MutexInv
<1>1. /\ wait = seen[a] => wait' = wait - 1 /\ MutexStep(a, "cas", "post")
      /\ wait # seen[a] => wait' = wait /\ MutexStep(a, "cas", "wake")
  BY Moves, Zenon DEF CmpSetWait, At, MutexStep
<1>2. semaphore
  BY Zenon DEF CmpSetWait, At, NoSemaphore
<1>3. UnbornIdle' /\ NoSemaphore'
  BY <1>1, <1>2, PlaceStep, Zenon DEF CmpSetWait, procVars
<1>4. LockWord'
  BY <1>1, WordKept, Zenon DEF CmpSetWait, procVars, Owning
<1>5. SemBalance'
  <2>1. Cardinality(Waiting') = Cardinality(Waiting)
    BY <1>1, SizesMove, SMTT(20) DEF Counted
  <2>2. CASE wait = seen[a]
    <3>1. Cardinality(Posting') = Cardinality(Posting) + 1
      BY <1>1, <2>2, SizesMove, SMTT(20)
    <3>2. Cardinality(Posting) \in Nat
      BY <1>1, <2>2, SizesMove, Zenon
    <3> QED
      BY <1>1, <2>1, <2>2, <3>1, <3>2, SMTT(20) DEF CmpSetWait, SemBalance, MutexTypeOK
  <2>3. CASE wait # seen[a]
    <3>1. Cardinality(Posting') = Cardinality(Posting)
      BY <1>1, <2>3, SizesMove, SMTT(20)
    <3> QED
      BY <1>1, <2>1, <2>3, <3>1, Zenon DEF CmpSetWait, SemBalance
  <2> QED
    BY <2>2, <2>3, Zenon
<1>6. NoLostWakeup'
  BY <1>1, WakeupKept, Zenon DEF CmpSetWait, procVars, Moving
<1> QED
  BY <1>3, <1>4, <1>5, <1>6

----------------------------------------------------------------------------
(* The state after ngx_shmtx_create.                                       *)
LEMMA InvStart == MutexInit => MutexInv
<1> SUFFICES ASSUME MutexInit PROVE MutexInv
  BY Zenon
<1> USE ActorSets DEF MutexInit, ProcsInit, ngx_shmtx_create
<1>1. ProcsTypeOK
  <2>1. IsFiniteSet(born)
    BY FS_Subset, Zenon
  <2> QED
    BY <2>1, FS_CardinalityType, Zenon DEF ProcsTypeOK
<1>2. MutexTypeOK /\ UnbornIdle /\ NoSemaphore /\ LockWord
  BY SMTT(20) DEF MutexTypeOK, UnbornIdle, NoSemaphore, LockWord, Owning
<1>3. SemBalance
  <2>1. Waiting = {} /\ Posting = {}
    BY Zenon DEF Waiting, Posting
  <2> QED
    BY <2>1, FS_EmptySet, SMTT(20) DEF SemBalance
<1>4. NoLostWakeup
  <2>1. \A p \in Alive : pc[p] = "idle"
    BY <1>1 DEF Alive, ProcsTypeOK
  <2> QED
    BY <2>1, Zenon DEF NoLostWakeup
<1> QED
  BY <1>1, <1>2, <1>3, <1>4, Zenon DEF MutexInv

(* Every step of every process, deaths and their collection included.      *)
LEMMA InvStep == MutexInv /\ [MutexNext]_<<procVars, mutexVars>> => MutexInv'
<1> SUFFICES ASSUME MutexInv, [MutexNext]_<<procVars, mutexVars>> PROVE MutexInv'
  BY ZenonT(30)
<1>1. CASE UNCHANGED <<procVars, mutexVars>>
  <2>1. UNCHANGED procVars /\ UNCHANGED mutexVars
    BY <1>1, Zenon
  <2> QED
    BY <2>1 DEF MutexInv, procVars, mutexVars, ProcsTypeOK, MutexTypeOK, UnbornIdle,
       NoSemaphore, LockWord, SemBalance, Waiting, Posting, NoLostWakeup, WakeupDied, Alive
<1>2. CASE MutexNext
  <2>1. ProcsTypeOK' /\ MutexTypeOK'
    BY <1>2, ProcsStep, TypeStep, Zenon DEF MutexInv
  <2>2. ASSUME NEW p \in Procs, Begin(p) PROVE MutexInv'
    BY <2>1, <2>2, TryLockStep, LockStep, Zenon DEF Begin, MutexInv
  <2>3. ASSUME NEW p \in Procs, InLock(p) PROVE MutexInv'
    BY <2>1, <2>3, AcquireStep, SpinOverStep, CountInStep, RetryStep, CountOutStep,
       SemWaitStep, ZenonT(30) DEF InLock, MutexInv
  <2>4. ASSUME NEW p \in Procs, ngx_shmtx_unlock(p) \/ ngx_shmtx_force_unlock(p)
        PROVE  MutexInv'
    BY <2>1, <2>4, UnlockStep, ForceUnlockStep, ZenonT(30) DEF MutexInv
  <2>5. ASSUME NEW p \in Procs, Crash(p) \/ Respawn(p), UNCHANGED mutexVars
        PROVE  MutexInv'
    BY <2>1, <2>5, CrashStep, RespawnStep, Zenon DEF MutexInv
  <2>6. ASSUME NEW a \in Actors, InWakeup(a) PROVE MutexInv'
    BY <2>1, <2>6, ReadWaitStep, CmpSetWaitStep, SemPostStep, ZenonT(30) DEF InWakeup, MutexInv
  <2> QED
    BY <1>2, <2>2, <2>3, <2>4, <2>5, <2>6, ZenonT(30) DEF MutexNext
<1> QED
  BY <1>1, <1>2, Zenon

(* The invariant of the mutex.                                             *)
LEMMA MutexSafe == MutexSpec => []MutexInv
BY InvStart, InvStep, PTL DEF MutexSpec

(* At most one process has the zone mutex, the lock word names it, and     *)
(* ngx_shmtx_force_unlock frees the mutex of a dead process only, for any  *)
(* number of workers that die at any instruction.                          *)
THEOREM ZoneLockExclusive == MutexSpec => []LockWord
BY MutexSafe, PTL DEF MutexInv

(* The count, the semaphore and the posts under way match the waiters      *)
(* (ngx_shmtx_lock, ngx_shmtx_wakeup).                                     *)
THEOREM SemaphoreBalanced == MutexSpec => []SemBalance
BY MutexSafe, PTL DEF MutexInv

(* No wakeup is lost while no process dies in the middle of passing one on *)
(* (ngx_shmtx_lock, ngx_shmtx_wakeup).                                     *)
THEOREM WakeupsKept == MutexSpec => []NoLostWakeup
BY MutexSafe, PTL DEF MutexInv

----------------------------------------------------------------------------
(* Every step of the mutex is a step of the abstract lock, or none.        *)
LEMMA StepRefines ==
  ASSUME MutexInv, [MutexNext]_<<procVars, mutexVars>>
  PROVE  [ZoneLock!Next]_ZoneLock!vars
<1> USE ActorSets DEF ZoneLock!Next, ZoneLock!vars
<1>1. ASSUME NEW p \in Procs, ngx_shmtx_trylock(p) \/ Acquire(p) PROVE ZoneLock!Acquire(p)
  BY <1>1, Zenon DEF ngx_shmtx_trylock, Acquire, At, Alive, procVars, ZoneLock!Acquire
<1>2. ASSUME NEW p \in Procs, Retry(p) PROVE ZoneLock!Acquire(p) \/ UNCHANGED <<lock, dead>>
  BY <1>2, Zenon DEF Retry, At, Alive, procVars, ZoneLock!Acquire
<1>3. ASSUME NEW p \in Procs, ngx_shmtx_unlock(p)
      PROVE  ZoneLock!Release(p) \/ UNCHANGED <<lock, dead>>
  BY <1>3, Zenon DEF ngx_shmtx_unlock, CmpSetFree, At, Alive, procVars, ZoneLock!Release
<1>4. ASSUME NEW p \in Procs, ngx_shmtx_force_unlock(p)
      PROVE  ZoneLock!Recover(p) \/ UNCHANGED <<lock, dead>>
  BY <1>4, Zenon DEF ngx_shmtx_force_unlock, CmpSetFree, Waited, ZoneLock!Recover
<1>5. ASSUME NEW p \in Procs, Crash(p), UNCHANGED mutexVars PROVE ZoneLock!Crash(p)
  BY <1>5, Zenon DEF Crash, Alive, mutexVars, ZoneLock!Crash
<1>6. ASSUME NEW p \in Procs, \/ ngx_shmtx_lock(p) \/ SpinOver(p) \/ CountIn(p)
                              \/ CountOut(p) \/ SemWait(p)
                              \/ Respawn(p) /\ UNCHANGED mutexVars
      PROVE  UNCHANGED <<lock, dead>>
  BY <1>6, Zenon DEF ngx_shmtx_lock, SpinOver, CountIn, CountOut, SemWait, Respawn, procVars,
     mutexVars
<1>7. ASSUME NEW a \in Actors, InWakeup(a) PROVE UNCHANGED <<lock, dead>>
  BY <1>7, Zenon DEF InWakeup, ReadWait, CmpSetWait, SemPost, procVars
<1>8. CASE UNCHANGED <<procVars, mutexVars>>
  BY <1>8 DEF procVars, mutexVars
<1> QED
  BY <1>1, <1>2, <1>3, <1>4, <1>5, <1>6, <1>7, <1>8, ZenonT(30) DEF MutexNext, Begin, InLock

(* The zone mutex implements the lock that survives its owner: it is never *)
(* taken from a process that lives, and passes only through being free.    *)
(* (That the lock of a dead process is freed is liveness, left to TLC.)    *)
THEOREM ZoneLockRefined == MutexSpec => ZoneLock!Spec
<1>1. MutexInit => ZoneLock!Init
  BY DEF MutexInit, ProcsInit, ngx_shmtx_create, ZoneLock!Init
<1>2. MutexInv /\ [MutexNext]_<<procVars, mutexVars>> => [ZoneLock!Next]_ZoneLock!vars
  BY StepRefines, Zenon
<1> QED
  BY <1>1, <1>2, MutexSafe, PTL DEF MutexSpec, ZoneLock!Spec

----------------------------------------------------------------------------
RwInv == /\ ProcsTypeOK
         /\ RwTypeOK
         /\ RwExclusion
         /\ RwWord

(* A step of one process from one place of the reader/writer lock to       *)
(* another.                                                                *)
RwMove(p, from, to) == /\ rwpc[p] = from
                       /\ rwpc'[p] = to
                       /\ \A q \in Procs \ {p} : rwpc'[q] = rwpc[q]

WritingAt == {"writing", "wfree", "store"}

ReadingAt == {"reading", "rfree"}

(* What a step of one process does to the places.                          *)
LEMMA RwMoves ==
  ASSUME RwTypeOK, NEW p \in Procs, NEW from, NEW to, RwAt(p, from), RwGoto(p, to)
  PROVE  RwMove(p, from, to)
BY Zenon DEF RwTypeOK, RwAt, RwGoto, RwMove

(* What such a step does to the sets of holders.                           *)
LEMMA HoldersMove ==
  ASSUME NEW p \in Procs, NEW from, NEW to, RwMove(p, from, to)
  PROVE  /\ Writers' \ {p} = Writers \ {p} /\ Readers' \ {p} = Readers \ {p}
         /\ p \in Writers <=> from \in WritingAt
         /\ p \in Writers' <=> to \in WritingAt
         /\ p \in Readers <=> from \in ReadingAt
         /\ p \in Readers' <=> to \in ReadingAt
BY Zenon DEF RwMove, Writers, Readers, WritingAt, ReadingAt

(* Sizes of the set of readers.                                            *)
LEMMA ReaderSize ==
  /\ IsFiniteSet(Readers) /\ IsFiniteSet(Readers')
  /\ Cardinality(Readers) \in 0 .. Cardinality(Procs)
  /\ Cardinality(Readers') \in 0 .. Cardinality(Procs)
  /\ Cardinality(Procs) \in Nat
  /\ Cardinality(Readers) = 0 <=> Readers = {}
<1>1. Readers \subseteq Procs /\ Readers' \subseteq Procs /\ IsFiniteSet(Procs)
  BY ActorSets DEF Readers
<1>2. IsFiniteSet(Readers) /\ IsFiniteSet(Readers')
  BY <1>1, FS_Subset, Zenon
<1>3. Cardinality(Readers) <= Cardinality(Procs) /\ Cardinality(Readers') <= Cardinality(Procs)
  BY <1>1, FS_Subset, Zenon
<1>4. /\ Cardinality(Readers) \in Nat /\ Cardinality(Readers') \in Nat
      /\ Cardinality(Procs) \in Nat
  BY <1>1, <1>2, FS_CardinalityType, Zenon
<1>5. Cardinality(Readers) = 0 <=> Readers = {}
  BY <1>2, FS_EmptySet, Zenon
<1> QED
  BY <1>2, <1>3, <1>4, <1>5, SMTT(20)

(* The sets of holders stay, and so do the word and exclusion.             *)
LEMMA HoldersKept ==
  ASSUME RwExclusion, RwWord, NEW p \in Procs, NEW from, NEW to, RwMove(p, from, to),
         from \in WritingAt <=> to \in WritingAt,
         from \in ReadingAt <=> to \in ReadingAt, rw' = rw
  PROVE  RwExclusion' /\ RwWord'
<1>1. Writers' = Writers /\ Readers' = Readers
  BY HoldersMove, SMTT(20)
<1> QED
  BY <1>1 DEF RwExclusion, RwWord

(* A reader joins or leaves where there is no writer.                      *)
LEMMA ReaderMoves ==
  ASSUME RwExclusion, RwWord, NEW p \in Procs, NEW from, NEW to, RwMove(p, from, to),
         from \notin WritingAt, to \notin WritingAt, Writers = {},
         \/ from \notin ReadingAt /\ to \in ReadingAt /\ rw' = rw + 1
         \/ from \in ReadingAt /\ to \notin ReadingAt /\ rw' = rw - 1
  PROVE  RwExclusion' /\ RwWord'
<1>1. Writers' = {} /\ Readers' \ {p} = Readers \ {p}
  BY HoldersMove, Zenon
<1>2. rw' = Cardinality(Readers')
  BY <1>1, HoldersMove, ReaderSize, SizeMoves, SMTT(20) DEF RwWord
<1> QED
  BY <1>1, <1>2, Zenon DEF RwExclusion, RwWord

(* The word tells a holder which kind it is.                               *)
LEMMA WordTells ==
  ASSUME RwInv
  PROVE  /\ \A p \in Writers : rw = NGX_RWLOCK_WLOCK /\ Writers = {p} /\ Readers = {}
         /\ Readers # {} => rw # NGX_RWLOCK_WLOCK /\ Writers = {}
         /\ rw # NGX_RWLOCK_WLOCK => Writers = {} /\ rw = Cardinality(Readers)
<1>1. Writers \cap Readers = {}
  BY DEF Writers, Readers
<1>2. Cardinality(Readers) # -1
  BY ReaderSize, SMTT(20)
<1> QED
  BY <1>1, <1>2, Zenon DEF RwInv, RwExclusion, RwWord, NGX_RWLOCK_WLOCK

----------------------------------------------------------------------------
(* The invariant of the reader/writer lock, action by action.              *)
LEMMA RwBeginStep ==
  ASSUME RwInv, NEW p \in Procs, RwBegin(p)
  PROVE  RwExclusion' /\ RwWord'
<1>1. PICK to \in {"wlock", "rlock"} : RwAt(p, "idle") /\ RwGoto(p, to) /\ rw' = rw
  BY DEF RwBegin, ngx_rwlock_wlock, ngx_rwlock_rlock
<1>2. RwMove(p, "idle", to)
  BY <1>1, RwMoves, Zenon DEF RwInv
<1> QED
  BY <1>1, <1>2, HoldersKept, ZenonT(30) DEF RwInv, WritingAt, ReadingAt

(* The tests of ngx_rwlock_unlock and ngx_rwlock_downgrade find the kind of*)
(* their caller.                                                           *)
LEMMA UnlockTestStep ==
  ASSUME RwInv, NEW p \in Procs, RwEnd(p)
  PROVE  RwExclusion' /\ RwWord'
<1>1. PICK from \in {"reading", "writing"}, to \in {"wfree", "rfree", "store", "reading"} :
        /\ RwMove(p, from, to) /\ rw' = rw
        /\ to \in {"wfree", "store"} <=> rw = NGX_RWLOCK_WLOCK
  BY RwMoves, Zenon DEF RwEnd, ngx_rwlock_unlock, ngx_rwlock_downgrade, RwInv
<1>2. from = "writing" <=> rw = NGX_RWLOCK_WLOCK
  BY <1>1, WordTells, HoldersMove, ZenonT(30) DEF WritingAt, ReadingAt
<1> QED
  BY <1>1, <1>2, HoldersKept, ZenonT(30) DEF RwInv, WritingAt, ReadingAt

(* The word was 0: there was no holder.                                    *)
LEMMA TakeWriteStep ==
  ASSUME RwInv, NEW p \in Procs, TakeWrite(p)
  PROVE  RwExclusion' /\ RwWord'
<1>1. RwMove(p, "wlock", "writing") /\ rw = 0 /\ rw' = NGX_RWLOCK_WLOCK
  BY RwMoves, ZenonT(30) DEF TakeWrite, RwInv
<1>2. Writers = {} /\ Readers = {}
  BY <1>1, WordTells, ReaderSize, SMTT(20) DEF NGX_RWLOCK_WLOCK
<1>3. Writers' = {p} /\ Readers' = {}
  BY <1>1, <1>2, HoldersMove, SMTT(20) DEF WritingAt, ReadingAt
<1> QED
  BY <1>1, <1>3, ZenonT(30) DEF RwExclusion, RwWord

(* The cmp_set succeeds on a count of readers, stale or not.               *)
LEMMA TakeReadStep ==
  ASSUME RwInv, NEW p \in Procs, TakeRead(p)
  PROVE  RwExclusion' /\ RwWord'
<1>1. CASE rw = readers[p]
  <2>1. RwMove(p, "rcas", "reading") /\ rw' = rw + 1
    BY <1>1, RwMoves, ZenonT(30) DEF TakeRead, RwInv
  <2>2. rw # NGX_RWLOCK_WLOCK
    BY <1>1, ReaderSize, SMTT(20) DEF RwInv, RwTypeOK, NGX_RWLOCK_WLOCK
  <2> QED
    BY <2>1, <2>2, WordTells, ReaderMoves, ZenonT(30) DEF RwInv, WritingAt, ReadingAt
<1>2. CASE rw # readers[p]
  <2>1. RwMove(p, "rcas", "rlock") /\ rw' = rw
    BY <1>2, RwMoves, ZenonT(30) DEF TakeRead, RwInv
  <2> QED
    BY <2>1, HoldersKept, ZenonT(30) DEF RwInv, WritingAt, ReadingAt
<1> QED
  BY <1>1, <1>2, ZenonT(30)

(* The writer was alone.                                                   *)
LEMMA FreeWriteStep ==
  ASSUME RwInv, NEW p \in Procs, FreeWrite(p)
  PROVE  RwExclusion' /\ RwWord'
<1>1. RwMove(p, "wfree", "idle")
  BY RwMoves, Zenon DEF FreeWrite, RwInv
<1>2. rw = NGX_RWLOCK_WLOCK /\ Writers = {p} /\ Readers = {}
  BY <1>1, WordTells, HoldersMove, ZenonT(30) DEF WritingAt
<1>3. Writers' = {} /\ Readers' = {} /\ rw' = 0
  BY <1>1, <1>2, HoldersMove, SMTT(20) DEF WritingAt, ReadingAt, FreeWrite
<1> QED
  BY <1>3, FS_EmptySet, ZenonT(30) DEF RwExclusion, RwWord

(* The writer was alone, and is the one reader now.                        *)
LEMMA StoreOneStep ==
  ASSUME RwInv, NEW p \in Procs, StoreOne(p)
  PROVE  RwExclusion' /\ RwWord'
<1>1. RwMove(p, "store", "reading") /\ rw' = 1
  BY RwMoves, Zenon DEF StoreOne, RwInv
<1>2. Writers = {p} /\ Readers = {}
  BY <1>1, WordTells, HoldersMove, Zenon DEF WritingAt
<1>3. Writers' = {} /\ Readers' = {p}
  BY <1>1, <1>2, HoldersMove, Zenon DEF WritingAt, ReadingAt
<1> QED
  BY <1>1, <1>3, FS_Singleton, Zenon DEF RwExclusion, RwWord

(* Every step inside a call.                                               *)
LEMMA InRwLockStep ==
  ASSUME RwInv, NEW p \in Procs, InRwLock(p)
  PROVE  RwExclusion' /\ RwWord'
<1>1. CASE ReadReaders(p)
  <2>1. RwMove(p, "rlock", "rcas") /\ rw' = rw
    BY <1>1, RwMoves, Zenon DEF ReadReaders, RwInv
  <2> QED
    BY <2>1, HoldersKept, ZenonT(30) DEF RwInv, WritingAt, ReadingAt
<1>2. CASE FreeRead(p)
  <2>1. RwMove(p, "rfree", "idle") /\ rw' = rw - 1
    BY <1>2, RwMoves, ZenonT(30) DEF FreeRead, RwInv
  <2>2. Writers = {}
    BY <2>1, WordTells, HoldersMove, ZenonT(30) DEF ReadingAt
  <2> QED
    BY <2>1, <2>2, ReaderMoves, ZenonT(30) DEF RwInv, WritingAt, ReadingAt
<1> QED
  BY <1>1, <1>2, TakeWriteStep, TakeReadStep, FreeWriteStep, StoreOneStep, ZenonT(30) DEF InRwLock

(* The types: the word is bounded because it counts processes.             *)
LEMMA RwTypeStep ==
  ASSUME RwTypeOK, RwNext, RwWord'
  PROVE  RwTypeOK'
<1>1. rw' \in NGX_RWLOCK_WLOCK .. Cardinality(Procs)
  BY ReaderSize, SMTT(20) DEF RwWord, NGX_RWLOCK_WLOCK
<1>2. 0 \in 0 .. Cardinality(Procs)
  BY ReaderSize, SMTT(20)
<1>3. \/ UNCHANGED <<rwpc, readers>>
      \/ \E p \in Procs :
           /\ \E l \in {"idle", "wlock", "rlock", "rcas", "reading", "writing", "wfree",
                        "rfree", "store"} : RwGoto(p, l)
           /\ \/ UNCHANGED readers
              \/ rw # NGX_RWLOCK_WLOCK /\ readers' = [readers EXCEPT ![p] = rw]
              \/ readers' = [readers EXCEPT ![p] = 0]
  BY DEF RwNext, RwBegin, RwEnd, InRwLock, ngx_rwlock_wlock, ngx_rwlock_rlock, TakeWrite,
     ReadReaders, TakeRead, ngx_rwlock_unlock, FreeWrite, FreeRead, ngx_rwlock_downgrade,
     StoreOne, rwVars
<1>4. rw # NGX_RWLOCK_WLOCK => rw \in 0 .. Cardinality(Procs)
  BY SMTT(20) DEF RwTypeOK, NGX_RWLOCK_WLOCK
<1> QED
  BY <1>1, <1>2, <1>3, <1>4, SMTT(20) DEF RwTypeOK, RwGoto

(* The processes keep their types.                                         *)
LEMMA RwProcsStep ==
  ASSUME ProcsTypeOK, RwNext
  PROVE  ProcsTypeOK'
<1>1. \/ UNCHANGED procVars
      \/ \E p \in Procs : Waited(p) \/ Crash(p) \/ Respawn(p)
  BY DEF RwNext, RwBegin, RwEnd, InRwLock, ngx_rwlock_wlock, ngx_rwlock_rlock, TakeWrite,
     ReadReaders, TakeRead, ngx_rwlock_unlock, FreeWrite, FreeRead, ngx_rwlock_downgrade,
     StoreOne
<1> QED
  BY <1>1, Zenon DEF ProcsTypeOK, procVars, Alive, Waited, Crash, Respawn

(* Every step of every process keeps the invariant.                        *)
LEMMA RwInvStep == RwInv /\ [RwNext]_<<procVars, rwVars>> => RwInv'
<1> SUFFICES ASSUME RwInv, [RwNext]_<<procVars, rwVars>> PROVE RwInv'
  OBVIOUS
<1>1. ASSUME UNCHANGED rwVars PROVE RwExclusion' /\ RwWord' /\ RwTypeOK'
  BY <1>1, ZenonT(30) DEF RwInv, rwVars, RwExclusion, RwWord, RwTypeOK, Writers, Readers
<1>2. CASE RwNext
  <2>1. RwExclusion' /\ RwWord'
    BY <1>1, <1>2, RwBeginStep, UnlockTestStep, InRwLockStep, ZenonT(30) DEF RwNext
  <2> QED
    BY <1>2, <2>1, RwTypeStep, RwProcsStep, ZenonT(30) DEF RwInv
<1>3. CASE UNCHANGED <<procVars, rwVars>>
  BY <1>1, <1>3 DEF RwInv, procVars, ProcsTypeOK
<1> QED
  BY <1>2, <1>3, ZenonT(30)

(* A lock word of 0 in zeroed shared memory.                               *)
LEMMA RwInvStart == RwInit => RwInv
<1> SUFFICES ASSUME RwInit PROVE RwInv
  OBVIOUS
<1>1. ProcsTypeOK
  <2>1. IsFiniteSet(born)
    BY ActorSets, FS_Subset, ZenonT(30) DEF RwInit, ProcsInit
  <2> QED
    BY <2>1, FS_CardinalityType, ZenonT(30) DEF RwInit, ProcsInit, ProcsTypeOK
<1>2. Writers = {} /\ Readers = {}
  BY DEF RwInit, RwCreate, Writers, Readers
<1>3. RwExclusion /\ RwWord
  BY <1>2, FS_EmptySet, ZenonT(30) DEF RwInit, RwCreate, RwExclusion, RwWord
<1>4. RwTypeOK
  BY ReaderSize DEF RwInit, RwCreate, RwTypeOK, NGX_RWLOCK_WLOCK
<1> QED
  BY <1>1, <1>3, <1>4, ZenonT(30) DEF RwInv

(* The invariant of the reader/writer lock.                                *)
LEMMA RwSafe == RwSpec => []RwInv
BY RwInvStart, RwInvStep, PTL DEF RwSpec

(* For any number of processes that may die at any instruction, a writer   *)
(* of the reader/writer lock is alone (ngx_rwlock.c).                      *)
THEOREM WritersAlone == RwSpec => []RwExclusion
BY RwSafe, PTL DEF RwInv

(* The word of the reader/writer lock says exactly who holds it, the dead  *)
(* included (ngx_rwlock.c).                                                *)
THEOREM RwWordExact == RwSpec => []RwWord
BY RwSafe, PTL DEF RwInv

----------------------------------------------------------------------------
(* The server is made of its locks: seen from one lock, every step of the  *)
(* workers and the master is a step of that lock, or none.                 *)
LEMMA SeenFromZone ==
  ASSUME [Next]_vars
  PROVE  [MutexNext]_<<procVars, mutexVars>>
<1>1. ASSUME NEW p \in Procs, EventLoop(p) PROVE UNCHANGED <<procVars, mutexVars>>
  <2>1. UNCHANGED procVars
    BY <1>1, Zenon DEF EventLoop, Pass, PassEvent, SkipMutex, TryLockOk, EnableOk, EnableFails,
       TryLockFails, AcceptOk, AcceptEmfile, EmfileRelease, PassUnlock, PassEnds
  <2> QED
    BY <1>1, <2>1, Zenon DEF EventLoop
<1>2. ASSUME NEW p \in Procs, ZoneStep(p) PROVE MutexNext
  BY <1>2, Zenon DEF ZoneStep, MutexNext
<1>3. ASSUME NEW p \in Procs, PeersStep(p) PROVE UNCHANGED <<procVars, mutexVars>>
  <2>1. UNCHANGED procVars
    BY <1>3, Zenon DEF PeersStep, RwBegin, RwEnd, InRwLock, ngx_rwlock_wlock, ngx_rwlock_rlock,
       TakeWrite, ReadReaders, TakeRead, ngx_rwlock_unlock, FreeWrite, FreeRead,
       ngx_rwlock_downgrade, StoreOne
  <2> QED
    BY <1>3, <2>1, ZenonT(30) DEF PeersStep
<1>4. ASSUME NEW p \in Procs, WorkerDies(p) \/ UnlockZone(p) \/ NewWorker(p) PROVE MutexNext
  BY <1>4, Zenon DEF WorkerDies, UnlockZone, NewWorker, MutexNext
<1>5. ASSUME NEW p \in Procs, UnlockAccept(p) PROVE UNCHANGED <<procVars, mutexVars>>
  BY <1>5, Zenon DEF UnlockAccept
<1>6. ASSUME NEW a \in Actors, WakeStep(a) PROVE MutexNext
  BY <1>6 DEF WakeStep, MutexNext
<1>7. CASE UNCHANGED vars
  BY <1>7 DEF vars
<1> QED
  BY <1>1, <1>2, <1>3, <1>4, <1>5, <1>6, <1>7, ZenonT(30) DEF Next

(* The same from the lock of the peers.                                    *)
LEMMA SeenFromPeers ==
  ASSUME [Next]_vars
  PROVE  [RwNext]_<<procVars, rwVars>>
<1>1. ASSUME NEW p \in Procs, EventLoop(p) PROVE UNCHANGED <<procVars, rwVars>>
  <2>1. UNCHANGED procVars
    BY <1>1, ZenonT(30) DEF EventLoop, Pass, PassEvent, SkipMutex, TryLockOk, EnableOk, EnableFails,
       TryLockFails, AcceptOk, AcceptEmfile, EmfileRelease, PassUnlock, PassEnds
  <2> QED
    BY <1>1, <2>1, ZenonT(30) DEF EventLoop
<1>2. ASSUME NEW p \in Procs, ZoneStep(p) PROVE UNCHANGED <<procVars, rwVars>>
  <2>1. UNCHANGED procVars
    BY <1>2, ZenonT(30) DEF ZoneStep, Begin, InLock, ngx_shmtx_trylock, ngx_shmtx_lock, Acquire,
       SpinOver, CountIn, Retry, CountOut, SemWait, ngx_shmtx_unlock
  <2> QED
    BY <1>2, <2>1, Zenon DEF ZoneStep
<1>3. ASSUME NEW p \in Procs, PeersStep(p) PROVE RwNext
  BY <1>3, ZenonT(30) DEF PeersStep, RwNext
<1>4. ASSUME NEW p \in Procs, WorkerDies(p) \/ NewWorker(p) PROVE RwNext
  BY <1>4 DEF WorkerDies, NewWorker, RwNext
<1>5. ASSUME NEW p \in Procs, UnlockZone(p) PROVE RwNext
  BY <1>5, ZenonT(30) DEF UnlockZone, ngx_shmtx_force_unlock, RwNext
<1>6. ASSUME NEW p \in Procs, UnlockAccept(p) PROVE UNCHANGED <<procVars, rwVars>>
  BY <1>6 DEF UnlockAccept
<1>7. ASSUME NEW a \in Actors, WakeStep(a) PROVE UNCHANGED <<procVars, rwVars>>
  <2>1. UNCHANGED procVars
    BY <1>7 DEF WakeStep, InWakeup, ReadWait, CmpSetWait, SemPost
  <2> QED
    BY <1>7, <2>1, ZenonT(30) DEF WakeStep
<1>8. CASE UNCHANGED vars
  BY <1>8 DEF vars
<1> QED
  BY <1>1, <1>2, <1>3, <1>4, <1>5, <1>6, <1>7, <1>8, Zenon DEF Next

(* The workers, which take the zone mutex alone or with the peers locked,  *)
(* and die with one of the two or with both, are users of the mutex and of *)
(* the peers' lock in the sense of ShmMutex and RwLock: all that is proved *)
(* there holds of the server.                                              *)
THEOREM LocksCompose == Spec => MutexSpec /\ RwSpec
<1>1. Init => MutexInit /\ RwInit
  BY DEF Init, MutexInit, RwInit
<1>2. [Next]_vars => [MutexNext]_<<procVars, mutexVars>> /\ [RwNext]_<<procVars, rwVars>>
  BY SeenFromZone, SeenFromPeers, ZenonT(30)
<1> QED
  BY <1>1, <1>2, PTL DEF Spec, MutexSpec, RwSpec

----------------------------------------------------------------------------
(* What holds of one process and the accept mutex.                         *)
AcceptOwn(p) ==
    /\ p \in Alive =>
         /\ accept = p => \/ stage[p] = "enable"
                          \/ stage[p] \in {"events", "emfile"} /\ held[p]
         /\ stage[p] = "events" /\ listening[p] /\ p \notin skipped \cup refused => accept = p
         /\ stage[p] = "enable" => accept = p
         /\ stage[p] = "emfile" => ~listening[p]
         /\ listening[p] => held[p] \/ p \in refused
    /\ p \notin born => accept # p /\ stage[p] = "top" /\ ~listening[p]

AcceptInv == /\ ProcsTypeOK
             /\ AcceptTypeOK
             /\ \A p \in Procs : AcceptOwn(p)

(* The private variables of q, which a step of another process leaves.     *)
Private(q) == <<held[q], disabled[q], listening[q], stage[q], q \in skipped, q \in refused>>

(* A step of p may take or free the mutex for p, and no more.              *)
OnlyOwn(p) == /\ \/ accept' = accept
                 \/ accept = None /\ accept' = p
                 \/ accept = p /\ accept' = None
              /\ \A q \in Procs \ {p} : UNCHANGED Private(q)

(* Such a step keeps what holds of every other process.                    *)
LEMMA OthersKept ==
  ASSUME NEW p \in Procs, OnlyOwn(p), NEW q \in Procs \ {p}, AcceptOwn(q),
         q \in Alive' <=> q \in Alive, q \in born' <=> q \in born
  PROVE  AcceptOwn(q)'
BY ActorSets, SMTT(20) DEF OnlyOwn, Private, AcceptOwn

(* The steps of the event loop, for the process that takes them.           *)
LEMMA PassTypes ==
  ASSUME AcceptTypeOK, NEW p \in Procs, Pass(p) \/ PassEvent(p)
  PROVE  AcceptTypeOK'
<1> USE ActorSets, DisabledAssumption DEF AcceptTypeOK, Set, Enter
<1>1. CASE SkipMutex(p)
  BY <1>1, SMTT(20) DEF SkipMutex
<1>2. CASE TryLockOk(p)
  BY <1>2, Zenon DEF TryLockOk
<1>3. CASE EnableOk(p)
  BY <1>3, Zenon DEF EnableOk
<1>4. CASE EnableFails(p)
  BY <1>4, ZenonT(30) DEF EnableFails, FreeAccept
<1>5. CASE TryLockFails(p)
  BY <1>5, ZenonT(30) DEF TryLockFails
<1>6. CASE AcceptOk(p)
  BY <1>6, SMTT(20) DEF AcceptOk
<1>7. CASE AcceptEmfile(p)
  BY <1>7, Zenon DEF AcceptEmfile
<1>8. CASE EmfileRelease(p)
  BY <1>8, SMTT(20) DEF EmfileRelease, FreeAccept
<1>9. CASE PassUnlock(p)
  BY <1>9 DEF PassUnlock, FreeAccept
<1>10. CASE PassEnds(p)
  BY <1>10, Zenon DEF PassEnds
<1> QED
  BY <1>1, <1>2, <1>3, <1>4, <1>5, <1>6, <1>7, <1>8, <1>9, <1>10, Zenon DEF Pass, PassEvent

(* They touch what is theirs.                                              *)
LEMMA PassOnlyOwn ==
  ASSUME AcceptTypeOK, NEW p \in Procs, Pass(p) \/ PassEvent(p)
  PROVE  OnlyOwn(p)
<1> USE ActorSets DEF AcceptTypeOK, Set, Enter, OnlyOwn, Private
<1>1. CASE SkipMutex(p)
  BY <1>1, SMTT(20) DEF SkipMutex
<1>2. CASE TryLockOk(p)
  BY <1>2, Zenon DEF TryLockOk
<1>3. CASE EnableOk(p)
  BY <1>3, ZenonT(30) DEF EnableOk
<1>4. CASE EnableFails(p)
  BY <1>4, SMTT(20) DEF EnableFails, FreeAccept
<1>5. CASE TryLockFails(p)
  BY <1>5, Zenon DEF TryLockFails
<1>6. CASE AcceptOk(p)
  BY <1>6, ZenonT(30) DEF AcceptOk
<1>7. CASE AcceptEmfile(p)
  BY <1>7, ZenonT(30) DEF AcceptEmfile
<1>8. CASE EmfileRelease(p)
  BY <1>8, ZenonT(30) DEF EmfileRelease, FreeAccept
<1>9. CASE PassUnlock(p)
  BY <1>9, ZenonT(30) DEF PassUnlock, FreeAccept
<1>10. CASE PassEnds(p)
  BY <1>10, SMTT(20) DEF PassEnds
<1> QED
  BY <1>1, <1>2, <1>3, <1>4, <1>5, <1>6, <1>7, <1>8, <1>9, <1>10, ZenonT(30) DEF Pass, PassEvent

(* They keep the flag, the mutex and the poll set in step.                 *)
LEMMA PassOwn ==
  ASSUME AcceptTypeOK, NEW p \in Procs, Pass(p) \/ PassEvent(p), AcceptOwn(p)
  PROVE  AcceptOwn(p)'
<1> USE ActorSets DEF AcceptTypeOK, Set, Enter, AcceptOwn, StageAt, Alive, procVars
<1>1. CASE SkipMutex(p)
  BY <1>1 DEF SkipMutex
<1>2. CASE TryLockOk(p)
  BY <1>2, Zenon DEF TryLockOk
<1>3. CASE EnableOk(p)
  BY <1>3, Zenon DEF EnableOk
<1>4. CASE EnableFails(p)
  BY <1>4, Zenon DEF EnableFails, FreeAccept
<1>5. CASE TryLockFails(p)
  BY <1>5, Zenon DEF TryLockFails
<1>6. CASE AcceptOk(p)
  BY <1>6, ZenonT(30) DEF AcceptOk
<1>7. CASE AcceptEmfile(p)
  BY <1>7, ZenonT(30) DEF AcceptEmfile
<1>8. CASE EmfileRelease(p)
  BY <1>8 DEF EmfileRelease, FreeAccept
<1>9. CASE PassUnlock(p)
  BY <1>9, Zenon DEF PassUnlock, FreeAccept
<1>10. CASE PassEnds(p)
  BY <1>10, ZenonT(30) DEF PassEnds
<1> QED
  BY <1>1, <1>2, <1>3, <1>4, <1>5, <1>6, <1>7, <1>8, <1>9, <1>10, Zenon DEF Pass, PassEvent

(* A worker dies with the mutex or without it; its memory goes.            *)
LEMMA DeathOwn ==
  ASSUME AcceptInv, NEW p \in Procs, Crash(p), MemoryGone(p)
  PROVE  AcceptTypeOK' /\ \A q \in Procs : AcceptOwn(q)'
<1>1. AcceptTypeOK'
  BY DisabledAssumption, SMTT(20) DEF AcceptInv, AcceptTypeOK, MemoryGone, Set, Enter
<1>2. OnlyOwn(p)
  BY SMTT(20) DEF AcceptInv, AcceptTypeOK, MemoryGone, Set, Enter, OnlyOwn, Private
<1>3. AcceptOwn(p)'
  BY Zenon DEF Crash, Alive, AcceptOwn
<1>4. \A q \in Procs \ {p} : /\ q \in Alive' <=> q \in Alive
                             /\ q \in born' <=> q \in born
  BY DEF Crash, Alive
<1>5. \A q \in Procs \ {p} : AcceptOwn(q)'
  BY <1>2, <1>4, OthersKept, ZenonT(30) DEF AcceptInv
<1> QED
  BY <1>1, <1>3, <1>5, ZenonT(30)

(* The master frees the accept mutex of a dead worker.                     *)
LEMMA UnlockAcceptOwn ==
  ASSUME AcceptInv, NEW p \in Procs, UnlockAccept(p)
  PROVE  AcceptTypeOK' /\ \A q \in Procs : AcceptOwn(q)'
<1>1. AcceptTypeOK'
  BY Zenon DEF AcceptInv, AcceptTypeOK, UnlockAccept, FreeAccept
<1>2. OnlyOwn(p)
  BY DEF UnlockAccept, FreeAccept, OnlyOwn, Private
<1>3. Alive' = Alive /\ born' = born /\ p \notin Alive /\ p \in born
  BY Zenon DEF UnlockAccept, procVars, Alive, AcceptInv, ProcsTypeOK
<1>4. AcceptOwn(p)'
  BY <1>3, ZenonT(30) DEF AcceptOwn
<1>5. \A q \in Procs \ {p} : AcceptOwn(q)'
  BY <1>2, <1>3, OthersKept, ZenonT(30) DEF AcceptInv
<1> QED
  BY <1>1, <1>4, <1>5, ZenonT(30)

(* A new worker starts at the top of its first pass, without the mutex.    *)
LEMMA NewWorkerOwn ==
  ASSUME AcceptInv, NEW p \in Procs, Respawn(p), UNCHANGED acceptVars
  PROVE  AcceptTypeOK' /\ \A q \in Procs : AcceptOwn(q)'
<1>1. AcceptTypeOK'
  BY Zenon DEF AcceptInv, AcceptTypeOK, acceptVars
<1>2. AcceptOwn(p)'
  BY Zenon DEF AcceptInv, AcceptOwn, Respawn, acceptVars
<1>3. \A q \in Procs \ {p} : AcceptOwn(q)'
  BY Zenon DEF AcceptInv, AcceptOwn, Respawn, acceptVars, Alive
<1> QED
  BY <1>1, <1>2, <1>3, ZenonT(30)

(* The other steps leave the accept mutex and the living alone.            *)
LEMMA ElsewhereOwn ==
  ASSUME AcceptInv, UNCHANGED acceptVars, UNCHANGED <<born, dead>>
  PROVE  AcceptTypeOK' /\ \A q \in Procs : AcceptOwn(q)'
BY DEF AcceptInv, AcceptTypeOK, AcceptOwn, acceptVars, Alive

(* Every step of the workers and of the master.                            *)
LEMMA AcceptInvStep == AcceptInv /\ [Next]_vars => AcceptInv'
<1> SUFFICES ASSUME AcceptInv, [Next]_vars PROVE AcceptInv'
  OBVIOUS
<1>1. ProcsTypeOK'
  <2>1. MutexNext \/ UNCHANGED procVars
    BY SeenFromZone, ZenonT(30)
  <2> QED
    BY <2>1, ProcsStep, ZenonT(30) DEF AcceptInv
<1>2. ASSUME NEW p \in Procs, EventLoop(p) PROVE AcceptInv'
  <2>1. Pass(p) \/ PassEvent(p)
    BY <1>2, Zenon DEF EventLoop
  <2>2. UNCHANGED procVars
    BY <2>1, Zenon DEF Pass, PassEvent, SkipMutex, TryLockOk, EnableOk, EnableFails,
       TryLockFails, AcceptOk, AcceptEmfile, EmfileRelease, PassUnlock, PassEnds
  <2>3. AcceptTypeOK' /\ AcceptOwn(p)'
    BY <2>1, PassTypes, PassOwn, Zenon DEF AcceptInv
  <2>4. \A q \in Procs \ {p} : AcceptOwn(q)'
    BY <2>1, <2>2, PassOnlyOwn, OthersKept, SMTT(20) DEF AcceptInv, procVars, Alive
  <2> QED
    BY <1>1, <2>3, <2>4, ZenonT(30) DEF AcceptInv
<1>3. ASSUME UNCHANGED acceptVars, UNCHANGED <<born, dead>> PROVE AcceptInv'
  BY <1>1, <1>3, ElsewhereOwn, ZenonT(30) DEF AcceptInv
<1>4. ASSUME NEW p \in Procs, ZoneStep(p) \/ PeersStep(p) \/ UnlockZone(p) PROVE AcceptInv'
  <2>1. UNCHANGED acceptVars
    BY <1>4, Zenon DEF ZoneStep, PeersStep, UnlockZone
  <2>2. CASE ZoneStep(p)
    BY <2>1, <2>2, <1>3, Zenon DEF ZoneStep, Begin, InLock, ngx_shmtx_trylock, ngx_shmtx_lock,
       Acquire, SpinOver, CountIn, Retry, CountOut, SemWait, ngx_shmtx_unlock, procVars
  <2>3. CASE PeersStep(p)
    BY <2>1, <2>3, <1>3, ZenonT(30) DEF PeersStep, RwBegin, RwEnd, InRwLock, ngx_rwlock_wlock,
       ngx_rwlock_rlock, TakeWrite, ReadReaders, TakeRead, ngx_rwlock_unlock, FreeWrite,
       FreeRead, ngx_rwlock_downgrade, StoreOne, procVars
  <2>4. CASE UnlockZone(p)
    BY <2>1, <2>4, <1>3, ZenonT(30) DEF UnlockZone, ngx_shmtx_force_unlock, Waited
  <2> QED
    BY <1>4, <2>2, <2>3, <2>4, Zenon
<1>5. ASSUME NEW p \in Procs, WorkerDies(p) PROVE AcceptInv'
  BY <1>1, <1>5, DeathOwn, ZenonT(30) DEF WorkerDies, AcceptInv
<1>6. ASSUME NEW p \in Procs, UnlockAccept(p) PROVE AcceptInv'
  BY <1>1, <1>6, UnlockAcceptOwn, ZenonT(30) DEF AcceptInv
<1>7. ASSUME NEW p \in Procs, NewWorker(p) PROVE AcceptInv'
  BY <1>1, <1>7, NewWorkerOwn, Zenon DEF NewWorker, AcceptInv
<1>8. ASSUME NEW a \in Actors, WakeStep(a) PROVE AcceptInv'
  BY <1>8, <1>3, ZenonT(30) DEF WakeStep, InWakeup, ReadWait, CmpSetWait, SemPost, procVars
<1>9. CASE UNCHANGED vars
  BY <1>9, <1>3, ZenonT(30) DEF vars, procVars
<1> QED
  BY <1>2, <1>4, <1>5, <1>6, <1>7, <1>8, <1>9, Zenon DEF Next

(* The first workers, before their first pass.                             *)
LEMMA AcceptInvStart == Init => AcceptInv
<1> SUFFICES ASSUME Init PROVE AcceptInv
  OBVIOUS
<1>1. ProcsTypeOK
  <2>1. IsFiniteSet(born)
    BY ActorSets, FS_Subset, ZenonT(30) DEF Init, ProcsInit
  <2> QED
    BY <2>1, FS_CardinalityType, Zenon DEF Init, ProcsInit, ProcsTypeOK
<1>2. AcceptTypeOK
  BY DisabledAssumption, SMTT(20) DEF Init, AcceptCreate, AcceptTypeOK
<1>3. \A p \in Procs : AcceptOwn(p)
  BY ActorSets DEF Init, AcceptCreate, AcceptOwn
<1> QED
  BY <1>1, <1>2, <1>3, ZenonT(30) DEF AcceptInv

(* The invariant of the accept mutex.                                      *)
LEMMA AcceptSafe == Spec => []AcceptInv
BY AcceptInvStart, AcceptInvStep, PTL DEF Spec

(* For any number of workers: the accept mutex never leaves a pass of the  *)
(* event loop with a living worker (ngx_process_events_and_timers).        *)
THEOREM AcceptGivenBack == Spec => []AcceptReleased
<1>1. AcceptInv => AcceptReleased
  BY DEF AcceptInv, AcceptOwn, AcceptReleased, Alive, ProcsTypeOK
<1> QED
  BY <1>1, AcceptSafe, PTL

(* The listening sockets are polled by the owner of the accept mutex only, *)
(* but for the two exceptions AcceptTurns names (ngx_trylock_accept_mutex, *)
(* ngx_event_accept).                                                      *)
THEOREM AcceptInTurns == Spec => []AcceptTurns
<1>1. AcceptInv => AcceptTurns
  BY DEF AcceptInv, AcceptOwn, AcceptTurns, Alive, ProcsTypeOK
<1> QED
  BY <1>1, AcceptSafe, PTL

(* Which server it is stays, and the master is at a worker or at none.     *)
LEMMA ServerStep == ASSUME setup \in Setups, collecting \in Procs \cup {None}, [Next]_vars
                    PROVE  setup' \in Setups /\ collecting' \in Procs \cup {None}
<1>1. setup' = setup
  BY Zenon DEF Next, vars, EventLoop, ZoneStep, PeersStep, WorkerDies, UnlockAccept, UnlockZone,
     NewWorker, WakeStep
<1>2. collecting' = collecting \/ collecting' = None \/ \E p \in Procs : collecting' = p
  BY Zenon DEF Next, vars, EventLoop, ZoneStep, PeersStep, WorkerDies, UnlockAccept, UnlockZone,
     NewWorker, WakeStep
<1> QED
  BY <1>1, <1>2, Zenon

(* The types of the server, its locks and its processes (all actions).     *)
THEOREM ServerTyped == Spec => []TypeOK
<1> DEFINE Server == setup \in Setups /\ collecting \in Procs \cup {None}
<1>1. Init => Server
  BY Zenon DEF Init
<1>2. Server /\ [Next]_vars => Server'
  BY ServerStep, Zenon
<1>3. MutexInv /\ RwInv /\ AcceptInv /\ Server => TypeOK
  BY Zenon DEF MutexInv, RwInv, AcceptInv, TypeOK
<1> HIDE DEF Server
<1>4. Spec => []Server
  BY <1>1, <1>2, PTL DEF Spec
<1> QED
  BY <1>3, <1>4, LocksCompose, MutexSafe, RwSafe, AcceptSafe, PTL

(* What holds of each lock holds of the server that uses all of them: the  *)
(* zone mutex and the peers' lock stay exclusive, and their words exact,   *)
(* however the workers interleave them and wherever they die.              *)
THEOREM ServerLocksSafe == Spec => [](LockWord /\ SemBalance /\ NoLostWakeup /\ RwExclusion /\ RwWord)
<1>1. MutexInv /\ RwInv => LockWord /\ SemBalance /\ NoLostWakeup /\ RwExclusion /\ RwWord
  BY Zenon DEF MutexInv, RwInv
<1> QED
  BY <1>1, LocksCompose, MutexSafe, RwSafe, PTL

(* Every step of the server is a step of the abstract lock on the accept   *)
(* mutex, or none.                                                         *)
LEMMA AcceptStepRefines ==
  ASSUME AcceptInv, [Next]_vars
  PROVE  [AcceptLock!Next]_AcceptLock!vars
<1> USE ActorSets DEF AcceptLock!Next, AcceptLock!vars
<1>1. ASSUME NEW p \in Procs, EventLoop(p) PROVE [AcceptLock!Next]_AcceptLock!vars
  <2>1. /\ Pass(p) \/ PassEvent(p)
        /\ p \in Alive /\ UNCHANGED procVars
    BY <1>1, Zenon DEF EventLoop, Pass, PassEvent, SkipMutex, TryLockOk, EnableOk, EnableFails,
       TryLockFails, AcceptOk, AcceptEmfile, EmfileRelease, PassUnlock, PassEnds, StageAt
  <2>2. OnlyOwn(p)
    BY <2>1, PassOnlyOwn, ZenonT(30) DEF AcceptInv
  <2> QED
    BY <2>1, <2>2, Zenon DEF OnlyOwn, procVars, Alive, AcceptLock!Acquire, AcceptLock!Release
<1>2. ASSUME NEW p \in Procs, WorkerDies(p) PROVE AcceptLock!Crash(p)
  BY <1>2 DEF WorkerDies, Crash, Alive, MemoryGone, AcceptLock!Crash
<1>3. ASSUME NEW p \in Procs, UnlockAccept(p)
      PROVE  AcceptLock!Recover(p) \/ UNCHANGED <<accept, dead>>
  BY <1>3, Zenon DEF UnlockAccept, FreeAccept, procVars, AcceptLock!Recover
<1>4. ASSUME NEW p \in Procs, ZoneStep(p) PROVE UNCHANGED <<accept, dead>>
  BY <1>4, Zenon DEF ZoneStep, acceptVars, Begin, InLock, ngx_shmtx_trylock, ngx_shmtx_lock,
     Acquire, SpinOver, CountIn, Retry, CountOut, SemWait, ngx_shmtx_unlock, procVars
<1>5. ASSUME NEW p \in Procs, PeersStep(p) PROVE UNCHANGED <<accept, dead>>
  BY <1>5, Zenon DEF PeersStep, acceptVars, RwBegin, RwEnd, InRwLock, ngx_rwlock_wlock,
     ngx_rwlock_rlock, TakeWrite, ReadReaders, TakeRead, ngx_rwlock_unlock, FreeWrite,
     FreeRead, ngx_rwlock_downgrade, StoreOne, procVars
<1>6. ASSUME NEW p \in Procs, UnlockZone(p) \/ NewWorker(p) PROVE UNCHANGED <<accept, dead>>
  BY <1>6, Zenon DEF UnlockZone, NewWorker, ngx_shmtx_force_unlock, Waited, Respawn, acceptVars
<1>7. ASSUME NEW a \in Actors, WakeStep(a) PROVE UNCHANGED <<accept, dead>>
  BY <1>7, ZenonT(30) DEF WakeStep, acceptVars, InWakeup, ReadWait, CmpSetWait, SemPost, procVars
<1>8. CASE UNCHANGED vars
  BY <1>8 DEF vars, acceptVars, procVars
<1> QED
  BY <1>1, <1>2, <1>3, <1>4, <1>5, <1>6, <1>7, <1>8, Zenon DEF Next

(* The accept mutex implements the lock that survives its owner.           *)
THEOREM AcceptLockRefined == Spec => AcceptLock!Spec
<1>1. Init => AcceptLock!Init
  BY DEF Init, ProcsInit, AcceptCreate, AcceptLock!Init
<1>2. AcceptInv /\ [Next]_vars => [AcceptLock!Next]_AcceptLock!vars
  BY AcceptStepRefines
<1> QED
  BY <1>1, <1>2, AcceptSafe, PTL DEF Spec, AcceptLock!Spec
=============================================================================
