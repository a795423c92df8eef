------------------------------ MODULE RwLock ------------------------------
(***************************************************************************)
(* The reader/writer spin lock of nginx (ngx_rwlock.c), which guards the   *)
(* upstream peers in shared memory.  The lock word is the number of        *)
(* readers, or NGX_RWLOCK_WLOCK.  Nothing records who holds it, and the    *)
(* master does not free it when its holder dies.                           *)
(*                                                                         *)
(* Where a process is:  "wlock" and "rlock" in the loops, "rcas" before    *)
(* the cmp_set of ngx_rwlock_rlock, "reading" and "writing" with the lock, *)
(* "wfree" and "rfree" after the test of ngx_rwlock_unlock, "store" after  *)
(* the test of ngx_rwlock_downgrade.                                       *)
(***************************************************************************)
EXTENDS NgxProcs

VARIABLES rw,       \* the lock word
          rwpc,     \* process -> where it is
          readers   \* process -> its local variable readers

rwVars == <<rw, rwpc, readers>>

NGX_RWLOCK_WLOCK == -1

RwGoto(p, l) == rwpc' = [rwpc EXCEPT ![p] = l]

RwAt(p, l) == /\ rwpc[p] = l
              /\ p \in Alive

RwCreate == /\ rw = 0
            /\ rwpc = [p \in Procs |-> "idle"]
            /\ readers = [p \in Procs |-> 0]

ngx_rwlock_wlock(p) == /\ RwAt(p, "idle")
                       /\ RwGoto(p, "wlock")
                       /\ UNCHANGED <<rw, readers, procVars>>

(* A failed attempt spins and yields: no step.                             *)
TakeWrite(p) == /\ RwAt(p, "wlock")
                /\ rw = 0
                /\ rw' = NGX_RWLOCK_WLOCK
                /\ RwGoto(p, "writing")
                /\ UNCHANGED <<readers, procVars>>

ngx_rwlock_rlock(p) == /\ RwAt(p, "idle")
                       /\ RwGoto(p, "rlock")
                       /\ UNCHANGED <<rw, readers, procVars>>

ReadReaders(p) == /\ RwAt(p, "rlock")
                  /\ rw # NGX_RWLOCK_WLOCK
                  /\ readers' = [readers EXCEPT ![p] = rw]
                  /\ RwGoto(p, "rcas")
                  /\ UNCHANGED <<rw, procVars>>

(* Mutant: a store where the cmp_set is.                                   *)
TakeReadStore(p) == /\ RwAt(p, "rcas")
                    /\ rw' = readers[p] + 1
                    /\ RwGoto(p, "reading")
                    /\ readers' = [readers EXCEPT ![p] = 0]
                    /\ UNCHANGED procVars


TakeRead(p) == /\ RwAt(p, "rcas")
               /\ IF rw = readers[p]
                    THEN /\ rw' = readers[p] + 1
                         /\ RwGoto(p, "reading")
                    ELSE /\ RwGoto(p, "rlock")
                         /\ UNCHANGED rw
               /\ readers' = [readers EXCEPT ![p] = 0]
               /\ UNCHANGED procVars

(* The test of ngx_rwlock_unlock, then its cmp_set or its fetch_add.       *)
ngx_rwlock_unlock(p) == /\ RwAt(p, "reading") \/ RwAt(p, "writing")
                        /\ RwGoto(p, IF rw = NGX_RWLOCK_WLOCK THEN "wfree" ELSE "rfree")
                        /\ UNCHANGED <<rw, readers, procVars>>

(* Mutant: a writer leaves as a reader does.                               *)
FreeWriteAdd(p) == /\ RwAt(p, "wfree")
                   /\ rw' = rw - 1
                   /\ RwGoto(p, "idle")
                   /\ UNCHANGED <<readers, procVars>>


FreeWrite(p) == /\ RwAt(p, "wfree")
                /\ rw' = IF rw = NGX_RWLOCK_WLOCK THEN 0 ELSE rw
                /\ RwGoto(p, "idle")
                /\ UNCHANGED <<readers, procVars>>

FreeRead(p) == /\ RwAt(p, "rfree")
               /\ rw' = rw - 1
               /\ RwGoto(p, "idle")
               /\ UNCHANGED <<readers, procVars>>

(* A writer's call: the test, then the store.                              *)
ngx_rwlock_downgrade(p) == /\ RwAt(p, "writing")
                           /\ RwGoto(p, IF rw = NGX_RWLOCK_WLOCK THEN "store" ELSE "reading")
                           /\ UNCHANGED <<rw, readers, procVars>>

(* Mutant: the new reader forgotten.                                       *)
StoreZero(p) == /\ RwAt(p, "store")
                /\ rw' = 0
                /\ RwGoto(p, "reading")
                /\ UNCHANGED <<readers, procVars>>


StoreOne(p) == /\ RwAt(p, "store")
               /\ rw' = 1
               /\ RwGoto(p, "reading")
               /\ UNCHANGED <<readers, procVars>>

----------------------------------------------------------------------------
RwInit == ProcsInit /\ RwCreate

RwBegin(p) == \/ ngx_rwlock_wlock(p)
              \/ ngx_rwlock_rlock(p)

(* What a holder calls, and the steps inside a call that has begun.        *)
RwEnd(p) == \/ ngx_rwlock_unlock(p)
            \/ ngx_rwlock_downgrade(p)

InRwLock(p) == \/ TakeWrite(p)
               \/ ReadReaders(p)
               \/ TakeRead(p)
               \/ FreeWrite(p)
               \/ FreeRead(p)
               \/ StoreOne(p)

RwNext == \E p \in Procs : \/ RwBegin(p)
                           \/ RwEnd(p)
                           \/ InRwLock(p)
                           \/ Crash(p) /\ UNCHANGED rwVars
                           \/ Waited(p) /\ UNCHANGED rwVars
                           \/ Respawn(p) /\ UNCHANGED rwVars

RwSpec == RwInit /\ [][RwNext]_<<procVars, rwVars>>

----------------------------------------------------------------------------
Writers == {p \in Procs : rwpc[p] \in {"writing", "wfree", "store"}}

Readers == {p \in Procs : rwpc[p] \in {"reading", "rfree"}}

(* A process that has the lock for writing, until the instruction that     *)
(* gives it up or makes it a reader, is alone: no other process has it for *)
(* reading or for writing (ngx_rwlock_wlock and ngx_rwlock_rlock, whose    *)
(* cmp_set may act on a value of the word that has gone and come back).    *)
RwExclusion == \A p \in Writers : Writers \cup Readers = {p}

(* The lock word says exactly who holds the lock, the dead holders         *)
(* included: NGX_RWLOCK_WLOCK for a writer, the number of readers          *)
(* otherwise, so that ngx_rwlock_unlock always picks the branch of its     *)
(* caller and a dead holder keeps its share for ever.                      *)
RwWord == rw = IF Writers # {} THEN NGX_RWLOCK_WLOCK ELSE Cardinality(Readers)

RwTypeOK == /\ rw \in NGX_RWLOCK_WLOCK .. Cardinality(Procs)
            /\ rwpc \in [Procs -> {"idle", "wlock", "rlock", "rcas", "reading",
                                   "writing", "wfree", "rfree", "store"}]
            /\ readers \in [Procs -> 0 .. Cardinality(Procs)]
=============================================================================
