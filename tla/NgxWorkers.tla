---------------------------- MODULE NgxWorkers ----------------------------
(***************************************************************************)
(* The worker processes of nginx with the three kinds of lock they share:  *)
(* the accept mutex around a pass of the event loop, and inside a pass, in *)
(* the handlers of events, the mutex of a shared memory zone and the       *)
(* reader/writer lock of the upstream peers.  A handler takes the mutex    *)
(* alone or while it has the other lock, and gives it up first; it never   *)
(* takes the other while it has the mutex.  Workers die at any point; the  *)
(* master frees the mutexes of the dead, the accept mutex first, and       *)
(* starts new workers.                                                     *)
(***************************************************************************)
EXTENDS ShmMutex, RwLock, AcceptMutex

CONSTANT Setups   \* the servers: their first workers; which locks they use, of
                  \* "accept" (accept_mutex is on), "zone" and "peers"; and a
                  \* bound on the workers that die

ASSUME SetupsAssumption ==
    Setups \subseteq [workers : SUBSET Procs,
                      locks : SUBSET {"accept", "zone", "peers"},
                      crashes : Nat]

VARIABLES setup,       \* the server this is, fixed at the start
          collecting   \* the dead worker ngx_unlock_mutexes is at, or None

vars == <<procVars, mutexVars, rwVars, acceptVars, setup, collecting>>

Init == /\ setup \in Setups
        /\ ProcsInit
        /\ born = setup.workers
        /\ ngx_shmtx_create
        /\ RwCreate
        /\ AcceptCreate
        /\ collecting = None

(* A worker in a handler, without the mutex and in no call.                *)
InHandler(p) == /\ "accept" \in setup.locks => stage[p] \in {"events", "late"}
                /\ pc[p] = "idle"
                /\ rwpc[p] \in {"idle", "reading", "writing"}

EventLoop(p) == /\ "accept" \in setup.locks
                /\ pc[p] = "idle"
                /\ rwpc[p] = "idle"
                /\ Pass(p) \/ PassEvent(p)
                /\ UNCHANGED <<mutexVars, rwVars, setup, collecting>>

(* The mutex of the zone: ngx_http_upstream_save_round_robin_peer_session  *)
(* takes it with the peers locked.                                         *)
ZoneStep(p) == /\ \/ "zone" \in setup.locks /\ InHandler(p) /\ Begin(p)
                  \/ InLock(p)
                  \/ ngx_shmtx_unlock(p)
               /\ UNCHANGED <<rwVars, acceptVars, setup, collecting>>

WakeStep(a) == /\ InWakeup(a)
               /\ UNCHANGED <<rwVars, acceptVars, setup, collecting>>

PeersStep(p) == /\ \/ "peers" \in setup.locks /\ InHandler(p) /\ RwBegin(p)
                   \/ pc[p] = "idle" /\ RwEnd(p)
                   \/ InRwLock(p)
                /\ UNCHANGED <<mutexVars, acceptVars, setup, collecting>>

WorkerDies(p) == /\ Cardinality(dead) < setup.crashes
                 /\ Crash(p)
                 /\ MemoryGone(p)
                 /\ UNCHANGED <<mutexVars, rwVars, setup, collecting>>

(* Mutant: the accept mutex passed over.                                   *)
UnlockNoAccept(p) == /\ collecting = None
                     /\ pc[Master] = "idle"
                     /\ p \in dead \ reaped
                     /\ collecting' = p
                     /\ UNCHANGED <<procVars, mutexVars, rwVars, acceptVars, setup>>

(* ngx_unlock_mutexes: the accept mutex, then the mutex of the zone.       *)
UnlockAccept(p) == /\ collecting = None
                   /\ pc[Master] = "idle"
                   /\ p \in dead \ reaped
                   /\ FreeAccept(p)
                   /\ collecting' = p
                   /\ UNCHANGED <<held, disabled, listening, stage, skipped, refused>>
                   /\ UNCHANGED <<procVars, mutexVars, rwVars, setup>>

UnlockZone(p) == /\ collecting = p
                 /\ ngx_shmtx_force_unlock(p)
                 /\ collecting' = None
                 /\ UNCHANGED <<rwVars, acceptVars, setup>>

NewWorker(p) == /\ collecting = None
                /\ pc[Master] = "idle"
                /\ Respawn(p)
                /\ UNCHANGED <<mutexVars, rwVars, acceptVars, setup, collecting>>

Next == \/ \E p \in Procs : \/ EventLoop(p)
                            \/ ZoneStep(p)
                            \/ PeersStep(p)
                            \/ WorkerDies(p)
                            \/ UnlockAccept(p)
                            \/ UnlockZone(p)
                            \/ NewWorker(p)
        \/ \E a \in Actors : WakeStep(a)

Spec == Init /\ [][Next]_vars

(* A process that is not waiting is scheduled again, a critical section    *)
(* ends, and the master collects the dead.  Nothing makes a worker call a  *)
(* lock operation, fail or die.                                            *)
FairSpec ==
    /\ Spec
    /\ \A p \in Procs : /\ WF_vars(EventLoop(p) /\ Pass(p))
                        /\ WF_vars(ZoneStep(p) /\ (InLock(p) \/ ngx_shmtx_unlock(p)))
                        /\ WF_vars(PeersStep(p) /\ (InRwLock(p) \/ ngx_rwlock_unlock(p)))
                        /\ WF_vars(UnlockAccept(p))
                        /\ WF_vars(UnlockZone(p))
    /\ \A a \in Actors : WF_vars(WakeStep(a))

TypeOK == /\ ProcsTypeOK
          /\ MutexTypeOK
          /\ RwTypeOK
          /\ AcceptTypeOK
          /\ setup \in Setups
          /\ collecting \in Procs \cup {None}
=============================================================================
