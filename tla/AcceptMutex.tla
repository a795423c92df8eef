---------------------------- MODULE AcceptMutex ----------------------------
(***************************************************************************)
(* ngx_accept_mutex: the worker processes take turns at polling the        *)
(* listening sockets.  One pass of ngx_process_events_and_timers of a      *)
(* worker that runs with accept_mutex on, with ngx_trylock_accept_mutex    *)
(* and the part of ngx_event_accept that touches the mutex.  The mutex has *)
(* no semaphore (spin is -1): a lock word with try-lock and unlock only.   *)
(*                                                                         *)
(* Where a worker is:  "top" of the pass, "enable" with the mutex just     *)
(* taken, "events" polling and handling what it polled, "emfile" between   *)
(* the failed accept and the release of the mutex, "late" after that.      *)
(***************************************************************************)
EXTENDS NgxProcs

CONSTANT MaxDisabled   \* bound: how far ngx_accept_disabled is above 0

ASSUME DisabledAssumption == MaxDisabled \in Nat \ {0}

VARIABLES accept,     \* the lock word of ngx_accept_mutex
          held,       \* process -> ngx_accept_mutex_held
          disabled,   \* process -> ngx_accept_disabled, 0 for "not above 0"
          listening,  \* process -> a listening socket is in its poll set
          stage,      \* process -> where it is
          skipped,    \* processes in a pass that did not try the mutex
          refused     \* processes whose poll set refused a socket once

acceptVars == <<accept, held, disabled, listening, stage, skipped, refused>>

AcceptCreate == /\ accept = None
                /\ held = [p \in Procs |-> FALSE]
                /\ disabled = [p \in Procs |-> 0]
                /\ listening = [p \in Procs |-> FALSE]
                /\ stage = [p \in Procs |-> "top"]
                /\ skipped = {}
                /\ refused = {}

Enter(p, s) == stage' = [stage EXCEPT ![p] = s]

Set(f, p, v) == f' = [f EXCEPT ![p] = v]

StageAt(p, s) == /\ stage[p] = s
                 /\ p \in Alive

(* Mutant: freed whoever has it.                                           *)
FreeAnyAccept(p) == accept' = None

(* ngx_shmtx_unlock of the accept mutex by p, or for the dead process p.   *)
FreeAccept(p) == accept' = IF accept = p THEN None ELSE accept

(* ngx_accept_disabled > 0: the pass does not try the mutex.               *)
SkipMutex(p) == /\ StageAt(p, "top")
                /\ disabled[p] > 0
                /\ Set(disabled, p, disabled[p] - 1)
                /\ skipped' = skipped \cup {p}
                /\ Enter(p, "events")
                /\ UNCHANGED <<accept, held, listening, refused, procVars>>

TryLockOk(p) == /\ StageAt(p, "top")
                /\ disabled[p] = 0
                /\ accept = None
                /\ accept' = p
                /\ Enter(p, IF held[p] THEN "events" ELSE "enable")
                /\ UNCHANGED <<held, disabled, listening, skipped, refused, procVars>>

(* ngx_enable_accept_events succeeds.                                      *)
EnableOk(p) == /\ StageAt(p, "enable")
               /\ Set(held, p, TRUE)
               /\ Set(listening, p, TRUE)
               /\ Enter(p, "events")
               /\ UNCHANGED <<accept, disabled, skipped, refused, procVars>>

(* It fails at one of the sockets: those before it stay in the poll set,   *)
(* the mutex is released and the pass returns.                             *)
EnableFails(p) == /\ StageAt(p, "enable")
                  /\ FreeAccept(p)
                  /\ \E some \in BOOLEAN : Set(listening, p, listening[p] \/ some)
                  /\ refused' = refused \cup {p}
                  /\ Enter(p, "top")
                  /\ UNCHANGED <<held, disabled, skipped, procVars>>

(* The mutex is taken: ngx_disable_accept_events if this worker had it.    *)
(* Where that fails the pass returns and nothing has changed: no step.     *)
TryLockFails(p) == /\ StageAt(p, "top")
                   /\ disabled[p] = 0
                   /\ accept # None
                   /\ Set(listening, p, listening[p] /\ ~held[p])
                   /\ Set(held, p, FALSE)
                   /\ Enter(p, "events")
                   /\ UNCHANGED <<accept, disabled, skipped, refused, procVars>>

(* ngx_event_accept accepts a connection and sets ngx_accept_disabled from *)
(* the number of free connections.                                         *)
AcceptOk(p) == /\ StageAt(p, "events")
               /\ listening[p]
               /\ \E d \in 0 .. MaxDisabled : Set(disabled, p, d)
               /\ UNCHANGED <<accept, held, listening, stage, skipped, refused, procVars>>

(* No descriptors left: the sockets leave the poll set, the mutex goes,    *)
(* and the next pass does not try it.  The release is a step of its own.   *)
AcceptEmfile(p) == /\ StageAt(p, "events")
                   /\ listening[p]
                   /\ Set(listening, p, FALSE)
                   /\ Enter(p, "emfile")
                   /\ UNCHANGED <<accept, held, disabled, skipped, refused, procVars>>

(* Mutant: the flag cleared, the mutex kept.                               *)
EmfileKeeps(p) == /\ StageAt(p, "emfile")
                  /\ Set(held, p, FALSE)
                  /\ Set(disabled, p, 1)
                  /\ Enter(p, "events")
                  /\ UNCHANGED <<accept, listening, skipped, refused, procVars>>

EmfileRelease(p) == /\ StageAt(p, "emfile")
                    /\ IF held[p] THEN FreeAccept(p) ELSE UNCHANGED accept
                    /\ Set(held, p, FALSE)
                    /\ Set(disabled, p, 1)
                    /\ Enter(p, "events")
                    /\ UNCHANGED <<listening, skipped, refused, procVars>>

(* After the posted accept events: ngx_shmtx_unlock, if the flag is set.   *)
PassUnlock(p) == /\ StageAt(p, "events")
                 /\ IF held[p] THEN FreeAccept(p) ELSE UNCHANGED accept
                 /\ Enter(p, "late")
                 /\ UNCHANGED <<held, disabled, listening, skipped, refused, procVars>>

(* The timers and the other posted events are done.                        *)
PassEnds(p) == /\ StageAt(p, "late")
               /\ skipped' = skipped \ {p}
               /\ Enter(p, "top")
               /\ UNCHANGED <<accept, held, disabled, listening, refused, procVars>>

(* The memory and the poll set of a dead worker go with it, the lock word  *)
(* stays.                                                                  *)
MemoryGone(p) == /\ Set(held, p, FALSE)
                 /\ Set(disabled, p, 0)
                 /\ Set(listening, p, FALSE)
                 /\ Enter(p, "top")
                 /\ skipped' = skipped \ {p}
                 /\ refused' = refused \ {p}
                 /\ UNCHANGED accept

----------------------------------------------------------------------------
Pass(p) == \/ SkipMutex(p)
           \/ TryLockOk(p)
           \/ EnableOk(p)
           \/ TryLockFails(p)
           \/ EmfileRelease(p)
           \/ PassUnlock(p)
           \/ PassEnds(p)

PassEvent(p) == \/ EnableFails(p)
                \/ AcceptOk(p)
                \/ AcceptEmfile(p)

AcceptTypeOK == /\ accept \in Procs \cup {None}
                /\ held \in [Procs -> BOOLEAN]
                /\ disabled \in [Procs -> 0 .. MaxDisabled]
                /\ listening \in [Procs -> BOOLEAN]
                /\ stage \in [Procs -> {"top", "enable", "events", "emfile", "late"}]
                /\ skipped \subseteq Procs
                /\ refused \subseteq Procs

(* The accept mutex never leaves a pass of the event loop with a worker    *)
(* that lives: the one that has it is between ngx_shmtx_trylock and the    *)
(* release at the end of the accept events, and has the flag               *)
(* ngx_accept_mutex_held by which it will release it                       *)
(* (ngx_process_events_and_timers, the EMFILE path of ngx_event_accept).   *)
AcceptReleased ==
    \A p \in Alive : accept = p => \/ stage[p] = "enable"
                                   \/ stage[p] \in {"events", "emfile"} /\ held[p]

(* Listening sockets are polled by one worker at a time, the owner of the  *)
(* mutex.  The exceptions are the ones of the code: a pass with            *)
(* ngx_accept_disabled above 0 polls what the last pass left in the poll   *)
(* set without trying the mutex (ngx_process_events_and_timers), and a     *)
(* worker whose ngx_enable_accept_events failed half way never removes the *)
(* sockets it had added (ngx_trylock_accept_mutex).  The flag              *)
(* ngx_accept_mutex_held outlives the ownership, and a worker whose flag   *)
(* is stale calls ngx_shmtx_unlock on a mutex of another, which must not   *)
(* lose it its turn.                                                       *)
AcceptTurns ==
    \A p \in Alive \ (skipped \cup refused) :
        stage[p] = "events" /\ listening[p] => accept = p

AcceptLock == INSTANCE CrashLock WITH holder <- accept

(* The accept mutex is such a lock too: ngx_shmtx_trylock takes it from    *)
(* nobody, and one that a worker took to its grave is freed by the master  *)
(* (ngx_unlock_mutexes).                                                   *)
AcceptLockImplemented == AcceptLock!FairSpec
=============================================================================
