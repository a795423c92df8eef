---------------------------- MODULE CrashLock ----------------------------
(***************************************************************************)
(* What the shared-memory mutexes of nginx promise to worker processes     *)
(* that may die: at most one process has the lock, it passes from hand to  *)
(* hand only through being free, it is never taken from a process that     *)
(* lives, and the lock of a dead process is freed again.                   *)
(***************************************************************************)
CONSTANTS Procs, None

VARIABLES holder,   \* the process that has the lock, or None
          dead      \* the processes that died

vars == <<holder, dead>>

Init == /\ holder = None
        /\ dead = {}

Acquire(p) == /\ p \notin dead
              /\ holder = None
              /\ holder' = p
              /\ UNCHANGED dead

Release(p) == /\ p \notin dead
              /\ holder = p
              /\ holder' = None
              /\ UNCHANGED dead

Crash(p) == /\ p \notin dead
            /\ dead' = dead \cup {p}
            /\ UNCHANGED holder

Recover(p) == /\ p \in dead
              /\ holder = p
              /\ holder' = None
              /\ UNCHANGED dead

Next == \E p \in Procs : Acquire(p) \/ Release(p) \/ Crash(p) \/ Recover(p)

Spec == Init /\ [][Next]_vars

FairSpec == Spec /\ \A p \in Procs : WF_vars(Recover(p))
=============================================================================
