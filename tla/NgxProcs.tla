----------------------------- MODULE NgxProcs -----------------------------
(***************************************************************************)
(* The processes of nginx that share memory: worker processes that may die *)
(* at any instruction, and the master that collects the dead ones          *)
(* (ngx_process_get_status) and starts new ones in their place             *)
(* (ngx_reap_children).  A new process has a pid of its own.               *)
(***************************************************************************)
EXTENDS Integers, FiniteSets

CONSTANTS Procs,    \* the pids worker processes get
          Master,   \* the master process
          None      \* a lock word of 0: no process

ASSUME ProcsAssumption == /\ IsFiniteSet(Procs)
                          /\ Master \notin Procs
                          /\ None \notin Procs

VARIABLES worker_processes,  \* how many workers run, fixed at the start
          born,              \* the pids of worker processes started so far
          dead,              \* those that died
          reaped             \* those whose death the master has dealt with

procVars == <<worker_processes, born, dead, reaped>>

Alive == born \ dead

ProcsTypeOK == /\ worker_processes \in Nat
               /\ born \subseteq Procs
               /\ dead \subseteq born
               /\ reaped \subseteq dead

ProcsInit == /\ born \in SUBSET Procs
             /\ worker_processes = Cardinality(born)
             /\ dead = {}
             /\ reaped = {}

(* A signal kills a worker, whatever it is doing.                          *)
Crash(p) == /\ p \in Alive
            /\ dead' = dead \cup {p}
            /\ UNCHANGED <<worker_processes, born, reaped>>

(* waitpid returns the pid of a dead worker to the master.                 *)
Waited(p) == /\ p \in dead \ reaped
             /\ reaped' = reaped \cup {p}
             /\ UNCHANGED <<worker_processes, born, dead>>

(* The master replaces a worker it has collected.                          *)
Respawn(p) == /\ p \in Procs \ born
              /\ Cardinality(born \ reaped) < worker_processes
              /\ born' = born \cup {p}
              /\ UNCHANGED <<worker_processes, dead, reaped>>
=============================================================================
