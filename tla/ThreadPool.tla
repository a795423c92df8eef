---------------------------- MODULE ThreadPool -----------------------------
(***************************************************************************)
(* The thread pool of melon (mln_thread_pool.c): a main thread that adds   *)
(* resources, child threads that are created on demand, take resources     *)
(* from a chain, wait on a condition variable with a timeout, leave when   *)
(* they idle too long, and are all waited for when the main handler        *)
(* returns.                                                                *)
(*                                                                         *)
(* Between locking and unlocking the pool's mutex a thread blocks only in  *)
(* pthread_cond_timedwait, so an action is one such critical section.      *)
(***************************************************************************)
EXTENDS Integers, Sequences, FiniteSets, Functions

CONSTANTS Threads,      \* threads the system can create
          Resources,    \* each is added at most once
          max,          \* attribute max: child threads allowed
          CreateMayFail \* pthread_create may return an error

ASSUME MaxAssumption == max \in Nat
ASSUME ThreadsAssumption == IsFiniteSet(Threads)
ASSUME CreateAssumption == CreateMayFail \in BOOLEAN

VARIABLES res,      \* the resource chain
          idle,     \* tpool->idle, the main thread included
          counter,  \* tpool->counter, the main thread included
          quit,     \* tpool->quit
          pc,       \* child thread -> where it is
          data,     \* child thread -> resource it processes
          main,     \* where the main thread is
          added,    \* resources the main thread has added
          refused,  \* those whose addition returned an error
          given,    \* resources passed to process_handler
          freed     \* resources passed to free_handler

vars == <<res, idle, counter, quit, pc, data, main, added, refused, given, freed>>

(* lock: about to lock the mutex, idle; again: the same after a resource;  *)
(* wait: in pthread_cond_timedwait; woken, timedout: on its way out of it; *)
(* run: in process_handler; lost: a member that has no thread.             *)
Idling == {"lock", "wait", "woken", "timedout", "lost"}

(* mln_thread_pool_run up to main_process_handler: the main thread joins.  *)
Init == /\ res = <<>>
        /\ idle = 1 /\ counter = 1
        /\ quit = FALSE
        /\ pc = [t \in Threads |-> "none"]
        /\ data = [t \in Threads |-> {}]
        /\ main = "handler"
        /\ added = {} /\ refused = {} /\ given = {} /\ freed = {}

-----------------------------------------------------------------------------
(* pthread_cond_signal: one of the threads that wait, if there is one.     *)
Signal(q) == LET sleepers == {t \in Threads : q[t] = "wait"}
             IN  IF sleepers = {} THEN pc' = q
                 ELSE \E t \in sleepers : pc' = [q EXCEPT ![t] = "woken"]

MoreThreads == idle <= 1 /\ counter < max + 1

(* mln_thread_pool_member_join *)
Join == counter' = counter + 1 /\ idle' = idle + 1

(* Mutant: the new tail is not linked to the old one.                      *)
EnqueueUnlinked(r) == /\ main = "handler" /\ r \notin added
                      /\ added' = added \cup {r}
                      /\ res' = IF res = <<>> THEN <<r>> ELSE res

Enqueue(r) == /\ main = "handler" /\ r \notin added
              /\ added' = added \cup {r}
              /\ res' = Append(res, r)

(* mln_thread_pool_resource_add *)
AddResource(r) ==
  /\ Enqueue(r)
  /\ \/ /\ MoreThreads
        /\ Join
        /\ \E t \in Threads : pc[t] = "none" /\ Signal([pc EXCEPT ![t] = "lock"])
     \/ /\ ~MoreThreads
        /\ Signal(pc)
        /\ UNCHANGED <<idle, counter>>
  /\ UNCHANGED <<quit, data, main, refused, given, freed>>

(* Its error returns, which leave the resource in the chain: no member is  *)
(* allocated, or pthread_create fails and the member has no thread.        *)
AddFails(r) ==
  /\ CreateMayFail
  /\ Enqueue(r)
  /\ refused' = refused \cup {r}
  /\ MoreThreads
  /\ \/ UNCHANGED <<pc, idle, counter>>
     \/ /\ Join
        /\ \E t \in Threads : pc[t] = "none" /\ pc' = [pc EXCEPT ![t] = "lost"]
  /\ UNCHANGED <<quit, data, main, given, freed>>

-----------------------------------------------------------------------------
(* child_thread_launcher *)

(* The top of the loop (label again): a thread that comes from its handler *)
(* is counted idle.  Mutant: it is not.                                    *)
IdleAgainNot(t) == idle

IdleAgain(t) == IF pc[t] = "again" THEN idle + 1 ELSE idle

(* Mutant: the member is not counted out.                                  *)
MemberExitKept(t) ==
  /\ pc' = [pc EXCEPT ![t] = "none"]
  /\ idle' = IdleAgain(t) - 1
  /\ freed' = freed \cup data[t]
  /\ data' = [data EXCEPT ![t] = {}]
  /\ UNCHANGED <<counter, res, given>>

(* mln_thread_pool_member_exit and _free, the mutex being locked already.  *)
MemberExit(t) ==
  /\ pc' = [pc EXCEPT ![t] = "none"]
  /\ counter' = counter - 1
  /\ idle' = IdleAgain(t) - 1
  /\ freed' = freed \cup data[t]
  /\ data' = [data EXCEPT ![t] = {}]
  /\ UNCHANGED <<res, given>>

(* mln_thread_pool_resource_remove, then process_handler is called.        *)
ResourceRemove(t) ==
  /\ res # <<>>
  /\ res' = Tail(res)
  /\ data' = [data EXCEPT ![t] = {Head(res)}]
  /\ given' = given \cup {Head(res)}
  /\ idle' = IdleAgain(t) - 1
  /\ pc' = [pc EXCEPT ![t] = "run"]
  /\ UNCHANGED <<counter, freed>>

Wait(t) ==
  /\ res = <<>> /\ pc[t] # "timedout"
  /\ pc' = [pc EXCEPT ![t] = "wait"]
  /\ idle' = IdleAgain(t)
  /\ UNCHANGED <<res, counter, data, given, freed>>

(* Mutant: a thread that timed out leaves without looking at the chain.    *)
LoopTimeout(t) ==
  /\ pc[t] \in {"lock", "again", "woken", "timedout"}
  /\ IF quit \/ pc[t] = "timedout" THEN MemberExit(t) ELSE ResourceRemove(t) \/ Wait(t)
  /\ UNCHANGED <<quit, main, added, refused>>

(* The mutex is locked, by the thread or by pthread_cond_timedwait.        *)
Loop(t) ==
  /\ pc[t] \in {"lock", "again", "woken", "timedout"}
  /\ IF quit \/ (res = <<>> /\ pc[t] = "timedout") THEN MemberExit(t)
     ELSE ResourceRemove(t) \/ Wait(t)
  /\ UNCHANGED <<quit, main, added, refused>>

(* pthread_cond_timedwait gives up, or wakes for no reason.                *)
TimedOut(t) ==
  /\ pc[t] = "wait"
  /\ pc' = [pc EXCEPT ![t] = "timedout"]
  /\ UNCHANGED <<res, idle, counter, quit, data, main, added, refused, given, freed>>

Spurious(t) ==
  /\ pc[t] = "wait"
  /\ pc' = [pc EXCEPT ![t] = "woken"]
  /\ UNCHANGED <<res, idle, counter, quit, data, main, added, refused, given, freed>>

(* process_handler returns.                                                *)
Processed(t) ==
  /\ pc[t] = "run"
  /\ pc' = [pc EXCEPT ![t] = "again"]
  /\ data' = [data EXCEPT ![t] = {}]
  /\ UNCHANGED <<res, idle, counter, quit, main, added, refused, given, freed>>

(* mln_thread_quit, called in process_handler or in main_process_handler.  *)
ThreadQuit ==
  /\ ~quit
  /\ main = "handler" \/ \E t \in Threads : pc[t] = "run"
  /\ quit' = TRUE
  /\ UNCHANGED <<res, idle, counter, pc, data, main, added, refused, given, freed>>

-----------------------------------------------------------------------------
(* mln_thread_pool_run after main_process_handler *)

MainReturns ==
  /\ main = "handler"
  /\ main' = "closing" /\ quit' = TRUE
  /\ UNCHANGED <<res, idle, counter, pc, data, added, refused, given, freed>>

Broadcast ==
  /\ main = "closing" /\ counter > 1
  /\ pc' = [t \in Threads |-> IF pc[t] = "wait" THEN "woken" ELSE pc[t]]
  /\ UNCHANGED <<res, idle, counter, quit, data, main, added, refused, given, freed>>

(* Mutant: the count of children is taken without the main thread.         *)
LastOneEarly == counter <= 2

LastOne == counter <= 1

(* The main thread leaves the pool (mln_thread_pool_member_exit).          *)
MainExit ==
  /\ main = "closing" /\ LastOne
  /\ main' = "exited"
  /\ counter' = counter - 1 /\ idle' = idle - 1
  /\ UNCHANGED <<res, quit, pc, data, added, refused, given, freed>>

(* Mutant: the resources nobody took are not freed.                        *)
PoolFreeLeaks ==
  /\ main = "exited"
  /\ main' = "freed"
  /\ res' = <<>>
  /\ UNCHANGED <<freed, idle, counter, quit, pc, data, added, refused, given>>

(* mln_thread_pool_free: what is left in the chain goes to free_handler.   *)
PoolFree ==
  /\ main = "exited"
  /\ main' = "freed"
  /\ freed' = freed \cup Range(res)
  /\ res' = <<>>
  /\ UNCHANGED <<idle, counter, quit, pc, data, added, refused, given>>

-----------------------------------------------------------------------------
MainStep == Broadcast \/ MainExit \/ PoolFree

ChildStep(t) == Loop(t) \/ TimedOut(t) \/ Processed(t)

Next == \/ \E r \in Resources : AddResource(r) \/ AddFails(r)
        \/ \E t \in Threads : ChildStep(t) \/ Spurious(t)
        \/ ThreadQuit
        \/ MainReturns
        \/ MainStep

Spec == Init /\ [][Next]_vars

(* A thread that can run does, a handler returns, a wait times out, and    *)
(* the main thread goes on with closing the pool.  The main handler may    *)
(* run for ever.                                                           *)
FairSpec == /\ Spec
            /\ \A t \in Threads : WF_vars(Loop(t)) /\ WF_vars(TimedOut(t)) /\ WF_vars(Processed(t))
            /\ WF_vars(MainStep)

-----------------------------------------------------------------------------
(* Properties *)

Members == {t \in Threads : pc[t] # "none"}
IdleMembers == {t \in Threads : pc[t] \in Idling}
Places == {"none", "lock", "wait", "woken", "timedout", "run", "again", "lost"}

(* Type invariant; a thread holds a resource only while its handler runs,  *)
(* so that no exit of a member frees what process_handler was given.       *)
TypeOK ==
  /\ res \in Seq(Resources)
  /\ idle \in Nat /\ counter \in Nat
  /\ quit \in BOOLEAN
  /\ pc \in [Threads -> Places]
  /\ data \in [Threads -> SUBSET Resources]
  /\ \A t \in Threads : pc[t] # "run" => data[t] = {}
  /\ main \in {"handler", "closing", "exited", "freed"}
  /\ added \subseteq Resources /\ refused \subseteq Resources
  /\ given \subseteq Resources /\ freed \subseteq Resources

(* The counts that mln_thread_pool_resource_add decides by are right       *)
(* whenever the mutex is free: counter is the number of members, idle that *)
(* of the members that have no work, the main thread being one of both.    *)
CountsMatch ==
  LET m == IF main \in {"handler", "closing"} THEN 1 ELSE 0 IN
    /\ counter = Cardinality(Members) + m
    /\ idle = Cardinality(IdleMembers) + m

(* There are never more child threads than the attribute max allows.       *)
ThreadLimit == Cardinality(Members) <= max

(* Every resource added is in one place: in the chain once, given to one   *)
(* process_handler, or freed by the pool.                                  *)
EachOnce ==
  /\ added = Range(res) \cup given \cup freed
  /\ \A m, n \in DOMAIN res : res[m] = res[n] => m = n
  /\ Range(res) \cap given = {} /\ Range(res) \cap freed = {} /\ given \cap freed = {}
  /\ \A t, u \in Threads : t # u => data[t] \cap data[u] = {}

(* No pthread_create has failed so far (a member joined in vain stays).    *)
Intact == \A t \in Threads : pc[t] # "lost"

(* No wakeup is lost: while the chain holds a resource whose addition      *)
(* succeeded, and the pool is not told to quit, some child thread is on    *)
(* its way to the chain, even if other additions found no memory.          *)
NoLostWakeup ==
  ~quit /\ Intact /\ ~(Range(res) \subseteq refused) =>
    \E t \in Threads : pc[t] \notin {"none", "wait"}

(* The pool is freed after the last child thread has left it.              *)
PoolOutlivesChildren == main \in {"exited", "freed"} => Members = {}

(* A resource added without an error is given to a handler, unless the     *)
(* pool quits or a thread could not be created.                            *)
ResourceServed ==
  \A r \in Resources : r \in added \ refused ~> (r \in given \/ quit \/ ~Intact)

(* While pthread_create has not failed, the loop of mln_thread_pool_run    *)
(* ends and the pool is freed, whatever the child threads were doing.      *)
IntactCloses == main = "closing" /\ Intact ~> main = "freed"

(* "Once the return represents the end of the thread pool processing, the  *)
(* thread pool will be destroyed": mln_thread_pool_run gets to free it.    *)
ShutdownCompletes == main = "closing" ~> main = "freed"
=============================================================================
