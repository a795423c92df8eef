---------------------------- MODULE PrintWorkers ----------------------------
(***************************************************************************)
(* printd's list of the threads that serve clients: add_worker when a      *)
(* thread begins, client_cleanup when it ends, kill_workers at SIGTERM.    *)
(* The list is doubly linked from workers; each of the three holds         *)
(* workerlock all the way, so each is a step.  A list element is named by  *)
(* its thread and is freed by client_cleanup.                              *)
(***************************************************************************)
EXTENDS Naturals, FiniteSets

CONSTANTS Threads, NULL

VARIABLES workers,      \* the head of the list, or NULL
          next, prev,   \* element -> element, or NULL
          allocated,    \* elements not freed
          serving,      \* threads between add_worker and client_cleanup
          ended,        \* threads that ended
          cancelled,    \* threads that kill_workers cancelled
          undefined,    \* a freed element was read or written
          killed        \* kill_workers has run

vars == <<workers, next, prev, allocated, serving, ended, cancelled, undefined, killed>>

Init == /\ workers = NULL
        /\ next = [t \in Threads |-> NULL]
        /\ prev = [t \in Threads |-> NULL]
        /\ allocated = {}
        /\ serving = {}
        /\ ended = {}
        /\ cancelled = {}
        /\ undefined = FALSE
        /\ killed = FALSE

(* The elements that a walk along next visits, which ends at last, or at   *)
(* NULL.                                                                   *)
WalkTo(last) ==
    LET visits[k \in 0 .. Cardinality(Threads)] ==
            IF k = 0 THEN {workers} \ {NULL}
                     ELSE visits[k - 1] \cup ({next[t] : t \in visits[k - 1] \ {last}} \ {NULL})
    IN  visits[Cardinality(Threads)]

Walk == WalkTo(NULL)

Dangling == ~(Walk \subseteq allocated)

Running == ~undefined /\ ~killed

(* An operation that meets a freed element: nothing is known any more.     *)
Undefined == /\ undefined' = TRUE
             /\ UNCHANGED <<workers, next, prev, allocated, serving, ended, cancelled, killed>>

add_worker(t) ==
    /\ Running
    /\ t \notin serving \cup ended
    /\ IF workers \notin allocated \cup {NULL}
         THEN Undefined
         ELSE /\ next' = [next EXCEPT ![t] = workers]
              /\ IF workers = NULL
                   THEN /\ workers' = t
                        /\ prev' = [prev EXCEPT ![t] = NULL]
                   ELSE /\ prev' = [prev EXCEPT ![t] = NULL, ![workers] = t]
                        /\ UNCHANGED workers
              /\ allocated' = allocated \cup {t}
              /\ serving' = serving \cup {t}
              /\ UNCHANGED <<ended, cancelled, undefined, killed>>

(* malloc fails: pthread_exit, and client_cleanup finds no element.        *)
NoMemory(t) ==
    /\ Running
    /\ t \notin serving \cup ended
    /\ IF Dangling
         THEN Undefined
         ELSE /\ ended' = ended \cup {t}
              /\ UNCHANGED <<workers, next, prev, allocated, serving, cancelled, undefined, killed>>

(* What client_cleanup reads on its way to the element of t, and its two   *)
(* neighbours, which it writes.                                            *)
Touched(t) == WalkTo(t) \cup (IF t \in WalkTo(t) THEN {next[t], prev[t]} \ {NULL} ELSE {})

(* Its element is looked for, unlinked and freed, the socket closed.       *)
client_cleanup(t) ==
    /\ Running
    /\ t \in serving
    /\ \/ /\ ~(Touched(t) \subseteq allocated)
          /\ Undefined
       \/ /\ Touched(t) \subseteq allocated
          /\ IF t \in Walk
               THEN /\ prev' = [e \in Threads |-> IF e = next[t] THEN prev[t] ELSE prev[e]]
                    /\ next' = [e \in Threads |-> IF e = prev[t] THEN next[t] ELSE next[e]]
                    /\ workers' = IF prev[t] = NULL THEN next[t] ELSE workers
                    /\ allocated' = allocated \ {t}
               ELSE UNCHANGED <<workers, next, prev, allocated>>
          /\ serving' = serving \ {t}
          /\ ended' = ended \cup {t}
          /\ UNCHANGED <<cancelled, undefined, killed>>

(* SIGTERM: signal_thread calls kill_workers and exits.                    *)
kill_workers ==
    /\ Running
    /\ IF Dangling
         THEN Undefined
         ELSE /\ cancelled' = Walk
              /\ killed' = TRUE
              /\ UNCHANGED <<workers, next, prev, allocated, serving, ended, undefined>>

Next == \/ \E t \in Threads : add_worker(t) \/ NoMemory(t) \/ client_cleanup(t)
        \/ kill_workers

Spec == Init /\ [][Next]_vars

(* "Cancel (kill) all outstanding workers": at SIGTERM every thread that   *)
(* serves a client is cancelled (kill_workers).                            *)
AllCancelled == killed => serving \subseteq cancelled
=============================================================================
