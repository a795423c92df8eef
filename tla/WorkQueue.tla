----------------------------- MODULE WorkQueue -----------------------------
(***************************************************************************)
(* The work queue of c-utils (workqueue.c) with the pipe-based events its  *)
(* workers sleep on (event.c, flush_fd of fdutils.c).  One client thread   *)
(* adds works, requests their cancellation and destroys the queue; each    *)
(* worker thread runs workqueue_factory.                                   *)
(*                                                                         *)
(* A critical section of backlog_lock is one step: nothing else is read or *)
(* written under the lock.  The stores to work->status, worker->state and  *)
(* work->requests, the scan for a free worker and the callbacks run        *)
(* outside it, and are steps of their own.                                 *)
(***************************************************************************)
EXTENDS Integers, Sequences, FiniteSets

CONSTANTS Works,         \* the work_t objects of the client
          num_workers,
          ReadChunk,     \* tokens one read of flush_fd takes (64 / 8 in the code)
          PipeCapacity,  \* tokens a pipe holds before write blocks
          CallSets       \* the kinds of client: which of "cancel", "destroy" and
                         \* "reuse" (add a completed work again) it calls

ASSUME WorksAssumption == Works # {}
ASSUME WorkersAssumption == num_workers \in Nat \ {0}
ASSUME PipeAssumption == /\ ReadChunk \in Nat \ {0}
                         /\ PipeCapacity \in Nat /\ PipeCapacity >= ReadChunk

Workers == 1 .. num_workers
Client == 0
Threads == Workers \cup {Client}

VARIABLES calls,     \* what the client calls, fixed at the start
          wq,        \* how far workqueue_destroy is: "up", "flushed", "unlocked" (the
                     \* lock is destroyed), "closed" (every worker is cancelled),
                     \* "freed"; or "undefined" when a thread used what is no more
          backlog,   \* the queue of works
          status,    \* work -> enum work_status
          requests,  \* the works whose WQ_REQ_CANCEL_WORK bit is set
          state,     \* worker -> its WQ_WORKER_STATE
          event,     \* worker -> tokens in the pipe of its event
          pc,        \* thread -> where it is
          cur,       \* thread -> the work it holds, once it has one
          i,         \* thread -> index of its scan for a free worker
          owed       \* work -> calls of workqueue_add_work minus complete_fn:
                     \* -1 for any number below 0

vars == <<calls, wq, backlog, status, requests, state, event, pc, cur, i, owed>>

OneLess(n) == IF n < 0 THEN n ELSE n - 1

(* There is a lock to take, and there are worker_t to look at.             *)
Lockable == wq \in {"up", "flushed"}
Present == wq \notin {"freed", "undefined"}

(* workqueue_destroy, in iteration i of its loop, is done with worker w:   *)
(* it has cancelled the thread and closed the pipe.                        *)
Ended(w) == wq \in {"closed", "freed"} \/ (wq = "unlocked" /\ w < i[Client])

InBacklog(k) == \E n \in 1 .. Len(backlog) : backlog[n] = k

backlog_count == Len(backlog)

(* What `work` holds where it is assigned before it is read again.         *)
Unused == CHOOSE k \in Works : TRUE

(* After workqueue_create: the threads exist and have not run yet.         *)
Init == /\ calls \in CallSets
        /\ wq = "up"
        /\ backlog = <<>>
        /\ status = [k \in Works |-> "NEW"]
        /\ requests = {}
        /\ state = [w \in Workers |-> "OFFLINE"]
        /\ event = [w \in Workers |-> 0]
        /\ pc = [t \in Threads |-> IF t = Client THEN "client" ELSE "start"]
        /\ cur = [t \in Threads |-> Unused]
        /\ i = [t \in Threads |-> 1]
        /\ owed = [k \in Works |-> 0]

Goto(t, l) == pc' = [pc EXCEPT ![t] = l]

-----------------------------------------------------------------------------
(* put_backlog, called by the client and by a worker whose work yielded.   *)

(* Mutant: a worker that put its work back goes to sleep.                  *)
ReturnAndSleep(t) == IF t = Client THEN "client" ELSE "sleep"

Return(t) == IF t = Client THEN "client" ELSE "get"

Put(t) == /\ pc[t] = "put" /\ Lockable
          /\ backlog' = Append(backlog, cur[t])
          /\ Goto(t, "scan")
          /\ cur' = [cur EXCEPT ![t] = Unused]
          /\ UNCHANGED <<calls, wq, status, requests, state, event, i, owed>>

(* Mutant: the bound of the loop tested too late.                          *)
ScanPastEnd(t) == /\ pc[t] = "scan" /\ Present
                  /\ IF state[i[t]] = "IDLE"
                     THEN Goto(t, "set") /\ UNCHANGED i
                     ELSE IF i[t] <= num_workers
                     THEN i' = [i EXCEPT ![t] = @ + 1] /\ UNCHANGED pc
                     ELSE i' = [i EXCEPT ![t] = 1] /\ Goto(t, Return(t))
                  /\ UNCHANGED <<calls, wq, backlog, status, requests, state, event, cur, owed>>

(* wakeup_first_free_worker: one iteration.                                *)
Scan(t) == /\ pc[t] = "scan" /\ Present
           /\ IF state[i[t]] = "IDLE"
              THEN Goto(t, "set") /\ UNCHANGED i
              ELSE IF i[t] < num_workers
              THEN i' = [i EXCEPT ![t] = @ + 1] /\ UNCHANGED pc
              ELSE i' = [i EXCEPT ![t] = 1] /\ Goto(t, Return(t))
           /\ UNCHANGED <<calls, wq, backlog, status, requests, state, event, cur, owed>>

(* event_set: the write blocks while the pipe is full; of a closed pipe    *)
(* event_set, or the write, says no.                                       *)
EventSet(t) == /\ pc[t] = "set" /\ Present
               /\ \/ Ended(i[t]) /\ UNCHANGED event
                  \/ /\ ~Ended(i[t]) /\ event[i[t]] < PipeCapacity
                     /\ event' = [event EXCEPT ![i[t]] = @ + 1]
               /\ i' = [i EXCEPT ![t] = 1]
               /\ Goto(t, Return(t))
               /\ UNCHANGED <<calls, wq, backlog, status, requests, state, cur, owed>>

-----------------------------------------------------------------------------
(* workqueue_factory, the loop of a worker *)

Start(w) == /\ pc[w] = "start" /\ Present
            /\ state' = [state EXCEPT ![w] = "IDLE"]
            /\ Goto(w, "wait")
            /\ UNCHANGED <<calls, wq, backlog, status, requests, event, cur, i, owed>>

(* event_is_set: flush_fd reads a chunk, and reads again after a full one, *)
(* although the pipe of a worker's event blocks when it is empty.          *)
EventIsSet(w) ==
  /\ pc[w] \in {"wait", "again"} /\ Present /\ ~Ended(w)
  /\ event[w] > 0
  /\ IF event[w] < ReadChunk
     THEN event' = [event EXCEPT ![w] = 0] /\ Goto(w, "awake")
     ELSE event' = [event EXCEPT ![w] = @ - ReadChunk] /\ Goto(w, "again")
  /\ UNCHANGED <<calls, wq, backlog, status, requests, state, cur, i, owed>>

SetRunning(w) == /\ pc[w] = "awake" /\ Present
                 /\ state' = [state EXCEPT ![w] = "RUNNING"]
                 /\ Goto(w, "get")
                 /\ UNCHANGED <<calls, wq, backlog, status, requests, event, cur, i, owed>>

(* Mutant: the head is looked at and not removed.                          *)
PeekBacklog(w) ==
  /\ pc[w] = "get" /\ Lockable
  /\ IF backlog = <<>>
     THEN Goto(w, "sleep") /\ UNCHANGED <<backlog, cur>>
     ELSE /\ cur' = [cur EXCEPT ![w] = Head(backlog)]
          /\ Goto(w, "check")
          /\ UNCHANGED backlog
  /\ UNCHANGED <<calls, wq, status, requests, state, event, i, owed>>

GetBacklog(w) ==
  /\ pc[w] = "get" /\ Lockable
  /\ IF backlog = <<>>
     THEN Goto(w, "sleep") /\ UNCHANGED <<backlog, cur>>
     ELSE /\ cur' = [cur EXCEPT ![w] = Head(backlog)]
          /\ backlog' = Tail(backlog)
          /\ Goto(w, "check")
  /\ UNCHANGED <<calls, wq, status, requests, state, event, i, owed>>

SetIdle(w) == /\ pc[w] = "sleep" /\ Present
              /\ state' = [state EXCEPT ![w] = "IDLE"]
              /\ Goto(w, "wait")
              /\ UNCHANGED <<calls, wq, backlog, status, requests, event, cur, i, owed>>

(* A cancelled work is completed here, and then run all the same.          *)
CheckCancel(w) ==
  /\ pc[w] = "check"
  /\ IF cur[w] \in requests
     THEN status' = [status EXCEPT ![cur[w]] = "COMPLETE"] /\ Goto(w, "early")
     ELSE Goto(w, "begin") /\ UNCHANGED status
  /\ UNCHANGED <<calls, wq, backlog, requests, state, event, cur, i, owed>>

EarlyCallback(w) == /\ pc[w] = "early"
                    /\ owed' = [owed EXCEPT ![cur[w]] = OneLess(@)]
                    /\ Goto(w, "begin")
                    /\ UNCHANGED <<calls, wq, backlog, status, requests, state, event, cur, i>>

Begin(w) == /\ pc[w] = "begin"
            /\ status' = [status EXCEPT ![cur[w]] = "IN_PROGRESS"]
            /\ Goto(w, "work")
            /\ UNCHANGED <<calls, wq, backlog, requests, state, event, cur, i, owed>>

(* Mutant: the cancellation request not looked at after the run.           *)
WorkUncancelled(w) ==
  /\ pc[w] = "work"
  /\ \E rc \in {0, 1} : Goto(w, IF rc <= 0 THEN "complete" ELSE "put")
  /\ UNCHANGED <<calls, wq, backlog, status, requests, state, event, cur, i, owed>>

(* do_work: work_fn returns WORK_DONE or WORK_ERR (0) or WORK_YIELD (1).   *)
DoWork(w) ==
  /\ pc[w] = "work"
  /\ \E rc \in {0, 1} :
       Goto(w, IF rc <= 0 \/ cur[w] \in requests THEN "complete" ELSE "put")
  /\ UNCHANGED <<calls, wq, backlog, status, requests, state, event, cur, i, owed>>

(* complete_work: the status first, then the callback.                     *)
Complete(w) == /\ pc[w] = "complete"
               /\ status' = [status EXCEPT ![cur[w]] = "COMPLETE"]
               /\ Goto(w, "callback")
               /\ UNCHANGED <<calls, wq, backlog, requests, state, event, cur, i, owed>>

(* Mutant: no "else" before the put_backlog that follows complete_work.    *)
CallbackAndPut(w) == /\ pc[w] = "callback"
                     /\ owed' = [owed EXCEPT ![cur[w]] = OneLess(@)]
                     /\ Goto(w, "put")
                     /\ UNCHANGED <<calls, wq, backlog, status, requests, state, event, cur, i>>

Callback(w) == /\ pc[w] = "callback"
               /\ owed' = [owed EXCEPT ![cur[w]] = OneLess(@)]
               /\ Goto(w, "get")
               /\ cur' = [cur EXCEPT ![w] = Unused]
               /\ UNCHANGED <<calls, wq, backlog, status, requests, state, event, i>>

-----------------------------------------------------------------------------
(* The client.  It adds a work that is new, or that                        *)
(* workqueue_work_is_complete says it may reuse (as bus_server.c does).    *)

(* Mutant: the status left as it was.                                      *)
AddWorkStale(k) ==
  /\ pc[Client] = "client" /\ wq = "up"
  /\ status[k] = "NEW" \/ (status[k] = "COMPLETE" /\ "reuse" \in calls)
  /\ requests' = requests \ {k}
  /\ owed' = [owed EXCEPT ![k] = @ + 1]
  /\ cur' = [cur EXCEPT ![Client] = k]
  /\ Goto(Client, "put")
  /\ UNCHANGED <<calls, wq, backlog, status, state, event, i>>

(* workqueue_add_work, up to its call of put_backlog.                      *)
AddWork(k) ==
  /\ pc[Client] = "client" /\ wq = "up"
  /\ status[k] = "NEW" \/ (status[k] = "COMPLETE" /\ "reuse" \in calls)
  /\ requests' = requests \ {k}
  /\ status' = [status EXCEPT ![k] = "QUEUED"]
  /\ owed' = [owed EXCEPT ![k] = @ + 1]
  /\ cur' = [cur EXCEPT ![Client] = k]
  /\ Goto(Client, "put")
  /\ UNCHANGED <<calls, wq, backlog, state, event, i>>

(* workqueue_cancel_work: of any work, whatever its status.                *)
CancelWork(k) ==
  /\ "cancel" \in calls
  /\ pc[Client] = "client" /\ wq = "up"
  /\ requests' = requests \cup {k}
  /\ UNCHANGED <<calls, wq, backlog, status, state, event, pc, cur, i, owed>>

(* workqueue_destroy: flush_backlog, which lets go of the lock; then the   *)
(* lock; then each worker in turn; then their memory.  Meanwhile the       *)
(* workers go on.                                                          *)
DestroyFlush ==
  /\ "destroy" \in calls
  /\ pc[Client] = "client" /\ wq = "up"
  /\ status' = [k \in Works |-> IF InBacklog(k) THEN "COMPLETE" ELSE status[k]]
  /\ backlog' = <<>>
  /\ wq' = "flushed"
  /\ UNCHANGED <<calls, requests, state, event, pc, cur, i, owed>>

DestroyLock ==
  /\ wq = "flushed"
  /\ wq' = "unlocked"
  /\ UNCHANGED <<calls, backlog, status, requests, state, event, pc, cur, i, owed>>

DestroyWorker ==
  /\ wq = "unlocked"
  /\ IF i[Client] < num_workers
     THEN i' = [i EXCEPT ![Client] = @ + 1] /\ UNCHANGED wq
     ELSE i' = [i EXCEPT ![Client] = 1] /\ wq' = "closed"
  /\ UNCHANGED <<calls, backlog, status, requests, state, event, pc, cur, owed>>

DestroyFree ==
  /\ wq = "closed"
  /\ wq' = "freed"
  /\ UNCHANGED <<calls, backlog, status, requests, state, event, pc, cur, i, owed>>

(* pthread_cancel takes effect in the read of event_is_set, in the write   *)
(* of event_set, or in a blocking call of work_fn or complete_fn.  Nothing *)
(* joins the thread.                                                       *)
Cancelled(w) == /\ Ended(w)
                /\ pc[w] \in {"wait", "again", "set", "work", "early", "callback"}
                /\ Goto(w, "dead")
                /\ UNCHANGED <<calls, wq, backlog, status, requests, state, event, cur, i, owed>>

(* A worker that nothing joins takes the lock that was destroyed, or looks *)
(* at a worker_t that was freed: from here on anything may happen to the   *)
(* queue, and no thread uses it any more in this model.                    *)
Undefined(w) == /\ \/ pc[w] \in {"put", "get"} /\ wq \in {"unlocked", "closed", "freed"}
                   \/ pc[w] \in {"start", "wait", "awake", "sleep", "scan", "set"} /\ wq = "freed"
                /\ wq' = "undefined"
                /\ UNCHANGED <<calls, backlog, status, requests, state, event, pc, cur, i, owed>>

-----------------------------------------------------------------------------
WorkerStep(w) == \/ Start(w) \/ EventIsSet(w) \/ SetRunning(w) \/ GetBacklog(w)
                 \/ SetIdle(w) \/ CheckCancel(w) \/ EarlyCallback(w) \/ Begin(w)
                 \/ DoWork(w) \/ Complete(w) \/ Callback(w) \/ Cancelled(w)
                 \/ Undefined(w)

PutStep(t) == Put(t) \/ Scan(t) \/ EventSet(t)

ClientCall == \/ \E k \in Works : AddWork(k) \/ CancelWork(k)
              \/ DestroyFlush

DestroyStep == DestroyLock \/ DestroyWorker \/ DestroyFree

Next == \/ \E w \in Workers : WorkerStep(w)
        \/ \E t \in Threads : PutStep(t)
        \/ ClientCall
        \/ DestroyStep

Spec == Init /\ [][Next]_vars

(* Every thread that can run does: each is an operating system thread, and *)
(* a work's function returns.                                              *)
Fairness == /\ \A w \in Workers : WF_vars(WorkerStep(w))
            /\ \A t \in Threads : WF_vars(PutStep(t))

FairSpec == Spec /\ Fairness

-----------------------------------------------------------------------------
Statuses == {"NEW", "QUEUED", "IN_PROGRESS", "COMPLETE"}

(* The type of every variable.                                             *)
TypeOK == /\ calls \in CallSets
          /\ wq \in {"up", "flushed", "unlocked", "closed", "freed", "undefined"}
          /\ backlog \in Seq(Works)
          /\ status \in [Works -> Statuses]
          /\ requests \subseteq Works
          /\ state \in [Workers -> {"OFFLINE", "IDLE", "RUNNING"}]
          /\ event \in [Workers -> 0 .. PipeCapacity]
          /\ pc \in [Threads -> {"client", "put", "scan", "set", "start", "wait", "again",
                                 "awake", "get", "sleep", "check", "early", "begin",
                                 "work", "complete", "callback", "dead"}]
          /\ cur \in [Threads -> Works]
          /\ i \in [Threads -> Workers]
          /\ owed \in [Works -> Int]

(* A client that calls workqueue_cancel_work meets the fall-through of     *)
(* CheckCancel; what is promised to the others says so.                    *)
NoCancel == "cancel" \notin calls

Defined == wq # "undefined"

(* A thread between taking a work and giving it up for good.               *)
Holds(t, k) == pc[t] \in {"put", "check", "early", "begin", "work", "complete"} /\ cur[t] = k

InOnePlace ==
  /\ \A k \in Works, t, u \in Threads : Holds(t, k) /\ Holds(u, k) => t = u
  /\ \A k \in Works, t \in Threads : Holds(t, k) => ~InBacklog(k)
  /\ \A m, n \in 1 .. Len(backlog) : backlog[m] = backlog[n] => m = n

(* A work is in one place: at most one thread holds it, not while it is in *)
(* the backlog, where it is linked once (its list node is embedded in it). *)
(* So it is for a client that cancels, and for one that adds a completed   *)
(* work again, until the destroyed queue is used.  For one that does both  *)
(* it is not: workqueue_factory reports a cancelled work complete, and     *)
(* while the client adds it again goes on to run it and put it back.       *)
OneOwner == Defined /\ (NoCancel \/ "reuse" \notin calls) => InOnePlace

(* workqueue_work_is_complete answers true only when work_fn is neither    *)
(* running nor going to run, so that a caller that never cancels may add   *)
(* the work again; complete_work may still be about to call complete_fn.   *)
CompleteMeansQuiet ==
  Defined /\ NoCancel => \A k \in Works : status[k] = "COMPLETE" =>
                ~InBacklog(k) /\ \A t \in Threads : ~Holds(t, k)

(* complete_fn is called at most once for a workqueue_add_work, even when  *)
(* the client reuses the work before the callback has run (and as long as  *)
(* it cancels nothing).                                                    *)
CompletedOnce == Defined /\ NoCancel => \A k \in Works : owed[k] >= 0

(* "Request to cancel a queued work": workqueue_factory completes a work   *)
(* whose cancellation was requested while it was queued; work_fn is not    *)
(* called for a work that has been completed and not added again.          *)
CancelledNotRun ==
  \A w \in Workers : pc[w] = "work" => owed[cur[w]] > 0

(* "next free worker thread will pick it up": an added work is run.        *)
AddedIsRun == \A k \in Works : status[k] = "QUEUED" ~> status[k] # "QUEUED"

(* A work that has yielded is run again: the worker that puts it back goes *)
(* on until it has seen an empty backlog, whoever it woke up.  Not so once *)
(* workqueue_destroy has begun: a work put back after flush_backlog stays  *)
(* there when the worker is cancelled.                                     *)
YieldedRunsAgain ==
  \A k \in Works : (status[k] = "IN_PROGRESS" /\ InBacklog(k)) ~> (~InBacklog(k) \/ wq # "up")

(* A cancellation requested once the work has started ends it for good,    *)
(* even if its function would go on yielding for ever, and though a worker *)
(* that takes it from the backlog completes it and then runs it again.     *)
CancelEnds ==
  \A k \in Works :
    (status[k] = "IN_PROGRESS" /\ k \in requests) ~> [](status[k] = "COMPLETE")
=============================================================================
