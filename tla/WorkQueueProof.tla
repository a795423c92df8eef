-------------------------- MODULE WorkQueueProof ---------------------------
(***************************************************************************)
(* Proofs about WorkQueue for any number of workers and any set of works.  *)
(***************************************************************************)
EXTENDS WorkQueue, SequenceTheorems, FiniteSetTheorems, TLAPS

(* Appending and removing the head, element by element.                    *)
LEMMA AppendElements ==
  ASSUME NEW S, NEW s \in Seq(S), NEW e \in S
  PROVE  /\ Append(s, e) \in Seq(S)
         /\ Len(Append(s, e)) = Len(s) + 1
         /\ \A n \in 1 .. Len(s) : Append(s, e)[n] = s[n]
         /\ Append(s, e)[Len(s) + 1] = e
BY AppendProperties

(* The elements queue_dequeue leaves behind.                               *)
LEMMA TailElements ==
  ASSUME NEW S, NEW s \in Seq(S), s # <<>>
  PROVE  /\ Len(s) \in Nat \ {0}
         /\ Head(s) \in S
         /\ Head(s) = s[1]
         /\ Tail(s) \in Seq(S)
         /\ Len(Tail(s)) = Len(s) - 1
         /\ \A n \in 1 .. Len(s) - 1 : Tail(s)[n] = s[n + 1]
BY HeadTailProperties, EmptySeq

(* The client is none of the worker threads.                               *)
LEMMA ThreadSets ==
  /\ Workers \subseteq Threads /\ Client \in Threads /\ Client \notin Workers
  /\ \A t \in Threads : t # Client => t \in Workers
  /\ 1 \in Workers
BY WorkersAssumption DEF Workers, Threads, Client

(* The arithmetic of the scan index and of the pipes.                      *)
LEMMA Arithmetic ==
  /\ \A n \in Workers : n < num_workers => n + 1 \in Workers
  /\ \A n \in 0 .. PipeCapacity : n < PipeCapacity => n + 1 \in 0 .. PipeCapacity
  /\ \A n \in 0 .. PipeCapacity : ~(n < ReadChunk) => n - ReadChunk \in 0 .. PipeCapacity
  /\ 0 \in 0 .. PipeCapacity
BY WorkersAssumption, PipeAssumption DEF Workers

(* The value of a dead variable is a work like any other.                  *)
LEMMA UnusedWork == Unused \in Works
BY WorksAssumption, Zenon DEF Unused

(* Every step, cancellation and destruction included, keeps the types.     *)
LEMMA TypeStep == TypeOK /\ [Next]_vars => TypeOK'
<1> SUFFICES ASSUME TypeOK, [Next]_vars PROVE TypeOK'
  OBVIOUS
<1> USE ThreadSets, PipeAssumption DEF TypeOK, Goto
<1>1. ASSUME NEW t \in Threads, Put(t) PROVE TypeOK'
  <2>1. Append(backlog, cur[t]) \in Seq(Works)
    BY AppendElements
  <2> QED
    BY <1>1, <2>1, UnusedWork, Zenon DEF Put
<1>2. ASSUME NEW t \in Threads, Scan(t) PROVE TypeOK'
  <2>0. i[t] \in Workers
    OBVIOUS
  <2>1. i[t] < num_workers => i[t] + 1 \in Workers
    BY <2>0, Arithmetic
  <2>2. i' \in [Threads -> Workers]
    BY <1>2, <2>1, Zenon DEF Scan
  <2> QED
    BY <1>2, <2>2, Zenon DEF Scan, Return
<1>3. ASSUME NEW t \in Threads, EventSet(t) PROVE TypeOK'
  <2>0. event[i[t]] \in 0 .. PipeCapacity
    OBVIOUS
  <2>1. event[i[t]] < PipeCapacity => event[i[t]] + 1 \in 0 .. PipeCapacity
    BY <2>0, Arithmetic, Zenon
  <2>2. event' \in [Workers -> 0 .. PipeCapacity]
    BY <1>3, <2>1, Zenon DEF EventSet
  <2> QED
    BY <1>3, <2>2, Zenon DEF EventSet, Return
<1>4. ASSUME NEW w \in Workers, Start(w) PROVE TypeOK'
  BY <1>4, Zenon DEF Start
<1>5. ASSUME NEW w \in Workers, EventIsSet(w) PROVE TypeOK'
  <2>0. event[w] \in 0 .. PipeCapacity
    OBVIOUS
  <2>1. /\ 0 \in 0 .. PipeCapacity
        /\ ~(event[w] < ReadChunk) => event[w] - ReadChunk \in 0 .. PipeCapacity
    BY <2>0, Arithmetic, Zenon
  <2>2. event' \in [Workers -> 0 .. PipeCapacity]
    BY <1>5, <2>1, Zenon DEF EventIsSet
  <2> QED
    BY <1>5, <2>2, Zenon DEF EventIsSet
<1>6. ASSUME NEW w \in Workers, SetRunning(w) PROVE TypeOK'
  BY <1>6, Zenon DEF SetRunning
<1>7. ASSUME NEW w \in Workers, GetBacklog(w) PROVE TypeOK'
  <2>1. CASE backlog = <<>>
    BY <1>7, <2>1, Zenon DEF GetBacklog
  <2>2. CASE backlog # <<>>
    <3>1. Head(backlog) \in Works /\ Tail(backlog) \in Seq(Works)
      BY <2>2, TailElements
    <3>2. backlog' = Tail(backlog) /\ cur' = [cur EXCEPT ![w] = Head(backlog)]
      BY <1>7, <2>2, Zenon DEF GetBacklog
    <3>3. cur' \in [Threads -> Works]
      BY <3>1, <3>2
    <3>4. pc' = [pc EXCEPT ![w] = "check"]
      BY <1>7, <2>2 DEF GetBacklog
    <3>5. UNCHANGED <<calls, wq, status, requests, state, event, i, owed>>
      BY <1>7 DEF GetBacklog
    <3> QED
      BY <3>1, <3>2, <3>3, <3>4, <3>5, Zenon
  <2> QED
    BY <2>1, <2>2, Zenon
<1>8. ASSUME NEW w \in Workers, SetIdle(w) PROVE TypeOK'
  BY <1>8, Zenon DEF SetIdle
<1>9. ASSUME NEW w \in Workers, CheckCancel(w) PROVE TypeOK'
  BY <1>9, Zenon DEF CheckCancel, Statuses
<1>10. ASSUME NEW w \in Workers, EarlyCallback(w) PROVE TypeOK'
  <2>1. OneLess(owed[cur[w]]) \in Int
    BY DEF OneLess
  <2>2. owed' \in [Works -> Int]
    BY <1>10, <2>1 DEF EarlyCallback
  <2> QED
    BY <1>10, <2>2, Zenon DEF EarlyCallback
<1>11. ASSUME NEW w \in Workers, Begin(w) PROVE TypeOK'
  BY <1>11, Zenon DEF Begin, Statuses
<1>12. ASSUME NEW w \in Workers, DoWork(w) PROVE TypeOK'
  BY <1>12, Zenon DEF DoWork
<1>13. ASSUME NEW w \in Workers, Complete(w) PROVE TypeOK'
  BY <1>13, Zenon DEF Complete, Statuses
<1>14. ASSUME NEW w \in Workers, Callback(w) PROVE TypeOK'
  <2>1. OneLess(owed[cur[w]]) \in Int
    BY DEF OneLess
  <2>2. owed' \in [Works -> Int]
    BY <1>14, <2>1 DEF Callback
  <2> QED
    BY <1>14, <2>2, UnusedWork, Zenon DEF Callback
<1>15. ASSUME NEW w \in Workers, Cancelled(w) \/ Undefined(w) PROVE TypeOK'
  BY <1>15, Zenon DEF Cancelled, Undefined
<1>16. ASSUME NEW k \in Works, AddWork(k) PROVE TypeOK'
  <2>1. owed[k] + 1 \in Int
    OBVIOUS
  <2>2. owed' \in [Works -> Int]
    BY <1>16, <2>1 DEF AddWork
  <2> QED
    BY <1>16, <2>2, Zenon DEF AddWork, Statuses
<1>17. ASSUME NEW k \in Works, CancelWork(k) PROVE TypeOK'
  BY <1>17, Zenon DEF CancelWork
<1>18. CASE DestroyFlush
  <2>1. status' \in [Works -> Statuses]
    BY <1>18 DEF DestroyFlush, Statuses
  <2>2. backlog' \in Seq(Works)
    BY <1>18 DEF DestroyFlush
  <2> QED
    BY <1>18, <2>1, <2>2, Zenon DEF DestroyFlush
<1>19. CASE DestroyStep
  <2>1. CASE DestroyWorker
    <3>1. i[Client] \in Workers
      OBVIOUS
    <3>2. i[Client] < num_workers => i[Client] + 1 \in Workers
      BY <3>1, Arithmetic, Zenon
    <3>3. i' \in [Threads -> Workers]
      BY <2>1, <3>2, Zenon DEF DestroyWorker
    <3> QED
      BY <2>1, <3>3, Zenon DEF DestroyWorker
  <2> QED
    BY <1>19, <2>1, Zenon DEF DestroyStep, DestroyLock, DestroyFree
<1>20. CASE UNCHANGED vars
  BY <1>20, Zenon DEF vars
<1> QED
  BY <1>1, <1>2, <1>3, <1>4, <1>5, <1>6, <1>7, <1>8, <1>9, <1>10, <1>11, <1>12, <1>13,
     <1>14, <1>15, <1>16, <1>17, <1>18, <1>19, <1>20, Zenon
     DEF Next, WorkerStep, PutStep, ClientCall

(* workqueue_create starts in a state of the right types.                  *)
LEMMA TypeInit == Init => TypeOK
BY WorkersAssumption, PipeAssumption, EmptySeq, UnusedWork
   DEF Init, TypeOK, Statuses, Threads, Workers, Client

(* Types, under every call of the client: a scan never leaves the array of *)
(* workers and a pipe never holds more than it can.                        *)
THEOREM TypeCorrect == Spec => []TypeOK
BY TypeInit, TypeStep, PTL DEF Spec

-----------------------------------------------------------------------------
(* What the client calls does not change.                                  *)
LEMMA CallsFixed == [Next]_vars => UNCHANGED calls
<1> SUFFICES ASSUME [Next]_vars PROVE UNCHANGED calls
  BY Zenon
<1>1. ASSUME NEW w \in Workers, WorkerStep(w) PROVE UNCHANGED calls
  BY <1>1 DEF WorkerStep, Start, EventIsSet, SetRunning, GetBacklog, SetIdle, CheckCancel,
     EarlyCallback, Begin, DoWork, Complete, Callback, Cancelled, Undefined
<1>2. ASSUME NEW t \in Threads, PutStep(t) PROVE UNCHANGED calls
  BY <1>2 DEF PutStep, Put, Scan, EventSet
<1>3. CASE ClientCall \/ DestroyStep
  BY <1>3 DEF ClientCall, AddWork, CancelWork, DestroyFlush, DestroyStep, DestroyLock,
     DestroyWorker, DestroyFree
<1>4. CASE UNCHANGED vars
  BY <1>4 DEF vars
<1> QED
  BY <1>1, <1>2, <1>3, <1>4 DEF Next

(* Ownership of a work, for a client that does not both cancel works and   *)
(* add them again.  A work is handed over through the backlog, and its     *)
(* status tells the client when nobody has it any more; once a cancelled   *)
(* work is called complete too early, only NEW tells as much.              *)
Careful == NoCancel \/ "reuse" \notin calls

Idle(k) == ~InBacklog(k) /\ \A t \in Threads : ~Holds(t, k)

Free(k) == status[k] = "NEW" \/ (NoCancel /\ status[k] = "COMPLETE")

Uncancelled == requests = {} /\ \A t \in Threads : pc[t] # "early"

OwnInv == /\ TypeOK
          /\ InOnePlace
          /\ \A k \in Works : Free(k) => Idle(k)
          /\ NoCancel => Uncancelled

(* A step that moves no work keeps the ownership.                          *)
LEMMA NothingMoved ==
  ASSUME OwnInv, TypeOK', UNCHANGED backlog,
         \A k \in Works, t \in Threads : Holds(t, k)' => Holds(t, k),
         \A k \in Works : Free(k)' => Free(k),
         NoCancel' => Uncancelled'
  PROVE  OwnInv'
<1>1. \A k \in Works : InBacklog(k)' <=> InBacklog(k)
  BY DEF InBacklog
<1>2. InOnePlace'
  BY <1>1 DEF OwnInv, InOnePlace
<1>3. \A k \in Works : Idle(k) => Idle(k)'
  BY <1>1 DEF Idle
<1> QED
  BY <1>2, <1>3 DEF OwnInv

(* Every step keeps each work in one place: the backlog, one worker, the   *)
(* client adding it, or nowhere.                                           *)
LEMMA OwnStep ==
  ASSUME Careful, OwnInv, [Next]_vars
  PROVE  OwnInv'
<1> USE ThreadSets
<1>0. TypeOK /\ TypeOK' /\ (NoCancel' <=> NoCancel)
  BY TypeStep, CallsFixed DEF OwnInv, NoCancel
<1>1. ASSUME NEW t \in Threads, Put(t) PROVE OwnInv'
  <2>1. /\ backlog' = Append(backlog, cur[t]) /\ cur[t] \in Works
        /\ Holds(t, cur[t])
    BY <1>0, <1>1 DEF Put, Holds, TypeOK
  <2>2. /\ Len(backlog) \in Nat
        /\ Len(backlog') = Len(backlog) + 1
        /\ \A n \in 1 .. Len(backlog) : backlog'[n] = backlog[n]
        /\ backlog'[Len(backlog) + 1] = cur[t]
    <3>1. backlog \in Seq(Works)
      BY <1>0 DEF TypeOK
    <3> QED
      BY <2>1, <3>1, AppendElements, LenProperties
  <2>3. \A k \in Works : InBacklog(k)' <=> InBacklog(k) \/ k = cur[t]
    BY <2>2 DEF InBacklog
  <2>4. ~InBacklog(cur[t])
    BY <2>1 DEF OwnInv, InOnePlace
  <2>5. \A u \in Threads, k \in Works : Holds(u, k)' <=> u # t /\ Holds(u, k)
    BY <1>0, <1>1 DEF Put, Holds, Goto, TypeOK
  <2>6. InOnePlace'
    <3>1. \A m, n \in 1 .. Len(backlog') : backlog'[m] = backlog'[n] => m = n
      <4>1. \A m, n \in 1 .. Len(backlog) : backlog[m] = backlog[n] => m = n
        BY DEF OwnInv, InOnePlace
      <4>2. \A n \in 1 .. Len(backlog) : backlog[n] # cur[t]
        BY <2>4 DEF InBacklog
      <4>3. \A n \in 1 .. Len(backlog') : n \in 1 .. Len(backlog) \/ n = Len(backlog) + 1
        BY <2>2
      <4> QED
        BY <2>2, <4>1, <4>2, <4>3
    <3>2. \A k \in Works, u \in Threads : Holds(u, k)' => ~InBacklog(k)'
      <4>1. \A k \in Works, u, v \in Threads : Holds(u, k) /\ Holds(v, k) => u = v
        BY DEF OwnInv, InOnePlace
      <4>2. \A k \in Works, u \in Threads : Holds(u, k) => ~InBacklog(k)
        BY DEF OwnInv, InOnePlace
      <4> QED
        BY <2>1, <2>3, <2>5, <4>1, <4>2
    <3>3. \A k \in Works, u, v \in Threads : Holds(u, k)' /\ Holds(v, k)' => u = v
      BY <2>5 DEF OwnInv, InOnePlace
    <3> QED
      BY <3>1, <3>2, <3>3 DEF InOnePlace
  <2>7. ASSUME NEW k \in Works, Free(k)' PROVE Idle(k)'
    <3>1. Idle(k)
      BY <1>0, <1>1, <2>7, Zenon DEF Put, OwnInv, Free
    <3>2. k # cur[t]
      BY <2>1, <3>1 DEF Idle
    <3> QED
      BY <2>3, <2>5, <3>1, <3>2 DEF Idle
  <2>8. NoCancel' => Uncancelled'
    BY <1>0, <1>1 DEF Put, Goto, OwnInv, Uncancelled, TypeOK
  <2> QED
    BY <1>0, <2>6, <2>7, <2>8 DEF OwnInv
<1>2. ASSUME NEW t \in Threads, Scan(t) \/ EventSet(t) PROVE OwnInv'
  <2>1. UNCHANGED <<backlog, requests, status>>
    BY <1>2 DEF Scan, EventSet
  <2>2. UNCHANGED cur
    BY <1>2 DEF Scan, EventSet
  <2>3. Return(t) \in {"client", "get"}
    BY DEF Return
  <2>4. pc' = pc \/ \E l \in {"set", "client", "get"} : pc' = [pc EXCEPT ![t] = l]
    BY <1>2, <2>3 DEF Scan, EventSet, Goto
  <2>5. \A u \in Threads : pc'[u] = pc[u] \/ pc'[u] \in {"set", "client", "get"}
    BY <1>0, <2>4, Zenon DEF TypeOK
  <2>6. \A k \in Works, u \in Threads : Holds(u, k)' => Holds(u, k)
    BY <2>2, <2>5 DEF Holds
  <2>7. NoCancel' => Uncancelled'
    BY <1>0, <2>1, <2>5 DEF OwnInv, Uncancelled
  <2>8. \A k \in Works : Free(k)' => Free(k)
    BY <1>0, <2>1, Zenon DEF Free
  <2> QED
    BY <1>0, <2>1, <2>6, <2>7, <2>8, NothingMoved
<1>3. ASSUME NEW w \in Workers,
             Start(w) \/ EventIsSet(w) \/ SetRunning(w) \/ SetIdle(w) \/ Callback(w) \/ Cancelled(w)
      PROVE  OwnInv'
  <2>1. UNCHANGED <<backlog, requests, status>> /\ \A u \in Threads \ {w} : cur'[u] = cur[u]
    BY <1>0, <1>3, Zenon DEF Start, EventIsSet, SetRunning, SetIdle, Callback, Cancelled, TypeOK
  <2>2. \E l \in {"wait", "awake", "again", "get", "dead"} : pc' = [pc EXCEPT ![w] = l]
    BY <1>3 DEF Start, EventIsSet, SetRunning, SetIdle, Callback, Cancelled, Goto
  <2>3. /\ pc'[w] \in {"wait", "awake", "again", "get", "dead"}
        /\ \A u \in Threads \ {w} : pc'[u] = pc[u]
    BY <1>0, <2>2 DEF TypeOK
  <2>4. \A k \in Works, u \in Threads : Holds(u, k)' => Holds(u, k)
    BY <2>1, <2>3 DEF Holds
  <2>5. NoCancel' => Uncancelled'
    BY <1>0, <2>1, <2>3 DEF OwnInv, Uncancelled
  <2>6. \A k \in Works : Free(k)' => Free(k)
    BY <1>0, <2>1, Zenon DEF Free
  <2> QED
    BY <1>0, <2>1, <2>4, <2>5, <2>6, NothingMoved
<1>4. ASSUME NEW w \in Workers, GetBacklog(w) PROVE OwnInv'
  <2>1. CASE backlog = <<>>
    <3>1. /\ UNCHANGED <<backlog, cur, status, requests>>
          /\ pc'[w] = "sleep" /\ \A u \in Threads \ {w} : pc'[u] = pc[u]
      BY <1>0, <1>4, <2>1 DEF GetBacklog, Goto, TypeOK
    <3>2. \A k \in Works, u \in Threads : Holds(u, k)' => Holds(u, k)
      BY <3>1 DEF Holds
    <3>3. NoCancel' => Uncancelled'
      BY <1>0, <3>1 DEF OwnInv, Uncancelled
    <3>4. \A k \in Works : Free(k)' => Free(k)
      BY <1>0, <3>1, Zenon DEF Free
    <3> QED
      BY <1>0, <3>1, <3>2, <3>3, <3>4, NothingMoved
  <2>2. CASE backlog # <<>>
    <3> DEFINE h == Head(backlog)
    <3>1. /\ Len(backlog) \in Nat \ {0}
          /\ h = backlog[1] /\ h \in Works
          /\ backlog' = Tail(backlog)
          /\ Len(backlog') = Len(backlog) - 1
          /\ \A n \in 1 .. Len(backlog) - 1 : backlog'[n] = backlog[n + 1]
      <4>1. backlog \in Seq(Works) /\ backlog' = Tail(backlog)
        BY <1>0, <1>4, <2>2 DEF GetBacklog, TypeOK
      <4> QED
        BY <2>2, <4>1, TailElements
    <3> HIDE DEF h
    <3>2. InBacklog(h)
      BY <3>1 DEF InBacklog
    <3>3. \A k \in Works : InBacklog(k)' => InBacklog(k) /\ k # h
      BY <3>1 DEF InBacklog, OwnInv, InOnePlace
    <3>4. \A u \in Threads, k \in Works : Holds(u, k)' => Holds(u, k) \/ (u = w /\ k = h)
      BY <1>0, <1>4, <2>2, ZenonT(30) DEF GetBacklog, Holds, Goto, TypeOK, h
    <3>5. \A m, n \in 1 .. Len(backlog') : backlog'[m] = backlog'[n] => m = n
      <4>1. \A m, n \in 1 .. Len(backlog) : backlog[m] = backlog[n] => m = n
        BY DEF OwnInv, InOnePlace
      <4>2. \A n \in 1 .. Len(backlog') :
              n + 1 \in 1 .. Len(backlog) /\ backlog'[n] = backlog[n + 1]
        BY <3>1
      <4>3. \A m, n \in 1 .. Len(backlog') : m + 1 = n + 1 => m = n
        OBVIOUS
      <4> QED
        BY <4>1, <4>2, <4>3
    <3>6. InOnePlace'
      BY <3>2, <3>3, <3>4, <3>5 DEF OwnInv, InOnePlace
    <3>7. ASSUME NEW k \in Works, Free(k)' PROVE Idle(k)'
      <4>1. Idle(k)
        BY <1>0, <1>4, <3>7, Zenon DEF GetBacklog, OwnInv, Free
      <4>2. k # h
        BY <3>2, <4>1 DEF Idle
      <4> QED
        BY <3>3, <3>4, <4>1, <4>2 DEF Idle
    <3>8. NoCancel' => Uncancelled'
      BY <1>0, <1>4, <2>2 DEF GetBacklog, Goto, OwnInv, Uncancelled, TypeOK
    <3> QED
      BY <1>0, <3>6, <3>7, <3>8 DEF OwnInv
  <2> QED
    BY <2>1, <2>2, Zenon
<1>5. ASSUME NEW w \in Workers,
             CheckCancel(w) \/ EarlyCallback(w) \/ Begin(w) \/ DoWork(w)
      PROVE  OwnInv'
  <2>1. UNCHANGED <<backlog, requests, cur>> /\ pc[w] \in {"check", "early", "begin", "work"}
    BY <1>5 DEF CheckCancel, EarlyCallback, Begin, DoWork
  <2>2. \E l \in {"early", "begin", "work", "complete", "put"} : pc' = [pc EXCEPT ![w] = l]
    BY <1>5 DEF CheckCancel, EarlyCallback, Begin, DoWork, Goto
  <2>3. \A k \in Works, u \in Threads : Holds(u, k)' => Holds(u, k)
    BY <1>0, <2>1, <2>2, Zenon DEF Holds, TypeOK
  <2>4. requests = {} => pc' # [pc EXCEPT ![w] = "early"]
    BY <1>0, <1>5 DEF CheckCancel, EarlyCallback, Begin, DoWork, Goto, TypeOK
  <2>5. NoCancel' => Uncancelled'
    BY <1>0, <2>1, <2>2, <2>4 DEF OwnInv, Uncancelled, TypeOK
  <2>6. \A k \in Works : \/ status'[k] = status[k] \/ status'[k] = "IN_PROGRESS"
                        \/ (status'[k] = "COMPLETE" /\ requests # {})
    <3>1. \/ UNCHANGED status
          \/ status' = [status EXCEPT ![cur[w]] = "IN_PROGRESS"]
          \/ status' = [status EXCEPT ![cur[w]] = "COMPLETE"] /\ requests # {}
      BY <1>5 DEF CheckCancel, EarlyCallback, Begin, DoWork
    <3> QED
      BY <1>0, <3>1 DEF TypeOK
  <2>7. \A k \in Works : Free(k)' => Free(k)
    BY <1>0, <2>6 DEF Free, OwnInv, Uncancelled
  <2> QED
    BY <1>0, <2>1, <2>3, <2>5, <2>7, NothingMoved
<1>6. ASSUME NEW w \in Workers, Undefined(w) PROVE OwnInv'
  <2>1. UNCHANGED <<backlog, status, requests, pc, cur>>
    BY <1>6 DEF Undefined
  <2> QED
    BY <1>0, <2>1, NothingMoved DEF Holds, OwnInv, Free, Uncancelled
<1>7. ASSUME NEW w \in Workers, Complete(w) PROVE OwnInv'
  <2>1. Holds(w, cur[w]) /\ cur[w] \in Works
    BY <1>0, <1>7 DEF Complete, Holds, TypeOK
  <2>2. \A k \in Works : InBacklog(k)' <=> InBacklog(k)
    BY <1>7 DEF Complete, InBacklog
  <2>3. \A u \in Threads, k \in Works : Holds(u, k)' <=> u # w /\ Holds(u, k)
    BY <1>0, <1>7 DEF Complete, Holds, Goto, TypeOK
  <2>4. InOnePlace'
    BY <1>7, <2>2, <2>3, Zenon DEF OwnInv, InOnePlace, Complete
  <2>5. \A k \in Works : k = cur[w] => Idle(k)'
    BY <2>1, <2>2, <2>3 DEF Idle, OwnInv, InOnePlace
  <2>6. \A k \in Works : k # cur[w] => status'[k] = status[k]
    BY <1>0, <1>7 DEF Complete, TypeOK
  <2>7. ASSUME NEW k \in Works, Free(k)' PROVE Idle(k)'
    <3>1. k # cur[w] => Free(k)
      BY <1>0, <2>6, <2>7, Zenon DEF Free
    <3> QED
      BY <2>2, <2>3, <2>5, <3>1 DEF Idle, OwnInv
  <2>8. NoCancel' => Uncancelled'
    BY <1>0, <1>7 DEF Complete, Goto, OwnInv, Uncancelled, TypeOK
  <2> QED
    BY <1>0, <2>4, <2>7, <2>8 DEF OwnInv
<1>8. ASSUME NEW k \in Works, AddWork(k) PROVE OwnInv'
  <2>1. Idle(k)
    BY <1>8, Zenon DEF AddWork, OwnInv, Free, Careful
  <2>2. \A j \in Works : InBacklog(j)' <=> InBacklog(j)
    BY <1>8 DEF AddWork, InBacklog
  <2>3. \A u \in Threads, j \in Works : Holds(u, j)' => Holds(u, j) \/ (u = Client /\ j = k)
    <3>1. \A u \in Threads \ {Client} : pc'[u] = pc[u] /\ cur'[u] = cur[u]
      BY <1>0, <1>8 DEF AddWork, Goto, TypeOK
    <3>2. cur'[Client] = k
      BY <1>0, <1>8 DEF AddWork, TypeOK
    <3> QED
      BY <3>1, <3>2 DEF Holds
  <2>4. InOnePlace'
    <3>1. UNCHANGED backlog
      BY <1>8 DEF AddWork
    <3>2. \A j \in Works, u \in Threads : Holds(u, j)' => ~InBacklog(j)'
      BY <2>1, <2>2, <2>3, Zenon DEF OwnInv, InOnePlace, Idle
    <3>3. \A j \in Works, u, v \in Threads : Holds(u, j)' /\ Holds(v, j)' => u = v
      <4>1. \A j \in Works, u, v \in Threads : Holds(u, j) /\ Holds(v, j) => u = v
        BY DEF OwnInv, InOnePlace
      <4>2. \A u \in Threads : ~Holds(u, k)
        BY <2>1 DEF Idle
      <4> QED
        BY <2>3, <4>1, <4>2
    <3>4. \A m, n \in 1 .. Len(backlog') : backlog'[m] = backlog'[n] => m = n
      BY <3>1 DEF OwnInv, InOnePlace
    <3> QED
      BY <3>2, <3>3, <3>4, Zenon DEF InOnePlace
  <2>5. \A j \in Works : status'[j] = IF j = k THEN "QUEUED" ELSE status[j]
    BY <1>0, <1>8, Zenon DEF AddWork, TypeOK
  <2>6. ASSUME NEW j \in Works, Free(j)' PROVE Idle(j)'
    <3>1. j # k /\ Free(j)
      BY <1>0, <2>5, <2>6 DEF Free
    <3> QED
      BY <2>2, <2>3, <3>1, Zenon DEF Idle, OwnInv
  <2>7. NoCancel' => Uncancelled'
    BY <1>0, <1>8 DEF AddWork, Goto, OwnInv, Uncancelled, TypeOK
  <2> QED
    BY <1>0, <2>4, <2>6, <2>7 DEF OwnInv
<1>9. ASSUME NEW k \in Works, CancelWork(k) PROVE OwnInv'
  <2>1. UNCHANGED <<backlog, status, pc, cur>> /\ ~NoCancel
    BY <1>9 DEF CancelWork, NoCancel
  <2> QED
    BY <1>0, <2>1, NothingMoved DEF Holds, Free
<1>10. CASE DestroyFlush
  <2>0. backlog' = <<>> /\ 1 .. Len(<<>>) = {}
    BY <1>10 DEF DestroyFlush
  <2>1. \A k \in Works : ~InBacklog(k)'
    BY <2>0 DEF InBacklog
  <2>2. \A u \in Threads, k \in Works : Holds(u, k)' <=> Holds(u, k)
    BY <1>10 DEF DestroyFlush, Holds
  <2>3. InOnePlace'
    BY <1>10, <2>1, <2>2 DEF DestroyFlush, OwnInv, InOnePlace
  <2>4. ASSUME NEW k \in Works, Free(k)' PROVE Idle(k)'
    <3>1. status'[k] = IF InBacklog(k) THEN "COMPLETE" ELSE status[k]
      BY <1>10 DEF DestroyFlush
    <3>2. \A u \in Threads : ~Holds(u, k)
      BY <1>0, <2>4, <3>1 DEF OwnInv, InOnePlace, Idle, Free
    <3> QED
      BY <2>1, <2>2, <3>2 DEF Idle
  <2>5. NoCancel' => Uncancelled'
    BY <1>0, <1>10 DEF DestroyFlush, OwnInv, Uncancelled
  <2> QED
    BY <1>0, <2>3, <2>4, <2>5 DEF OwnInv
<1>11. CASE DestroyStep \/ UNCHANGED vars
  <2>1. UNCHANGED <<backlog, status, requests, pc, cur>>
    BY <1>11 DEF DestroyStep, DestroyLock, DestroyWorker, DestroyFree, vars
  <2> QED
    BY <1>0, <2>1, NothingMoved DEF Holds, OwnInv, Free, Uncancelled
<1> QED
  BY <1>1, <1>2, <1>3, <1>4, <1>5, <1>6, <1>7, <1>8, <1>9, <1>10, <1>11, Zenon
     DEF Next, WorkerStep, PutStep, ClientCall

(* workqueue_create leaves every work with the client.                     *)
LEMMA OwnStart == Init => OwnInv
<1> SUFFICES ASSUME Init PROVE OwnInv
  OBVIOUS
<1>1. \A k \in Works : ~InBacklog(k)
  BY DEF Init, InBacklog
<1>2. \A t \in Threads : pc[t] \in {"client", "start"}
  BY DEF Init
<1>3. \A k \in Works, t \in Threads : ~Holds(t, k)
  BY <1>2 DEF Holds
<1>4. InOnePlace
  BY <1>1, <1>3 DEF InOnePlace, Init
<1>5. Uncancelled
  BY <1>2 DEF Uncancelled, Init
<1> QED
  BY <1>1, <1>3, <1>4, <1>5, TypeInit DEF OwnInv, Idle

(* The two promises about ownership, from the one invariant.               *)
LEMMA OwnershipSafe == Spec => [](OneOwner /\ CompleteMeansQuiet)
<1> DEFINE Inv == Careful => OwnInv
<1>1. Init => Inv
  BY OwnStart
<1>2. Inv /\ [Next]_vars => Inv'
  BY OwnStep, CallsFixed DEF Careful, NoCancel
<1>3. Inv => OneOwner /\ CompleteMeansQuiet
  BY DEF OwnInv, OneOwner, CompleteMeansQuiet, Idle, Free, Careful
<1> HIDE DEF Inv
<1> QED
  BY <1>1, <1>2, <1>3, PTL DEF Spec

(* A work is never in two places at once, the backlog and a worker or two  *)
(* workers: for a client that cancels, and for one that adds its completed *)
(* works again, with any number of workers and works.                      *)
THEOREM OwnersSingle == Spec => []OneOwner
  BY OwnershipSafe, PTL

(* A client that never cancels may add a work again as soon as             *)
(* workqueue_work_is_complete says so: no worker has it and the backlog    *)
(* does not.                                                               *)
THEOREM CompleteIsQuiet == Spec => []CompleteMeansQuiet
  BY OwnershipSafe, PTL

-----------------------------------------------------------------------------
(* Completion callbacks.  A work under way is owed one callback, besides   *)
(* those that earlier uses of the same work_t have started and not made.   *)
Finishing(k) == {w \in Workers : pc[w] = "callback" /\ cur[w] = k}

InPlay(k) == InBacklog(k) \/ \E t \in Threads : Holds(t, k)

OwedInv == \A k \in Works : /\ owed[k] >= Cardinality(Finishing(k))
                            /\ InPlay(k) => owed[k] >= Cardinality(Finishing(k)) + 1

(* Finitely many workers are about to call back, now and after a step.     *)
LEMMA FinishingFinite ==
  /\ \A k : IsFiniteSet(Finishing(k)) /\ Cardinality(Finishing(k)) \in Nat
  /\ \A k : IsFiniteSet(Finishing(k)') /\ Cardinality(Finishing(k)') \in Nat
<1>1. IsFiniteSet(Workers)
  BY FS_Interval, WorkersAssumption DEF Workers
<1>2. \A k : Finishing(k) \subseteq Workers /\ Finishing(k)' \subseteq Workers
  BY DEF Finishing
<1> QED
  BY <1>1, <1>2, FS_Subset, FS_CardinalityType

(* A step between callbacks: no worker starts or ends one, and a work      *)
(* under way after it was under way before.                                *)
LEMMA OwedKept ==
  ASSUME OwedInv, UNCHANGED owed,
         \A k \in Works : Finishing(k)' = Finishing(k),
         \A k \in Works : InPlay(k)' => InPlay(k)
  PROVE  OwedInv'
<1> SUFFICES ASSUME NEW k \in Works
             PROVE  /\ owed'[k] >= Cardinality(Finishing(k)')
                    /\ InPlay(k)' => owed'[k] >= Cardinality(Finishing(k)') + 1
  BY DEF OwedInv
<1>1. /\ owed'[k] = owed[k] /\ Cardinality(Finishing(k)') = Cardinality(Finishing(k))
      /\ InPlay(k)' => InPlay(k)
  OBVIOUS
<1> QED
  BY <1>1 DEF OwedInv

(* A thread that is not in a callback before or after leaves them alone.   *)
LEMMA FinishingKept ==
  ASSUME NEW t \in Threads, pc[t] # "callback", pc'[t] # "callback",
         \A u \in Threads \ {t} : pc'[u] = pc[u] /\ cur'[u] = cur[u]
  PROVE  \A k \in Works : Finishing(k)' = Finishing(k)
<1>1. \A u \in Workers : u \in Threads
  BY ThreadSets
<1> QED
  BY <1>1 DEF Finishing

(* Works under way: a step outside the backlog that gives nobody a work.   *)
LEMMA InPlayKept ==
  ASSUME \A k \in Works : InBacklog(k)' => InPlay(k),
         \A k \in Works, t \in Threads : Holds(t, k)' => InPlay(k)
  PROVE  \A k \in Works : InPlay(k)' => InPlay(k)
BY DEF InPlay

(* Without cancellation every step keeps a callback in reserve for each    *)
(* work under way and each worker about to call back.                      *)
LEMMA OwedStep ==
  ASSUME NoCancel, OwnInv, OwedInv, [Next]_vars
  PROVE  OwedInv'
<1> USE ThreadSets
<1>0. TypeOK /\ requests = {} /\ \A t \in Threads : pc[t] # "early"
  BY DEF OwnInv, Uncancelled
<1>1. ASSUME NEW t \in Threads, Put(t) PROVE OwedInv'
  <2>1. /\ pc[t] = "put" /\ pc' = [pc EXCEPT ![t] = "scan"] /\ UNCHANGED owed
        /\ backlog' = Append(backlog, cur[t]) /\ cur' = [cur EXCEPT ![t] = Unused]
    BY <1>1 DEF Put, Goto
  <2>2. \A u \in Threads \ {t} : cur'[u] = cur[u] /\ pc'[u] = pc[u]
    BY <1>0, <2>1 DEF TypeOK
  <2>3. \A k \in Works : Finishing(k)' = Finishing(k)
    <3>1. pc'[t] = "scan"
      BY <1>0, <2>1 DEF TypeOK
    <3> QED
      BY <2>1, <2>2, <3>1, FinishingKept
  <2>4. pc'[t] = "scan" /\ cur[t] \in Works /\ backlog \in Seq(Works)
    BY <1>0, <2>1 DEF TypeOK
  <2>5. \A k \in Works, u \in Threads : Holds(u, k)' => Holds(u, k)
    BY <2>2, <2>4 DEF Holds
  <2>6. /\ Len(backlog) \in Nat /\ Len(backlog') = Len(backlog) + 1
        /\ \A n \in 1 .. Len(backlog) : backlog'[n] = backlog[n]
        /\ backlog'[Len(backlog) + 1] = cur[t]
    BY <2>1, <2>4, AppendElements, LenProperties
  <2>7. \A k \in Works : InBacklog(k)' => InBacklog(k) \/ k = cur[t]
    BY <2>6 DEF InBacklog
  <2>8. Holds(t, cur[t])
    BY <2>1 DEF Holds
  <2>9. \A k \in Works : InPlay(k)' => InPlay(k)
    BY <2>5, <2>7, <2>8, InPlayKept DEF InPlay
  <2> QED
    BY <2>1, <2>3, <2>9, OwedKept
<1>2. ASSUME NEW t \in Threads, Scan(t) \/ EventSet(t) PROVE OwedInv'
  <2>1. /\ UNCHANGED <<cur, owed, backlog>> /\ pc[t] \in {"scan", "set"}
    BY <1>2 DEF Scan, EventSet
  <2>2. Return(t) \in {"client", "get"}
    BY DEF Return
  <2>3. pc' = pc \/ \E l \in {"set", "client", "get"} : pc' = [pc EXCEPT ![t] = l]
    BY <1>2, <2>2 DEF Scan, EventSet, Goto
  <2>4. CASE pc' = pc
    BY <2>1, <2>4, OwedKept DEF Finishing, InPlay, InBacklog, Holds
  <2>5. ASSUME NEW l \in {"set", "client", "get"}, pc' = [pc EXCEPT ![t] = l] PROVE OwedInv'
    <3>1. pc'[t] = l /\ \A u \in Threads \ {t} : pc'[u] = pc[u]
      BY <1>0, <2>5 DEF TypeOK
    <3>2. \A k \in Works : Finishing(k)' = Finishing(k)
      BY <2>1, <3>1, FinishingKept
    <3>3. \A k \in Works, u \in Threads : Holds(u, k)' => Holds(u, k)
      BY <2>1, <3>1 DEF Holds
    <3>4. \A k \in Works : InBacklog(k)' => InBacklog(k)
      BY <2>1 DEF InBacklog
    <3>5. \A k \in Works : InPlay(k)' => InPlay(k)
      BY <3>3, <3>4, InPlayKept DEF InPlay
    <3> QED
      BY <2>1, <3>2, <3>5, OwedKept
  <2> QED
    BY <2>3, <2>4, <2>5
<1>3. ASSUME NEW w \in Workers,
             \/ Start(w) \/ EventIsSet(w) \/ SetRunning(w) \/ SetIdle(w) \/ CheckCancel(w)
             \/ Begin(w) \/ DoWork(w)
      PROVE  OwedInv'
  <2> DEFINE Away == {"wait", "awake", "again", "get"}
             With == {"begin", "work", "complete", "put"}
             Busy == {"check", "begin", "work"}
  <2>1. UNCHANGED <<cur, owed, backlog>>
    BY <1>3 DEF Start, EventIsSet, SetRunning, SetIdle, CheckCancel, Begin, DoWork
  <2>2. pc[w] # "callback"
    BY <1>3 DEF Start, EventIsSet, SetRunning, SetIdle, CheckCancel, Begin, DoWork
  <2>3. \/ \E l \in Away : pc' = [pc EXCEPT ![w] = l]
        \/ pc[w] \in Busy /\ \E l \in With : pc' = [pc EXCEPT ![w] = l]
    BY <1>0, <1>3 DEF Start, EventIsSet, SetRunning, SetIdle, CheckCancel, Begin, DoWork, Goto
  <2>4. PICK l \in Away \cup With : pc' = [pc EXCEPT ![w] = l] /\ (l \in With => pc[w] \in Busy)
    BY <2>3
  <2>5. pc'[w] = l /\ \A u \in Threads \ {w} : pc'[u] = pc[u]
    BY <1>0, <2>4 DEF TypeOK
  <2>6. \A k \in Works : Finishing(k)' = Finishing(k)
    BY <2>1, <2>2, <2>5, FinishingKept
  <2>7. \A k \in Works, u \in Threads : Holds(u, k)' => Holds(u, k)
    BY <2>1, <2>4, <2>5 DEF Holds
  <2>8. \A k \in Works : InBacklog(k)' => InBacklog(k)
    BY <2>1 DEF InBacklog
  <2>9. \A k \in Works : InPlay(k)' => InPlay(k)
    BY <2>7, <2>8, InPlayKept DEF InPlay
  <2> QED
    BY <2>1, <2>6, <2>9, OwedKept, Zenon
<1>4. ASSUME NEW w \in Workers, GetBacklog(w) PROVE OwedInv'
  <2>1. /\ UNCHANGED owed /\ pc[w] = "get" /\ \A u \in Threads \ {w} : cur'[u] = cur[u]
        /\ \E l \in {"sleep", "check"} : pc' = [pc EXCEPT ![w] = l]
    BY <1>0, <1>4, Zenon DEF GetBacklog, Goto, TypeOK
  <2>2. pc'[w] # "callback" /\ \A u \in Threads \ {w} : pc'[u] = pc[u]
    BY <1>0, <2>1 DEF TypeOK
  <2>3. \A k \in Works : Finishing(k)' = Finishing(k)
    BY <2>1, <2>2, FinishingKept
  <2>4. CASE backlog = <<>>
    <3>1. pc'[w] = "sleep" /\ UNCHANGED <<backlog, cur>>
      BY <1>0, <1>4, <2>4 DEF GetBacklog, Goto, TypeOK
    <3>2. \A k \in Works, u \in Threads : Holds(u, k)' => Holds(u, k)
      BY <2>2, <3>1 DEF Holds
    <3>3. \A k \in Works : InPlay(k)' => InPlay(k)
      BY <3>1, <3>2, InPlayKept, Zenon DEF InPlay, InBacklog
    <3> QED
      BY <2>1, <2>3, <3>3, OwedKept
  <2>5. CASE backlog # <<>>
    <3>1. backlog' = Tail(backlog) /\ cur'[w] = Head(backlog) /\ backlog \in Seq(Works)
      BY <1>0, <1>4, <2>5 DEF GetBacklog, TypeOK
    <3>2. /\ Len(backlog) \in Nat \ {0} /\ Head(backlog) = backlog[1]
          /\ Len(backlog') = Len(backlog) - 1
          /\ \A n \in 1 .. Len(backlog) - 1 : backlog'[n] = backlog[n + 1]
      BY <2>5, <3>1, TailElements
    <3>3. \A k \in Works : InBacklog(k)' => InBacklog(k)
      BY <3>2 DEF InBacklog
    <3>4. InBacklog(Head(backlog))
      BY <3>2 DEF InBacklog
    <3>5. \A k \in Works, u \in Threads : Holds(u, k)' => Holds(u, k) \/ InBacklog(k)
      BY <2>1, <2>2, <3>1, <3>4 DEF Holds
    <3>6. \A k \in Works : InPlay(k)' => InPlay(k)
      BY <3>3, <3>5, InPlayKept DEF InPlay
    <3> QED
      BY <2>1, <2>3, <3>6, OwedKept
  <2> QED
    BY <2>4, <2>5
<1>5. ASSUME NEW w \in Workers, EarlyCallback(w) PROVE OwedInv'
  BY <1>0, <1>5 DEF EarlyCallback
<1>6. ASSUME NEW w \in Workers, Complete(w) PROVE OwedInv'
  <2>1. /\ UNCHANGED <<owed, cur, backlog>> /\ pc[w] = "complete"
        /\ pc' = [pc EXCEPT ![w] = "callback"]
    BY <1>6 DEF Complete, Goto
  <2>2. /\ pc'[w] = "callback" /\ \A u \in Threads \ {w} : pc'[u] = pc[u]
        /\ cur[w] \in Works /\ owed \in [Works -> Int]
    BY <1>0, <2>1 DEF TypeOK
  <2>3. Holds(w, cur[w])
    BY <2>1 DEF Holds
  <2>4. \A k \in Works, u \in Threads : Holds(u, k)' => Holds(u, k) /\ u # w
    BY <2>1, <2>2 DEF Holds
  <2>5. \A k \in Works : InBacklog(k)' => InBacklog(k)
    BY <2>1 DEF InBacklog
  <2>6. ASSUME NEW k \in Works, k # cur[w]
        PROVE  Finishing(k)' = Finishing(k) /\ (InPlay(k)' => InPlay(k))
    <3>1. Finishing(k)' = Finishing(k)
      BY <2>1, <2>2, <2>6 DEF Finishing
    <3> QED
      BY <2>4, <2>5, <3>1 DEF InPlay
  <2>7. /\ Finishing(cur[w])' = Finishing(cur[w]) \cup {w} /\ w \notin Finishing(cur[w])
        /\ ~InPlay(cur[w])' /\ InPlay(cur[w])
    <3>1. Finishing(cur[w])' = Finishing(cur[w]) \cup {w}
      BY <2>1, <2>2 DEF Finishing
    <3>2. w \notin Finishing(cur[w])
      BY <2>1 DEF Finishing
    <3>3. ~InBacklog(cur[w]) /\ \A u \in Threads : Holds(u, cur[w]) => u = w
      BY <2>2, <2>3, Zenon DEF OwnInv, InOnePlace
    <3>4. ~InBacklog(cur[w])' /\ \A u \in Threads : ~Holds(u, cur[w])'
      BY <2>1, <2>2, <2>4, <2>5, <3>3, Zenon DEF InBacklog, Holds
    <3> QED
      BY <2>3, <3>1, <3>2, <3>4 DEF InPlay
  <2>8. Cardinality(Finishing(cur[w])') = Cardinality(Finishing(cur[w])) + 1
    BY <2>7, FinishingFinite, FS_AddElement, Zenon
  <2>9. ASSUME NEW k \in Works
        PROVE  /\ owed'[k] >= Cardinality(Finishing(k)')
               /\ InPlay(k)' => owed'[k] >= Cardinality(Finishing(k)') + 1
    <3>1. CASE k = cur[w]
      BY <2>1, <2>2, <2>7, <2>8, <3>1 DEF OwedInv
    <3>2. CASE k # cur[w]
      BY <2>1, <2>6, <3>2, Zenon DEF OwedInv
    <3> QED
      BY <3>1, <3>2
  <2> QED
    BY <2>9 DEF OwedInv
<1>7. ASSUME NEW w \in Workers, Callback(w) PROVE OwedInv'
  <2>1. /\ UNCHANGED backlog /\ pc[w] = "callback" /\ pc' = [pc EXCEPT ![w] = "get"]
        /\ owed' = [owed EXCEPT ![cur[w]] = OneLess(@)] /\ cur' = [cur EXCEPT ![w] = Unused]
    BY <1>7 DEF Callback, Goto
  <2>2. /\ pc'[w] = "get" /\ \A u \in Threads \ {w} : pc'[u] = pc[u] /\ cur'[u] = cur[u]
        /\ cur[w] \in Works /\ owed \in [Works -> Int]
    BY <1>0, <2>1 DEF TypeOK
  <2>0. PICK d \in Works : d = cur[w]
    BY <2>2
  <2>3. \A k \in Works, u \in Threads : Holds(u, k)' => Holds(u, k)
    BY <2>2 DEF Holds
  <2>4. \A k \in Works : InPlay(k)' => InPlay(k)
    BY <2>1, <2>3, InPlayKept DEF InPlay, InBacklog
  <2>5. \A k \in Works : k # d => Finishing(k)' = Finishing(k) /\ owed'[k] = owed[k]
    BY <2>0, <2>1, <2>2 DEF Finishing
  <2>6. Finishing(d)' = Finishing(d) \ {w} /\ w \in Finishing(d)
    BY <2>0, <2>1, <2>2 DEF Finishing
  <2>7. Cardinality(Finishing(d)') = Cardinality(Finishing(d)) - 1
    BY <2>6, FinishingFinite, FS_RemoveElement, Zenon
  <2>8. owed'[d] = owed[d] - 1
    <3>1. Cardinality(Finishing(d)') \in Nat /\ Cardinality(Finishing(d)) \in Nat
      BY FinishingFinite
    <3>2. owed[d] \in Int /\ owed[d] >= Cardinality(Finishing(d))
      BY <2>2 DEF OwedInv
    <3>3. OneLess(owed[d]) = owed[d] - 1
      BY <2>7, <3>1, <3>2 DEF OneLess
    <3> QED
      BY <2>0, <2>1, <2>2, <3>3
  <2>9. ASSUME NEW k \in Works
        PROVE  /\ owed'[k] >= Cardinality(Finishing(k)')
               /\ InPlay(k)' => owed'[k] >= Cardinality(Finishing(k)') + 1
    <3>1. CASE k = d
      <4>1. Cardinality(Finishing(d)) \in Nat /\ owed[d] \in Int
        BY <2>2, FinishingFinite
      <4> QED
        BY <2>4, <2>7, <2>8, <3>1, <4>1 DEF OwedInv
    <3>2. CASE k # d
      BY <2>4, <2>5, <3>2, Zenon DEF OwedInv
    <3> QED
      BY <3>1, <3>2, Zenon
  <2> QED
    BY <2>9 DEF OwedInv
<1>8. ASSUME NEW k \in Works, AddWork(k) PROVE OwedInv'
  <2>1. /\ UNCHANGED backlog /\ pc' = [pc EXCEPT ![Client] = "put"] /\ pc[Client] = "client"
        /\ owed' = [owed EXCEPT ![k] = @ + 1] /\ cur' = [cur EXCEPT ![Client] = k]
        /\ status[k] \in {"NEW", "COMPLETE"}
    BY <1>8 DEF AddWork, Goto
  <2>2. pc'[Client] = "put" /\ \A u \in Threads \ {Client} : pc'[u] = pc[u] /\ cur'[u] = cur[u]
    BY <1>0, <2>1 DEF TypeOK
  <2>3. \A j \in Works : Finishing(j)' = Finishing(j)
    BY <2>1, <2>2, FinishingKept
  <2>4. \A j \in Works, u \in Threads : Holds(u, j)' => Holds(u, j) \/ j = k
    BY <1>0, <2>1, <2>2, Zenon DEF Holds, TypeOK
  <2>5. \A j \in Works : InPlay(j)' => InPlay(j) \/ j = k
    BY <2>1, <2>4 DEF InPlay, InBacklog
  <2>6. ASSUME NEW j \in Works
        PROVE  /\ owed'[j] >= Cardinality(Finishing(j)')
               /\ InPlay(j)' => owed'[j] >= Cardinality(Finishing(j)') + 1
    <3>1. owed[j] \in Int /\ owed'[j] = IF j = k THEN owed[j] + 1 ELSE owed[j]
      BY <1>0, <2>1 DEF TypeOK
    <3>2. Cardinality(Finishing(j)') = Cardinality(Finishing(j)) /\ Cardinality(Finishing(j)) \in Nat
      BY <2>3, FinishingFinite
    <3> QED
      BY <2>5, <3>1, <3>2 DEF OwedInv
  <2> QED
    BY <2>6 DEF OwedInv
<1>9. ASSUME NEW k \in Works, CancelWork(k) PROVE OwedInv'
  BY <1>9 DEF CancelWork, NoCancel
<1>10. CASE DestroyFlush
  <2>0. UNCHANGED <<owed, pc, cur>> /\ backlog' = <<>> /\ 1 .. Len(<<>>) = {}
    BY <1>10 DEF DestroyFlush
  <2>1. UNCHANGED <<owed, pc, cur>> /\ \A k \in Works : ~InBacklog(k)'
    BY <2>0 DEF InBacklog
  <2>2. \A k \in Works : Finishing(k)' = Finishing(k)
    BY <2>1 DEF Finishing
  <2>3. \A k \in Works : InPlay(k)' => InPlay(k)
    BY <2>1 DEF InPlay, Holds
  <2> QED
    BY <2>1, <2>2, <2>3, OwedKept
<1>11. ASSUME NEW w \in Workers, Cancelled(w) PROVE OwedInv'
  <2>1. UNCHANGED <<owed, cur, backlog>> /\ pc' = [pc EXCEPT ![w] = "dead"]
    BY <1>11 DEF Cancelled, Goto
  <2>2. pc'[w] = "dead" /\ \A u \in Threads \ {w} : pc'[u] = pc[u]
    BY <1>0, <2>1 DEF TypeOK
  <2>3. \A k \in Works : Finishing(k)' \subseteq Finishing(k)
    BY <2>1, <2>2 DEF Finishing
  <2>4. \A k \in Works : InPlay(k)' => InPlay(k)
    <3>1. \A k \in Works, u \in Threads : Holds(u, k)' => Holds(u, k)
      BY <2>1, <2>2 DEF Holds
    <3> QED
      BY <2>1, <3>1, InPlayKept DEF InPlay, InBacklog
  <2>5. ASSUME NEW k \in Works
        PROVE  /\ owed'[k] >= Cardinality(Finishing(k)')
               /\ InPlay(k)' => owed'[k] >= Cardinality(Finishing(k)') + 1
    <3>1. Cardinality(Finishing(k)') <= Cardinality(Finishing(k))
      BY <2>3, FinishingFinite, FS_Subset
    <3>2. /\ Cardinality(Finishing(k)) \in Nat /\ Cardinality(Finishing(k)') \in Nat
          /\ owed[k] \in Int /\ owed'[k] = owed[k]
      BY <1>0, <2>1, FinishingFinite DEF TypeOK
    <3> QED
      BY <2>4, <3>1, <3>2 DEF OwedInv
  <2> QED
    BY <2>5 DEF OwedInv
<1>12. ASSUME \/ \E w \in Workers : Undefined(w)
              \/ DestroyStep \/ UNCHANGED vars
       PROVE  OwedInv'
  <2>1. UNCHANGED <<owed, pc, cur, backlog>>
    BY <1>12 DEF Undefined, DestroyStep, DestroyLock, DestroyWorker, DestroyFree, vars
  <2>2. \A k \in Works : Finishing(k)' = Finishing(k)
    BY <2>1 DEF Finishing
  <2>3. \A k \in Works : InPlay(k)' => InPlay(k)
    BY <2>1 DEF InPlay, InBacklog, Holds
  <2> QED
    BY <2>1, <2>2, <2>3, OwedKept
<1> QED
  BY <1>1, <1>2, <1>3, <1>4, <1>5, <1>6, <1>7, <1>8, <1>9, <1>10, <1>11, <1>12, Zenon
     DEF Next, WorkerStep, PutStep, ClientCall

(* For a client that never cancels, complete_fn is called at most once for *)
(* each workqueue_add_work, with any number of workers and works: also     *)
(* when a work is added again while its last callback is still to come.    *)
THEOREM CallbacksOnce == Spec => []CompletedOnce
<1> DEFINE Inv == NoCancel => OwnInv /\ OwedInv
<1>1. Init => Inv
  <2> SUFFICES ASSUME Init PROVE OwedInv
    BY OwnStart
  <2>1. \A k \in Works : Finishing(k) = {} /\ ~InPlay(k) /\ owed[k] = 0
    BY ThreadSets DEF Init, Finishing, InPlay, InBacklog, Holds
  <2> QED
    BY <2>1, FS_EmptySet DEF OwedInv
<1>2. Inv /\ [Next]_vars => Inv'
  BY OwnStep, OwedStep, CallsFixed DEF NoCancel, Careful
<1>3. Inv => CompletedOnce
  <2> SUFFICES ASSUME OwnInv, OwedInv, NEW k \in Works PROVE owed[k] >= 0
    BY DEF CompletedOnce
  <2>1. owed[k] \in Int /\ owed[k] >= Cardinality(Finishing(k)) /\ Cardinality(Finishing(k)) \in Nat
    BY FinishingFinite DEF OwnInv, TypeOK, OwedInv
  <2> QED
    BY <2>1
<1> HIDE DEF Inv
<1> QED
  BY <1>1, <1>2, <1>3, PTL DEF Spec
=============================================================================
