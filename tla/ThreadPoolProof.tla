-------------------------- MODULE ThreadPoolProof ---------------------------
(***************************************************************************)
(* Proofs about the thread pool of melon, for any number of threads and    *)
(* resources and any max: the counts are right, the limit holds, every     *)
(* resource is in one place, the pool outlives its children, and, when     *)
(* threads can be created, no wakeup is lost.                              *)
(***************************************************************************)
EXTENDS ThreadPool, FiniteSetTheorems, SequenceTheorems, TLAPS

MemberSet(q) == {t \in Threads : q[t] # "none"}
IdleSet(q) == {t \in Threads : q[t] \in Idling}

(* A thread more or less in a set of threads: the set's cardinality.       *)
LEMMA Card ==
  \A S \in SUBSET Threads, t \in Threads :
     /\ Cardinality(S) \in Nat
     /\ t \notin S => Cardinality(S \cup {t}) = Cardinality(S) + 1
     /\ t \in S => Cardinality(S \ {t}) = Cardinality(S) - 1 /\ Cardinality(S) >= 1
<1> TAKE S \in SUBSET Threads, t \in Threads
<1>1. IsFiniteSet(S)
  BY ThreadsAssumption, FS_Subset
<1>2. Cardinality(S) \in Nat
  BY <1>1, FS_CardinalityType
<1>3. ASSUME t \notin S PROVE Cardinality(S \cup {t}) = Cardinality(S) + 1
  BY <1>1, <1>3, FS_AddElement
<1>4. ASSUME t \in S PROVE Cardinality(S \ {t}) = Cardinality(S) - 1 /\ Cardinality(S) >= 1
  <2>1. Cardinality(S \ {t}) = Cardinality(S) - 1
    BY <1>1, <1>4, FS_RemoveElement
  <2>2. Cardinality(S) # 0
    BY <1>1, <1>4, FS_EmptySet
  <2> QED
    BY <1>2, <2>1, <2>2
<1> QED
  BY <1>2, <1>3, <1>4

(* One thread moves to l: what that does to the number of members.         *)
LEMMA MovedMembers ==
  \A q \in [Threads -> Places], t \in Threads, l \in Places :
     /\ q[t] = "none" /\ l # "none" =>
          Cardinality(MemberSet([q EXCEPT ![t] = l])) = Cardinality(MemberSet(q)) + 1
     /\ q[t] # "none" /\ l = "none" =>
          /\ Cardinality(MemberSet([q EXCEPT ![t] = l])) = Cardinality(MemberSet(q)) - 1
          /\ Cardinality(MemberSet(q)) >= 1
     /\ q[t] # "none" /\ l # "none" => MemberSet([q EXCEPT ![t] = l]) = MemberSet(q)
<1> TAKE q \in [Threads -> Places], t \in Threads, l \in Places
<1> DEFINE r == [q EXCEPT ![t] = l]
<1>1. MemberSet(q) \in SUBSET Threads
  BY DEF MemberSet
<1>2. q[t] = "none" /\ l # "none" => t \notin MemberSet(q) /\ MemberSet(r) = MemberSet(q) \cup {t}
  BY DEF MemberSet
<1>3. q[t] # "none" /\ l = "none" => t \in MemberSet(q) /\ MemberSet(r) = MemberSet(q) \ {t}
  BY DEF MemberSet
<1>4. q[t] # "none" /\ l # "none" => MemberSet(r) = MemberSet(q)
  BY DEF MemberSet
<1> HIDE DEF r
<1>5. /\ q[t] = "none" /\ l # "none" => Cardinality(MemberSet(r)) = Cardinality(MemberSet(q)) + 1
      /\ q[t] # "none" /\ l = "none" => /\ Cardinality(MemberSet(r)) = Cardinality(MemberSet(q)) - 1
                                        /\ Cardinality(MemberSet(q)) >= 1
  BY <1>1, <1>2, <1>3, Card
<1> QED
  BY <1>4, <1>5 DEF r

(* The same for the number of idle members.                                *)
LEMMA MovedIdle ==
  \A q \in [Threads -> Places], t \in Threads, l \in Places :
     /\ q[t] \notin Idling /\ l \in Idling =>
          Cardinality(IdleSet([q EXCEPT ![t] = l])) = Cardinality(IdleSet(q)) + 1
     /\ q[t] \in Idling /\ l \notin Idling =>
          /\ Cardinality(IdleSet([q EXCEPT ![t] = l])) = Cardinality(IdleSet(q)) - 1
          /\ Cardinality(IdleSet(q)) >= 1
     /\ (q[t] \in Idling <=> l \in Idling) => IdleSet([q EXCEPT ![t] = l]) = IdleSet(q)
<1> TAKE q \in [Threads -> Places], t \in Threads, l \in Places
<1> DEFINE r == [q EXCEPT ![t] = l]
<1>1. IdleSet(q) \in SUBSET Threads
  BY DEF IdleSet
<1>2. q[t] \notin Idling /\ l \in Idling => t \notin IdleSet(q) /\ IdleSet(r) = IdleSet(q) \cup {t}
  BY DEF IdleSet
<1>3. q[t] \in Idling /\ l \notin Idling => t \in IdleSet(q) /\ IdleSet(r) = IdleSet(q) \ {t}
  BY DEF IdleSet
<1>4. (q[t] \in Idling <=> l \in Idling) => IdleSet(r) = IdleSet(q)
  BY DEF IdleSet
<1> HIDE DEF r
<1>5. /\ q[t] \notin Idling /\ l \in Idling => Cardinality(IdleSet(r)) = Cardinality(IdleSet(q)) + 1
      /\ q[t] \in Idling /\ l \notin Idling => /\ Cardinality(IdleSet(r)) = Cardinality(IdleSet(q)) - 1
                                               /\ Cardinality(IdleSet(q)) >= 1
  BY <1>1, <1>2, <1>3, Card
<1> QED
  BY <1>4, <1>5 DEF r

-----------------------------------------------------------------------------
CountInv == TypeOK /\ CountsMatch /\ ThreadLimit /\ PoolOutlivesChildren

(* A main thread that is in the pool counts for one in both counts.        *)
InPool == main \in {"handler", "closing"}

(* CountsMatch in terms of the functions the lemmas are about.             *)
LEMMA Counts ==
  /\ CountsMatch <=>
       /\ InPool => /\ counter = Cardinality(MemberSet(pc)) + 1
                    /\ idle = Cardinality(IdleSet(pc)) + 1
       /\ ~InPool => /\ counter = Cardinality(MemberSet(pc)) + 0
                     /\ idle = Cardinality(IdleSet(pc)) + 0
  /\ ThreadLimit <=> Cardinality(MemberSet(pc)) <= max
  /\ PoolOutlivesChildren <=> (main \in {"exited", "freed"} => MemberSet(pc) = {})
  BY DEF CountsMatch, InPool, ThreadLimit, PoolOutlivesChildren, Members, IdleMembers,
         MemberSet, IdleSet

(* The same after a step.                                                  *)
LEMMA CountsNext ==
  /\ CountsMatch' <=>
       /\ InPool' => /\ counter' = Cardinality(MemberSet(pc')) + 1
                     /\ idle' = Cardinality(IdleSet(pc')) + 1
       /\ ~InPool' => /\ counter' = Cardinality(MemberSet(pc')) + 0
                      /\ idle' = Cardinality(IdleSet(pc')) + 0
  /\ ThreadLimit' <=> Cardinality(MemberSet(pc')) <= max
  /\ PoolOutlivesChildren' <=> (main' \in {"exited", "freed"} => MemberSet(pc') = {})
  BY DEF CountsMatch, InPool, ThreadLimit, PoolOutlivesChildren, Members, IdleMembers,
         MemberSet, IdleSet

(* The pool as mln_thread_pool_new leaves it.                              *)
LEMMA CountInit == Init => CountInv
<1> SUFFICES ASSUME Init PROVE CountInv
  OBVIOUS
<1>1. MemberSet(pc) = {} /\ IdleSet(pc) = {}
  BY DEF Init, MemberSet, IdleSet, Idling
<1>2. Cardinality({}) = 0
  BY FS_EmptySet
<1>3. TypeOK
  <2>1. pc \in [Threads -> Places] /\ data \in [Threads -> SUBSET Resources]
    BY DEF Init, Places
  <2>2. \A t \in Threads : pc[t] # "run" => data[t] = {}
    BY DEF Init
  <2>3. res \in Seq(Resources) /\ idle \in Nat /\ counter \in Nat
    BY DEF Init
  <2> QED
    BY <2>1, <2>2, <2>3, Zenon DEF Init, TypeOK
<1>4. CountsMatch /\ ThreadLimit /\ PoolOutlivesChildren
  <2>1. Cardinality(MemberSet(pc)) = 0 /\ Cardinality(IdleSet(pc)) = 0
    BY <1>1, <1>2
  <2>2. InPool /\ main = "handler" /\ counter = 1 /\ idle = 1
    BY DEF Init, InPool
  <2> QED
    BY <2>1, <2>2, Counts, MaxAssumption
<1> QED
  BY <1>3, <1>4 DEF CountInv

(* The part of the type invariant that is not about the counts.            *)
LEMMA TypeStep == ASSUME TypeOK, [Next]_vars, idle' \in Nat, counter' \in Nat
                 PROVE  TypeOK'
<1> USE DEF TypeOK
<1>1. ASSUME NEW r \in Resources, Enqueue(r) PROVE res' \in Seq(Resources) /\ added' \subseteq Resources
  BY <1>1 DEF Enqueue
<1>2. ASSUME NEW q \in [Threads -> Places], Signal(q) PROVE pc' \in [Threads -> Places]
  BY <1>2 DEF Signal, Places
<1>3. ASSUME NEW q \in [Threads -> Places], Signal(q), \A u \in Threads : q[u] = "run" <=> pc[u] = "run"
      PROVE  \A u \in Threads : pc'[u] # "run" => pc[u] # "run"
  BY <1>3 DEF Signal, Places
<1>4. ASSUME NEW r \in Resources, AddResource(r) PROVE TypeOK'
  <2>1. res' \in Seq(Resources) /\ added' \subseteq Resources
    BY <1>1, <1>4 DEF AddResource
  <2>2. pc' \in [Threads -> Places] /\ \A u \in Threads : pc'[u] # "run" => pc[u] # "run"
    <3>1. CASE Signal(pc)
      BY <3>1, <1>2, <1>3
    <3>2. ASSUME NEW t \in Threads, pc[t] = "none", Signal([pc EXCEPT ![t] = "lock"])
          PROVE  pc' \in [Threads -> Places] /\ \A u \in Threads : pc'[u] # "run" => pc[u] # "run"
      <4> DEFINE q == [pc EXCEPT ![t] = "lock"]
      <4>1. q \in [Threads -> Places] /\ \A u \in Threads : q[u] = "run" <=> pc[u] = "run"
        BY <3>2 DEF Places
      <4> QED
        BY <4>1, <3>2, <1>2, <1>3, Zenon
    <3> QED
      BY <1>4, <3>1, <3>2, Zenon DEF AddResource
  <2> QED
    BY <1>4, <2>1, <2>2 DEF AddResource
<1>5. ASSUME NEW r \in Resources, AddFails(r) PROVE TypeOK'
  BY <1>1, <1>5 DEF AddFails, Join, Places
<1>6. ASSUME NEW t \in Threads, Loop(t) PROVE TypeOK'
  <2>1. CASE MemberExit(t)
    BY <1>6, <2>1 DEF Loop, MemberExit, Places
  <2>2. CASE ResourceRemove(t)
    <3>1. Head(res) \in Resources /\ Tail(res) \in Seq(Resources)
      BY <2>2, HeadTailProperties DEF ResourceRemove
    <3> QED
      BY <1>6, <2>2, <3>1 DEF Loop, ResourceRemove, Places
  <2>3. CASE Wait(t)
    BY <1>6, <2>3 DEF Loop, Wait, Places
  <2> QED
    BY <1>6, <2>1, <2>2, <2>3 DEF Loop
<1>7. ASSUME NEW t \in Threads, TimedOut(t) \/ Spurious(t) PROVE TypeOK'
  BY <1>7 DEF TimedOut, Spurious, Places
<1>8. ASSUME NEW t \in Threads, Processed(t) PROVE TypeOK'
  BY <1>8 DEF Processed, Places
<1>9. CASE ThreadQuit \/ MainReturns
  BY <1>9, Zenon DEF ThreadQuit, MainReturns
<1>10. CASE Broadcast
  BY <1>10 DEF Broadcast, Places
<1>11. CASE MainExit
  BY <1>11 DEF MainExit
<1>12. CASE PoolFree
  <2>1. Range(res) \subseteq Resources
    BY DEF Range
  <2> QED
    BY <1>12, <2>1 DEF PoolFree
<1>13. CASE UNCHANGED vars
  BY <1>13 DEF vars
<1> QED
  BY <1>4, <1>5, <1>6, <1>7, <1>8, <1>9, <1>10, <1>11, <1>12, <1>13 DEF Next, ChildStep, MainStep

(* pthread_cond_signal moves a waiting thread at most: nobody joins,       *)
(* leaves or gets busy.                                                    *)
LEMMA SignalCounts ==
  ASSUME NEW q \in [Threads -> Places], Signal(q)
  PROVE  MemberSet(pc') = MemberSet(q) /\ IdleSet(pc') = IdleSet(q)
  BY DEF Signal, MemberSet, IdleSet, Idling

(* A step of a child thread, and of the main thread, keeps the counts: one *)
(* case per action, each by what the action does to the sets of members.   *)
LEMMA CountStep == ASSUME CountInv, [Next]_vars PROVE CountInv'
<1> DEFINE m == Cardinality(MemberSet(pc))
           i == Cardinality(IdleSet(pc))
<1>1. pc \in [Threads -> Places] /\ idle \in Nat /\ counter \in Nat /\ max \in Nat
  BY MaxAssumption DEF CountInv, TypeOK
<1>2. /\ InPool => counter = m + 1 /\ idle = i + 1
      /\ ~InPool => counter = m + 0 /\ idle = i + 0
      /\ m <= max
      /\ main \in {"exited", "freed"} => MemberSet(pc) = {}
  BY Counts DEF CountInv
<1>3. m \in Nat /\ i \in Nat
  <2>1. MemberSet(pc) \in SUBSET Threads /\ IdleSet(pc) \in SUBSET Threads
    BY DEF MemberSet, IdleSet
  <2> QED
    BY <2>1, ThreadsAssumption, FS_Subset, FS_CardinalityType
<1> HIDE DEF m, i
<1> DEFINE Good == /\ idle' \in Nat /\ counter' \in Nat
                   /\ CountsMatch' /\ ThreadLimit' /\ PoolOutlivesChildren'
<1> DEFINE Shift(dm, di) == /\ counter' = counter + dm /\ idle' = idle + di
                            /\ Cardinality(MemberSet(pc')) = m + dm
                            /\ Cardinality(IdleSet(pc')) = i + di
                            /\ m + dm <= max /\ m + dm >= 0 /\ i + di >= 0
<1>4. ASSUME NEW dm \in {-1, 0, 1}, NEW di \in {-1, 0, 1}, Shift(dm, di),
             main' = main, main \in {"handler", "closing"}
      PROVE  Good
  <2>1. InPool /\ InPool' /\ main' \notin {"exited", "freed"}
    BY <1>4 DEF InPool
  <2>2. counter' = (m + dm) + 1 /\ idle' = (i + di) + 1
    BY <1>2, <1>3, <1>4, <2>1
  <2>3. counter' \in Nat /\ idle' \in Nat
    BY <1>3, <1>4, <2>2
  <2>4. CountsMatch'
    BY <1>4, <2>1, <2>2, CountsNext
  <2>5. ThreadLimit'
    BY <1>4, CountsNext
  <2>6. PoolOutlivesChildren'
    BY <2>1, CountsNext
  <2> QED
    BY <2>3, <2>4, <2>5, <2>6
<1>5. ASSUME NEW r \in Resources, AddResource(r) PROVE Good
  <2>1. main = "handler" /\ main' = main
    BY <1>5 DEF AddResource, Enqueue
  <2>2. CASE MoreThreads
    <3>1. PICK t \in Threads : pc[t] = "none" /\ Signal([pc EXCEPT ![t] = "lock"])
      BY <1>5, <2>2, Zenon DEF AddResource
    <3> DEFINE q == [pc EXCEPT ![t] = "lock"]
    <3>2. q \in [Threads -> Places] /\ Cardinality(MemberSet(q)) = m + 1
          /\ Cardinality(IdleSet(q)) = i + 1
      BY <1>1, <3>1, MovedMembers, MovedIdle, Zenon DEF Places, Idling, m, i
    <3>3. MemberSet(pc') = MemberSet(q) /\ IdleSet(pc') = IdleSet(q)
      BY <3>1, <3>2, SignalCounts, Zenon
    <3>4. counter' = counter + 1 /\ idle' = idle + 1 /\ counter < max + 1
      BY <1>5, <2>2 DEF AddResource, Join, MoreThreads
    <3>5. m + 1 <= max
      BY <1>1, <1>2, <1>3, <2>1, <3>4 DEF InPool
    <3>6. Shift(1, 1)
      BY <1>3, <3>2, <3>3, <3>4, <3>5
    <3> QED
      BY <3>6, <2>1, <1>4
  <2>3. CASE ~MoreThreads
    <3>1. Signal(pc) /\ counter' = counter + 0 /\ idle' = idle + 0
      BY <1>1, <1>5, <2>3 DEF AddResource
    <3>2. Shift(0, 0)
      BY <1>1, <1>2, <1>3, <3>1, SignalCounts DEF m, i
    <3> QED
      BY <3>2, <2>1, <1>4
  <2> QED
    BY <2>2, <2>3
<1>6. ASSUME NEW r \in Resources, AddFails(r) PROVE Good
  <2>1. main = "handler" /\ main' = main /\ counter < max + 1
    BY <1>6 DEF AddFails, Enqueue, MoreThreads
  <2>2. CASE UNCHANGED <<pc, idle, counter>>
    <3>1. Shift(0, 0)
      BY <1>1, <1>2, <1>3, <2>2 DEF m, i
    <3> QED
      BY <3>1, <2>1, <1>4
  <2>3. CASE Join /\ \E t \in Threads : pc[t] = "none" /\ pc' = [pc EXCEPT ![t] = "lost"]
    <3>0. PICK t \in Threads : pc[t] = "none" /\ pc' = [pc EXCEPT ![t] = "lost"]
      BY <2>3, Zenon
    <3>a. Cardinality(MemberSet(pc')) = m + 1
      BY <1>1, <3>0, MovedMembers, Zenon DEF Places, m
    <3>b. Cardinality(IdleSet(pc')) = i + 1
      BY <1>1, <3>0, MovedIdle, Zenon DEF Places, Idling, i
    <3>1. Cardinality(MemberSet(pc')) = m + 1 /\ Cardinality(IdleSet(pc')) = i + 1
      BY <3>a, <3>b
    <3>2. m + 1 <= max
      BY <1>1, <1>2, <1>3, <2>1 DEF InPool
    <3>3. Shift(1, 1)
      BY <1>3, <2>3, <3>1, <3>2 DEF Join
    <3> QED
      BY <3>3, <2>1, <1>4
  <2> QED
    BY <1>6, <2>2, <2>3 DEF AddFails
<1>7. ASSUME NEW t \in Threads, pc[t] # "none"
      PROVE  main \in {"handler", "closing"}
  BY <1>2, <1>7 DEF MemberSet, CountInv, TypeOK
<1>8. ASSUME NEW t \in Threads, Loop(t) PROVE Good
  <2>1. main \in {"handler", "closing"} /\ main' = main /\ pc[t] \in {"lock", "again", "woken", "timedout"}
    BY <1>7, <1>8 DEF Loop
  <2>2. IdleAgain(t) = IF pc[t] = "again" THEN idle + 1 ELSE idle
    BY DEF IdleAgain
  <2>3. CASE MemberExit(t)
    <3>1. Cardinality(MemberSet(pc')) = m - 1 /\ m >= 1
      BY <1>1, <2>1, <2>3, MovedMembers, Zenon DEF MemberExit, Places, m
    <3>2. CASE pc[t] = "again"
      <4>1. Cardinality(IdleSet(pc')) = i
        BY <1>1, <3>2, <2>3, MovedIdle, Zenon DEF MemberExit, Places, Idling, i
      <4>2. Shift(-1, 0)
        BY <1>1, <1>2, <1>3, <2>2, <2>3, <3>1, <3>2, <4>1 DEF MemberExit
      <4> QED
        BY <4>2, <2>1, <1>4
    <3>3. CASE pc[t] # "again"
      <4>1. Cardinality(IdleSet(pc')) = i - 1 /\ i >= 1
        BY <1>1, <2>1, <3>3, <2>3, MovedIdle, Zenon DEF MemberExit, Places, Idling, i
      <4>2. Shift(-1, -1)
        BY <1>1, <1>2, <1>3, <2>2, <2>3, <3>1, <3>3, <4>1 DEF MemberExit
      <4> QED
        BY <4>2, <2>1, <1>4
    <3> QED
      BY <3>2, <3>3
  <2>4. CASE ResourceRemove(t)
    <3>1. Cardinality(MemberSet(pc')) = m
      BY <1>1, <2>1, <2>4, MovedMembers, Zenon DEF ResourceRemove, Places, m
    <3>2. CASE pc[t] = "again"
      <4>1. Cardinality(IdleSet(pc')) = i
        BY <1>1, <3>2, <2>4, MovedIdle, Zenon DEF ResourceRemove, Places, Idling, i
      <4>2. Shift(0, 0)
        BY <1>1, <1>2, <1>3, <2>2, <2>4, <3>1, <3>2, <4>1 DEF ResourceRemove
      <4> QED
        BY <4>2, <2>1, <1>4
    <3>3. CASE pc[t] # "again"
      <4>1. Cardinality(IdleSet(pc')) = i - 1 /\ i >= 1
        BY <1>1, <2>1, <3>3, <2>4, MovedIdle, Zenon DEF ResourceRemove, Places, Idling, i
      <4>2. Shift(0, -1)
        BY <1>1, <1>2, <1>3, <2>2, <2>4, <3>1, <3>3, <4>1 DEF ResourceRemove
      <4> QED
        BY <4>2, <2>1, <1>4
    <3> QED
      BY <3>2, <3>3
  <2>5. CASE Wait(t)
    <3>1. Cardinality(MemberSet(pc')) = m
      BY <1>1, <2>1, <2>5, MovedMembers, Zenon DEF Wait, Places, m
    <3>2. CASE pc[t] = "again"
      <4>1. Cardinality(IdleSet(pc')) = i + 1
        BY <1>1, <3>2, <2>5, MovedIdle, Zenon DEF Wait, Places, Idling, i
      <4>2. Shift(0, 1)
        BY <1>1, <1>2, <1>3, <2>2, <2>5, <3>1, <3>2, <4>1 DEF Wait
      <4> QED
        BY <4>2, <2>1, <1>4
    <3>3. CASE pc[t] # "again"
      <4>1. Cardinality(IdleSet(pc')) = i
        BY <1>1, <2>1, <3>3, <2>5, MovedIdle, Zenon DEF Wait, Places, Idling, i
      <4>2. Shift(0, 0)
        BY <1>1, <1>2, <1>3, <2>2, <2>5, <3>1, <3>3, <4>1 DEF Wait
      <4> QED
        BY <4>2, <2>1, <1>4
    <3> QED
      BY <3>2, <3>3
  <2> QED
    BY <1>8, <2>3, <2>4, <2>5 DEF Loop
<1>9. ASSUME NEW t \in Threads, TimedOut(t) \/ Spurious(t) \/ Processed(t) PROVE Good
  <2>1. main \in {"handler", "closing"} /\ main' = main
    BY <1>7, <1>9 DEF TimedOut, Spurious, Processed
  <2>2. MemberSet(pc') = MemberSet(pc) /\ IdleSet(pc') = IdleSet(pc)
    BY <1>1, <1>9 DEF TimedOut, Spurious, Processed, MemberSet, IdleSet, Idling
  <2>3. Shift(0, 0)
    BY <1>1, <1>2, <1>3, <1>9, <2>2 DEF TimedOut, Spurious, Processed, m, i
  <2> QED
    BY <2>1, <2>3, <1>4
<1>10. ASSUME ThreadQuit PROVE Good
  <2>1. main \in {"handler", "closing"} /\ main' = main
    BY <1>7, <1>10 DEF ThreadQuit
  <2>2. Shift(0, 0)
    BY <1>1, <1>2, <1>3, <1>10 DEF ThreadQuit, m, i
  <2> QED
    BY <2>1, <2>2, <1>4
<1>11. ASSUME MainReturns PROVE Good
  <2>1. InPool /\ InPool' /\ main' \notin {"exited", "freed"}
    BY <1>11 DEF MainReturns, InPool
  <2>2. pc' = pc /\ counter' = counter /\ idle' = idle
    BY <1>11 DEF MainReturns
  <2> QED
    BY <1>1, <1>2, <2>1, <2>2, CountsNext DEF m, i
<1>12. ASSUME Broadcast PROVE Good
  <2>1. main \in {"handler", "closing"} /\ main' = main
    BY <1>12 DEF Broadcast
  <2>2. MemberSet(pc') = MemberSet(pc) /\ IdleSet(pc') = IdleSet(pc)
    BY <1>1, <1>12 DEF Broadcast, MemberSet, IdleSet, Idling
  <2>3. Shift(0, 0)
    BY <1>1, <1>2, <1>3, <1>12, <2>2 DEF Broadcast, m, i
  <2> QED
    BY <2>1, <2>3, <1>4
<1>13. ASSUME MainExit PROVE Good
  <2>1. InPool /\ ~InPool' /\ pc' = pc /\ counter' = counter - 1 /\ idle' = idle - 1 /\ counter <= 1
    BY <1>13 DEF MainExit, InPool, LastOne
  <2>2. m = 0
    BY <1>2, <1>3, <2>1
  <2>3. MemberSet(pc) = {}
    <3>1. MemberSet(pc) \in SUBSET Threads
      BY DEF MemberSet
    <3> QED
      BY <2>2, <3>1, ThreadsAssumption, FS_Subset, FS_EmptySet DEF m
  <2>4. counter' = m + 0 /\ idle' = i + 0
    BY <1>2, <1>3, <2>1
  <2>5. counter' \in Nat /\ idle' \in Nat
    BY <1>3, <2>4
  <2> QED
    BY <1>2, <2>1, <2>3, <2>4, <2>5, CountsNext DEF m, i
<1>14. ASSUME PoolFree PROVE Good
  <2>1. ~InPool /\ ~InPool' /\ pc' = pc /\ counter' = counter /\ idle' = idle
    BY <1>14 DEF PoolFree, InPool
  <2>2. MemberSet(pc) = {}
    BY <1>2, <1>14 DEF PoolFree
  <2> QED
    BY <1>1, <1>2, <2>1, <2>2, CountsNext DEF m, i
<1>15. ASSUME UNCHANGED vars PROVE Good
  <2>1. pc' = pc /\ counter' = counter /\ idle' = idle /\ main' = main /\ (InPool' <=> InPool)
    BY <1>15 DEF vars, InPool
  <2> QED
    BY <1>1, <1>2, <2>1, CountsNext DEF m, i
<1>16. Good
  BY <1>5, <1>6, <1>8, <1>9, <1>10, <1>11, <1>12, <1>13, <1>14, <1>15, Zenon DEF Next, ChildStep, MainStep
<1>17. TypeOK'
  BY <1>16, TypeStep DEF CountInv
<1> QED
  BY <1>16, <1>17 DEF CountInv

(* The inductive invariant of the counts.                                  *)
LEMMA CountSafe == Spec => []CountInv
  BY CountInit, CountStep, PTL DEF Spec

(* In every reachable state of the pool the types hold, the counts are     *)
(* those of the members, and at most max child threads exist.              *)
THEOREM CountsRight == Spec => [](TypeOK /\ CountsMatch /\ ThreadLimit)
<1>1. CountInv => TypeOK /\ CountsMatch /\ ThreadLimit
  BY DEF CountInv
<1> QED
  BY <1>1, CountSafe, PTL

(* The pool is not freed under a child thread that still uses it           *)
(* (mln_thread_pool_free, child_thread_launcher).                          *)
THEOREM PoolStays == Spec => []PoolOutlivesChildren
<1>1. CountInv => PoolOutlivesChildren
  BY DEF CountInv
<1> QED
  BY <1>1, CountSafe, PTL

-----------------------------------------------------------------------------
(* If mln_thread_pool_resource_add creates no thread, there is a member:   *)
(* an idle one, or the limit (of one or more) is reached.                  *)
LEMMA SomeMember ==
  ASSUME CountInv, max > 0, main = "handler", ~MoreThreads
  PROVE  \E t \in Threads : pc[t] # "none"
<1>1. MemberSet(pc) \in SUBSET Threads /\ IdleSet(pc) \in SUBSET Threads
  BY DEF MemberSet, IdleSet
<1>2. IsFiniteSet(MemberSet(pc)) /\ IsFiniteSet(IdleSet(pc))
  BY <1>1, ThreadsAssumption, FS_Subset
<1>3. counter = Cardinality(MemberSet(pc)) + 1 /\ idle = Cardinality(IdleSet(pc)) + 1
  BY Counts DEF CountInv, InPool
<1>4. Cardinality(MemberSet(pc)) \in Nat /\ Cardinality(IdleSet(pc)) \in Nat
  BY <1>2, FS_CardinalityType
<1>5. Cardinality(MemberSet(pc)) # 0 \/ Cardinality(IdleSet(pc)) # 0
  BY <1>3, <1>4, MaxAssumption DEF MoreThreads
<1>6. MemberSet(pc) # {} \/ IdleSet(pc) # {}
  BY <1>5, FS_EmptySet
<1> QED
  BY <1>6 DEF MemberSet, IdleSet, Idling

(* Every step keeps a child thread on its way to a chain that is not empty.*)
LEMMA WakeStep ==
  ASSUME CountInv, NoLostWakeup, max > 0, [Next]_vars
  PROVE  NoLostWakeup'
<1> SUFFICES ASSUME ~quit', Intact', ~(Range(res') \subseteq refused')
             PROVE  \E t \in Threads : pc'[t] \notin {"none", "wait"}
  BY DEF NoLostWakeup, Intact
<1> DEFINE Busy(t) == pc[t] \notin {"none", "wait"}
<1>1. pc \in [Threads -> Places] /\ \A t \in Threads : pc'[t] # "lost"
  BY DEF CountInv, TypeOK, Intact
<1>2. ASSUME Intact, ~quit, res' = res, refused' = refused PROVE \E t \in Threads : Busy(t)
  BY <1>2 DEF NoLostWakeup
<1>3. ASSUME NEW r \in Resources, AddResource(r)
      PROVE  \E t \in Threads : pc'[t] \notin {"none", "wait"}
  <2>1. CASE MoreThreads
    <3>1. PICK t \in Threads : pc[t] = "none" /\ Signal([pc EXCEPT ![t] = "lock"])
      BY <1>3, <2>1 DEF AddResource
    <3>2. pc'[t] = "lock"
      BY <1>1, <3>1 DEF Signal
    <3> QED
      BY <3>2
  <2>2. CASE ~MoreThreads
    <3>1. Signal(pc) /\ main = "handler"
      BY <1>3, <2>2 DEF AddResource, Enqueue
    <3>2. PICK t \in Threads : pc[t] # "none"
      BY <2>2, <3>1, SomeMember
    <3> QED
      BY <1>1, <3>1, <3>2 DEF Signal
  <2> QED
    BY <2>1, <2>2
<1>4. ASSUME NEW r \in Resources, AddFails(r)
      PROVE  \E t \in Threads : pc'[t] \notin {"none", "wait"}
  <2>1. pc' = pc
    <3>1. ASSUME NEW t \in Threads, pc' = [pc EXCEPT ![t] = "lost"] PROVE FALSE
      BY <1>1, <3>1
    <3> QED
      BY <1>4, <3>1 DEF AddFails
  <2>2. res \in Seq(Resources) /\ res' = Append(res, r) /\ refused' = refused \cup {r}
    BY <1>4 DEF AddFails, Enqueue, CountInv, TypeOK
  <2>3. Range(res') \subseteq Range(res) \cup {r}
    BY <2>2, AppendProperties DEF Range
  <2>4. ~quit /\ Intact /\ ~(Range(res) \subseteq refused)
    BY <1>1, <1>4, <2>1, <2>2, <2>3 DEF AddFails, Intact
  <2> QED
    BY <2>1, <2>4 DEF NoLostWakeup
<1>5. ASSUME NEW t \in Threads, Loop(t)
      PROVE  \E u \in Threads : pc'[u] \notin {"none", "wait"}
  <2>1. res' # <<>>
    BY DEF Range
  <2>2. ~MemberExit(t) /\ ~Wait(t)
    BY <1>5, <2>1 DEF Loop, MemberExit, ResourceRemove, Wait
  <2>3. ResourceRemove(t)
    BY <1>5, <2>2 DEF Loop
  <2> QED
    BY <1>1, <2>3 DEF ResourceRemove
<1>6. ASSUME NEW t \in Threads, TimedOut(t) \/ Spurious(t) \/ Processed(t)
      PROVE  \E u \in Threads : pc'[u] \notin {"none", "wait"}
  BY <1>1, <1>6 DEF TimedOut, Spurious, Processed
<1>7. ~ThreadQuit /\ ~MainReturns
  BY DEF ThreadQuit, MainReturns
<1>8. ASSUME Broadcast PROVE \E t \in Threads : pc'[t] \notin {"none", "wait"}
  <2>1. \A t \in Threads : pc[t] # "lost" /\ (Busy(t) => pc'[t] = pc[t])
    BY <1>1, <1>8 DEF Broadcast
  <2>2. Intact /\ ~quit /\ res' = res /\ refused' = refused
    BY <1>8, <2>1 DEF Broadcast, Intact
  <2> QED
    BY <1>2, <2>1, <2>2
<1>9. ASSUME MainExit \/ UNCHANGED vars PROVE \E t \in Threads : pc'[t] \notin {"none", "wait"}
  BY <1>2, <1>9 DEF MainExit, vars, Intact
<1>10. ~PoolFree
  BY DEF PoolFree, Range
<1> QED
  BY <1>3, <1>4, <1>5, <1>6, <1>7, <1>8, <1>9, <1>10 DEF Next, ChildStep, MainStep

(* No wakeup of the pool is lost, whatever the number of threads: if one   *)
(* child thread or more is allowed, a resource that was added without an   *)
(* error always has a child thread on its way to it, as long as every      *)
(* pthread_create has succeeded.                                           *)
THEOREM WakeupsReach == max > 0 => (Spec => []NoLostWakeup)
<1> SUFFICES ASSUME max > 0 PROVE Spec => []NoLostWakeup
  OBVIOUS
<1>1. Init => CountInv /\ NoLostWakeup
  BY CountInit DEF Init, NoLostWakeup, Range
<1>2. CountInv /\ NoLostWakeup /\ [Next]_vars => (CountInv /\ NoLostWakeup)'
  BY CountStep, WakeStep
<1> QED
  BY <1>1, <1>2, PTL DEF Spec

-----------------------------------------------------------------------------
OnceInv == EachOnce /\ \A t \in Threads : data[t] \subseteq given

(* What the chain holds after a resource is added at its tail.             *)
LEMMA AppendOnce ==
  ASSUME NEW s \in Seq(Resources), NEW r \in Resources, r \notin Range(s),
         \A m, n \in DOMAIN s : s[m] = s[n] => m = n
  PROVE  /\ Range(Append(s, r)) = Range(s) \cup {r}
         /\ \A m, n \in DOMAIN Append(s, r) : Append(s, r)[m] = Append(s, r)[n] => m = n
<1> DEFINE a == Append(s, r)
<1>1. /\ DOMAIN s = 1..Len(s) /\ Len(s) \in Nat
      /\ DOMAIN a = 1..(Len(s) + 1)
      /\ \A k \in 1..Len(s) : a[k] = s[k]
      /\ a[Len(s) + 1] = r
  BY AppendProperties, LenProperties
<1> HIDE DEF a
<1>2. Range(a) = Range(s) \cup {r}
  BY <1>1 DEF Range
<1>3. \A k \in 1..Len(s) : s[k] # r
  BY <1>1 DEF Range
<1>4. \A m, n \in DOMAIN a : a[m] = a[n] => m = n
  <2> TAKE m, n \in DOMAIN a
  <2>1. (m \in 1..Len(s) \/ m = Len(s) + 1) /\ (n \in 1..Len(s) \/ n = Len(s) + 1)
    BY <1>1
  <2> QED
    BY <1>1, <1>3, <2>1
<1> QED
  BY <1>2, <1>4 DEF a

(* What the chain holds after the resource at its head is taken.           *)
LEMMA TailOnce ==
  ASSUME NEW s \in Seq(Resources), s # <<>>,
         \A m, n \in DOMAIN s : s[m] = s[n] => m = n
  PROVE  /\ Range(s) = Range(Tail(s)) \cup {Head(s)} /\ Head(s) \notin Range(Tail(s))
         /\ \A m, n \in DOMAIN Tail(s) : Tail(s)[m] = Tail(s)[n] => m = n
<1> DEFINE a == Tail(s)
           L == Len(s)
<1>1. /\ DOMAIN s = 1..L /\ L \in Nat /\ L > 0
      /\ DOMAIN a = 1..(L - 1)
      /\ \A k \in 1..(L - 1) : a[k] = s[k + 1]
      /\ Head(s) = s[1]
  BY HeadTailProperties, LenProperties, EmptySeq
<1> HIDE DEF a, L
<1>2. Range(s) = Range(a) \cup {Head(s)}
  <2>1. \A k \in 1..L : k = 1 \/ (k - 1 \in 1..(L - 1) /\ s[k] = a[k - 1])
    BY <1>1
  <2>2. \A k \in 1..(L - 1) : k + 1 \in 1..L
    BY <1>1
  <2>3. 1 \in 1..L
    BY <1>1
  <2>4. Range(s) \subseteq Range(a) \cup {Head(s)}
    <3> SUFFICES ASSUME NEW k \in 1..L PROVE s[k] \in Range(a) \cup {Head(s)}
      BY <1>1 DEF Range
    <3>1. CASE k = 1
      BY <1>1, <3>1
    <3>2. CASE k - 1 \in DOMAIN a /\ s[k] = a[k - 1]
      BY <3>2 DEF Range
    <3> QED
      BY <1>1, <2>1, <3>1, <3>2
  <2>5. Range(a) \subseteq Range(s)
    BY <1>1, <2>2 DEF Range
  <2>6. Head(s) \in Range(s)
    BY <1>1, <2>3 DEF Range
  <2> QED
    BY <2>4, <2>5, <2>6
<1>3. Head(s) \notin Range(a)
  <2>1. \A k \in 1..(L - 1) : k + 1 \in 1..L /\ k + 1 # 1 /\ 1 \in 1..L
    BY <1>1
  <2> QED
    BY <1>1, <2>1, SMTT(20) DEF Range
<1>4. \A m, n \in DOMAIN a : a[m] = a[n] => m = n
  <2> TAKE m, n \in DOMAIN a
  <2>1. m + 1 \in 1..L /\ n + 1 \in 1..L /\ a[m] = s[m + 1] /\ a[n] = s[n + 1]
    BY <1>1
  <2> QED
    BY <1>1, <2>1
<1> QED
  BY <1>2, <1>3, <1>4 DEF a

(* Every step keeps each added resource in one place.                      *)
LEMMA OnceStep == ASSUME TypeOK, OnceInv, [Next]_vars PROVE OnceInv'
<1> USE DEF OnceInv, EachOnce
<1>0. res \in Seq(Resources) /\ data \in [Threads -> SUBSET Resources]
  BY DEF TypeOK
<1>1. ASSUME NEW r \in Resources, AddResource(r) \/ AddFails(r) PROVE OnceInv'
  <2>1. /\ res' = Append(res, r) /\ added' = added \cup {r} /\ r \notin added
        /\ UNCHANGED <<data, given, freed>>
    BY <1>1 DEF AddResource, AddFails, Enqueue
  <2>2. r \notin Range(res)
    BY <2>1
  <2>3. /\ Range(res') = Range(res) \cup {r}
        /\ \A m, n \in DOMAIN res' : res'[m] = res'[n] => m = n
    <3>1. \A m, n \in DOMAIN res : res[m] = res[n] => m = n
      OBVIOUS
    <3> QED
      BY <1>0, <2>1, <2>2, <3>1, AppendOnce
  <2>4. added' = Range(res') \cup given' \cup freed'
    BY <2>1, <2>3
  <2>5. Range(res') \cap given' = {} /\ Range(res') \cap freed' = {}
    BY <2>1, <2>3, ZenonT(30)
  <2> QED
    BY <2>1, <2>3, <2>4, <2>5
<1>2. ASSUME NEW t \in Threads, Loop(t) PROVE OnceInv'
  <2>1. CASE MemberExit(t)
    <3>1. data[t] = {}
      BY <1>2 DEF Loop, TypeOK
    <3>2. data' = data /\ freed' = freed /\ added' = added /\ res' = res /\ given' = given
      BY <1>0, <1>2, <2>1, <3>1, Zenon DEF Loop, MemberExit
    <3> QED
      BY <3>2
  <2>2. CASE ResourceRemove(t)
    <3>1. /\ Range(res) = Range(Tail(res)) \cup {Head(res)} /\ Head(res) \notin Range(Tail(res))
          /\ \A m, n \in DOMAIN Tail(res) : Tail(res)[m] = Tail(res)[n] => m = n
      BY <1>0, <2>2, TailOnce DEF ResourceRemove
    <3>2. /\ res' = Tail(res) /\ given' = given \cup {Head(res)}
          /\ data' = [data EXCEPT ![t] = {Head(res)}]
          /\ freed' = freed /\ added' = added
      BY <1>2, <2>2, Zenon DEF Loop, ResourceRemove
    <3>3. /\ \A u \in Threads : data'[u] = IF u = t THEN {Head(res)} ELSE data[u]
          /\ Head(res) \notin given /\ Head(res) \notin freed
      BY <1>0, <3>1, <3>2
    <3>4. \A u \in Threads : data'[u] \subseteq given'
      BY <3>2, <3>3
    <3>5. \A u, v \in Threads : u # v => data'[u] \cap data'[v] = {}
      BY <3>3
    <3>6. /\ added' = Range(res') \cup given' \cup freed'
          /\ Range(res') \cap given' = {} /\ Range(res') \cap freed' = {} /\ given' \cap freed' = {}
      BY <3>1, <3>2, <3>3
    <3>7. \A m, n \in DOMAIN res' : res'[m] = res'[n] => m = n
      BY <3>1, <3>2
    <3> QED
      BY <3>4, <3>5, <3>6, <3>7, Zenon
  <2>3. CASE Wait(t)
    BY <1>2, <2>3, Zenon DEF Loop, Wait
  <2> QED
    BY <1>2, <2>1, <2>2, <2>3 DEF Loop
<1>3. ASSUME NEW t \in Threads, TimedOut(t) \/ Spurious(t) PROVE OnceInv'
  BY <1>3 DEF TimedOut, Spurious
<1>4. ASSUME NEW t \in Threads, Processed(t) PROVE OnceInv'
  <2>1. \A u \in Threads : data'[u] \subseteq data[u]
    BY <1>0, <1>4 DEF Processed
  <2>2. res' = res /\ given' = given /\ freed' = freed /\ added' = added
    BY <1>4 DEF Processed
  <2> QED
    BY <2>1, <2>2
<1>5. ASSUME ThreadQuit \/ MainReturns \/ Broadcast \/ MainExit \/ UNCHANGED vars PROVE OnceInv'
  BY <1>5, Zenon DEF ThreadQuit, MainReturns, Broadcast, MainExit, vars
<1>6. ASSUME PoolFree PROVE OnceInv'
  <2>1. Range(res') = {} /\ DOMAIN res' = {}
    BY <1>6 DEF PoolFree, Range
  <2> QED
    BY <1>6, <2>1 DEF PoolFree
<1> QED
  BY <1>1, <1>2, <1>3, <1>4, <1>5, <1>6, Zenon DEF Next, ChildStep, MainStep

(* A resource handed to the pool is processed by one child thread at most, *)
(* or freed, and never both, whether or not threads can be created.        *)
THEOREM ResourcesOnce == Spec => []EachOnce
<1>1. Init => CountInv /\ OnceInv
  <2>1. Init => OnceInv
    BY DEF Init, OnceInv, EachOnce, Range
  <2> QED
    BY <2>1, CountInit
<1>2. CountInv /\ OnceInv /\ [Next]_vars => (CountInv /\ OnceInv)'
  BY CountStep, OnceStep DEF CountInv
<1>3. OnceInv => EachOnce
  BY DEF OnceInv
<1> QED
  BY <1>1, <1>2, <1>3, PTL DEF Spec
=============================================================================
