--------------------------- MODULE CircBufProof ----------------------------
(***************************************************************************)
(* Proofs about CircBuf for every number of slots and every set of         *)
(* elements.                                                               *)
(***************************************************************************)
EXTENDS CircBuf, SequenceTheorems, TLAPS

(* What the calls in progress know.  A caller between its check and its    *)
(* store relies on the other side only ever moving the counters apart from *)
(* the limit it checked; and what has been copied is still in the slot.    *)
InProgress ==
  /\ producer.pc = "wrap" <=> push_count = 2 * size
  /\ consumer.pc = "wrap" <=> pop_count = 2 * size
  /\ ~SplitWrap => producer.pc # "wrap" /\ consumer.pc # "wrap"
  /\ Serialised => producer.pc = "idle" \/ consumer.pc = "idle"
  /\ producer.pc \in {"copy", "count"} => producer.elem \in Elem /\ total < size
  /\ consumer.pc \in {"copy", "count"} => total > 0
  /\ producer.pc = "count" => buffer[Slot(push_count)] = producer.elem
  /\ consumer.pc = "count" => buffer[Slot(pop_count)] = consumer.elem

IInv == TypeOK /\ FreeSpaceInRange /\ InProgress

-----------------------------------------------------------------------------
(* The slot of a counter, lap by lap ("% size" in circbuf.c).              *)
LEMMA SlotFirstLap == ASSUME NEW c \in 0 .. size - 1 PROVE Slot(c) = c
BY SizeAssumption DEF Slot

(* In the second lap of the buffer "% size" takes one size off the counter. *)
LEMMA SlotSecondLap == ASSUME NEW c \in size .. 2 * size - 1 PROVE Slot(c) = c - size
BY SizeAssumption DEF Slot

(* The lap a counter reaches only between its increment and its reset.     *)
LEMMA SlotThirdLap == ASSUME NEW c \in 2 * size .. 3 * size - 1 PROVE Slot(c) = c - 2 * size
BY SizeAssumption DEF Slot

(* Whatever lap the counter is in, its slot is inside the buffer.          *)
LEMMA SlotInRange == ASSUME NEW c \in 0 .. 3 * size - 1 PROVE Slot(c) \in Slots
BY SizeAssumption, SlotFirstLap, SlotSecondLap, SlotThirdLap, SMTT(20) DEF Slots

-----------------------------------------------------------------------------
(* Types alone: the counters stay within 0..2*size in every build and      *)
(* under every interleaving, even where the FIFO order is lost.            *)
TInv == /\ TypeOK
        /\ producer.pc = "wrap" <=> push_count = 2 * size
        /\ consumer.pc = "wrap" <=> pop_count = 2 * size

(* No step changes the build: it is fixed when circbuf.c is compiled.      *)
LEMMA BuildFixed == [Next]_vars => build' = build
BY Zenon DEF Next, vars, PushFull, PushCheck, PushCopy, PushCount, PushWrap,
       PopEmpty, PopCheck, PopCopy, PopCount, PopWrap, Flush

(* Every step of push, pop and flush keeps counters, slots and positions   *)
(* in their ranges.                                                        *)
LEMMA TypeStep == TInv /\ [Next]_vars => TInv'
<1> SUFFICES ASSUME TInv, [Next]_vars PROVE TInv'
  OBVIOUS
<1> build' = build
  BY BuildFixed
<1> USE SizeAssumption, BuildAssumption DEF TInv, TypeOK, SplitWrap
<1>1. CASE PushFull
  BY <1>1 DEF PushFull
<1>2. ASSUME NEW e \in Elem, PushCheck(e) PROVE TInv'
  BY <1>2 DEF PushCheck, MayPush
<1>3. CASE PushCopy
  BY <1>3, SlotInRange DEF PushCopy
<1>4. CASE PushCount
  BY <1>4 DEF PushCount, Wrapped
<1>5. CASE PushWrap
  BY <1>5 DEF PushWrap
<1>6. CASE PopEmpty
  BY <1>6 DEF PopEmpty
<1>7. ASSUME NEW ro \in BOOLEAN, PopCheck(ro) PROVE TInv'
  BY <1>7, Zenon DEF PopCheck, MayPop
<1>8. CASE PopCopy
  <2>1. tail \in Elem \cup {Zero}
    BY <1>8, SlotInRange DEF PopCopy, tail
  <2>2. consumer' \in [pc : {"idle", "copy", "count", "wrap"}, elem : Elem \cup {Zero},
                       read_only : BOOLEAN] /\ consumer'.pc # "wrap"
    <3>1. \E l \in {"idle", "count"} : consumer' = [consumer EXCEPT !.pc = l, !.elem = tail]
      BY <1>8 DEF PopCopy
    <3>2. consumer \in [pc : {"idle", "copy", "count", "wrap"}, elem : Elem \cup {Zero},
                        read_only : BOOLEAN]
      OBVIOUS
    <3> HIDE DEF TInv, TypeOK, SplitWrap
    <3> QED
      BY <2>1, <3>1, <3>2, Zenon
  <2>3. popped' \in [rc : {"none", "empty"}] \cup [rc : {"ok"}, elem : Elem \cup {Zero}]
    <3>1. popped \in [rc : {"none", "empty"}] \cup [rc : {"ok"}, elem : Elem \cup {Zero}]
      OBVIOUS
    <3>2. popped' = popped \/ popped' = [rc |-> "ok", elem |-> tail]
      BY <1>8 DEF PopCopy
    <3> QED
      BY <2>1, <3>1, <3>2
  <2>4. UNCHANGED <<buffer, push_count, pop_count, producer, pushed>> /\ consumer.pc = "copy"
    BY <1>8 DEF PopCopy
  <2> QED
    BY <2>2, <2>3, <2>4
<1>9. CASE PopCount
  BY <1>9 DEF PopCount, Wrapped
<1>10. CASE PopWrap
  BY <1>10 DEF PopWrap
<1>11. CASE Flush
  BY <1>11 DEF Flush
<1>12. CASE UNCHANGED vars
  BY <1>12 DEF vars
<1> QED
  BY <1>1, <1>2, <1>3, <1>4, <1>5, <1>6, <1>7, <1>8, <1>9, <1>10, <1>11, <1>12
     DEF Next

(* For every size: the counters of __circbuf_push and __circbuf_pop stay   *)
(* below 2*size + 1 and no call ever addresses a slot outside the buffer.  *)
THEOREM TypeCorrect == Spec => []TypeOK
<1>1. Init => TInv
  BY SizeAssumption DEF Init, TInv, TypeOK
<1>2. TInv => TypeOK
  BY DEF TInv
<1> QED
  BY <1>1, <1>2, TypeStep, PTL DEF Spec

-----------------------------------------------------------------------------
(* The interference-free uses: a build with one store per counter, or      *)
(* calls that never overlap.                                               *)
SafeUse == "two_stores" \notin Builds

(* In a safe use, a build that splits the store is used by one call at a   *)
(* time.                                                                   *)
LEMMA SafeSplit == ASSUME SafeUse, TypeOK PROVE SplitWrap => Serialised
BY BuildAssumption DEF SafeUse, TypeOK, SplitWrap, Serialised

(* total, whichever counter is ahead.                                      *)
LEMMA TotalInRange ==
  ASSUME TypeOK, FreeSpaceInRange
  PROVE  /\ total \in 0 .. size
         /\ push_count - pop_count >= 0 => total = push_count - pop_count
         /\ push_count - pop_count < 0 => total = push_count - pop_count + 2 * size
BY SizeAssumption, SMTT(20) DEF TypeOK, FreeSpaceInRange, free_space, total

(* Every step of a safe use keeps the inductive invariant.                 *)
LEMMA InvStep ==
  ASSUME SafeUse, IInv, [Next]_vars
  PROVE  IInv'
<1> USE SizeAssumption
<1> (SplitWrap' <=> SplitWrap) /\ (Serialised' <=> Serialised)
  BY BuildFixed DEF SplitWrap, Serialised
<1> SplitWrap => Serialised
  BY SafeSplit DEF IInv
<1>0. TypeOK'
  BY TypeStep DEF IInv, TInv, InProgress
<1> SUFFICES FreeSpaceInRange' /\ InProgress'
  BY <1>0 DEF IInv
<1> USE DEF IInv, TypeOK, FreeSpaceInRange, free_space, total, InProgress
<1>1. CASE PushFull
  BY <1>1 DEF PushFull
<1>2. ASSUME NEW e \in Elem, PushCheck(e) PROVE FreeSpaceInRange' /\ InProgress'
  BY <1>2 DEF PushCheck, MayPush
<1>3. CASE PushCopy
  <2>1. FreeSpaceInRange'
    BY <1>3 DEF PushCopy
  <2>2. Slot(push_count) \in Slots /\ buffer'[Slot(push_count)] = producer.elem
    BY <1>3, SlotInRange DEF PushCopy
  <2>3. ASSUME consumer.pc = "count" PROVE buffer'[Slot(pop_count)] = consumer.elem
    <3>1. push_count # pop_count /\ total \in 1 .. size - 1
      BY <1>3, <2>3, TotalInRange DEF PushCopy
    <3>2. Slot(push_count) # Slot(pop_count)
      BY <1>3, <2>3, <3>1, TotalInRange, SlotFirstLap, SlotSecondLap DEF PushCopy
    <3> QED
      BY <1>3, <2>3, <3>2, SlotInRange DEF PushCopy
  <2> QED
    BY <1>3, <2>1, <2>2, <2>3 DEF PushCopy
<1>4. CASE PushCount
  BY <1>4 DEF PushCount, Wrapped
<1>5. CASE PushWrap
  BY <1>5 DEF PushWrap
<1>6. CASE PopEmpty
  BY <1>6 DEF PopEmpty
<1>7. ASSUME NEW ro \in BOOLEAN, PopCheck(ro) PROVE FreeSpaceInRange' /\ InProgress'
  BY <1>7 DEF PopCheck, MayPop
<1>8. CASE PopCopy
  BY <1>8, ZenonT(30) DEF PopCopy, tail
<1>9. CASE PopCount
  <2>1. CASE SplitWrap
    <3>1. /\ producer' = producer /\ push_count' = push_count /\ buffer' = buffer
          /\ pop_count' = pop_count + 1
          /\ consumer'.pc = IF pop_count + 1 >= 2 * size THEN "wrap" ELSE "idle"
      BY <1>9, <2>1 DEF PopCount
    <3>2. /\ producer.pc = "idle" /\ push_count # 2 * size
          /\ total \in 1 .. size /\ pop_count \in 0 .. 2 * size - 1
      BY <1>9, <2>1 DEF PopCount
    <3>3. total' = total - 1
      BY <3>1, <3>2
    <3>4. FreeSpaceInRange'
      BY <3>2, <3>3
    <3>5. InProgress'
      BY <2>1, <3>1, <3>2, <3>3
    <3> QED
      BY <3>4, <3>5
  <2>2. CASE ~SplitWrap
    BY <1>9, <2>2 DEF PopCount, Wrapped
  <2> QED
    BY <2>1, <2>2
<1>10. CASE PopWrap
  BY <1>10 DEF PopWrap
<1>11. CASE Flush
  BY <1>11 DEF Flush
<1>12. CASE UNCHANGED vars
  BY <1>12 DEF vars
<1> QED
  BY <1>1, <1>2, <1>3, <1>4, <1>5, <1>6, <1>7, <1>8, <1>9, <1>10, <1>11, <1>12, Zenon
     DEF Next

(* __CIRCBUF_VAR_DEF starts both counters at 0: an empty buffer, no call.  *)
LEMMA InvInit == Init => IInv
BY SizeAssumption DEF SplitWrap, Serialised, Init, IInv, TypeOK, FreeSpaceInRange, free_space, total, InProgress

(* In a safe use CIRCBUF_FS answers within 0..size and the memcpy of a     *)
(* push never meets the memcpy of a pop in a slot, for every size.         *)
LEMMA LockFreeSafe == SafeUse => (Spec => [](FreeSpaceInRange /\ CopiesDisjoint))
<1> SUFFICES ASSUME SafeUse PROVE Spec => [](FreeSpaceInRange /\ CopiesDisjoint)
  OBVIOUS
<1>1. IInv => FreeSpaceInRange /\ CopiesDisjoint
  <2> SUFFICES ASSUME IInv, producer.pc = "copy", consumer.pc = "copy"
               PROVE  Slot(push_count) # Slot(pop_count)
    BY DEF IInv, CopiesDisjoint
  <2>1. total \in 1 .. size - 1
    BY SizeAssumption, TotalInRange DEF IInv, InProgress
  <2> QED
    BY <2>1, SizeAssumption, TotalInRange, SlotFirstLap, SlotSecondLap
       DEF IInv, TypeOK, InProgress
<1>2. IInv /\ [Next]_vars => IInv'
  BY InvStep
<1> QED
  BY <1>1, <1>2, InvInit, PTL DEF Spec

(* In a safe use CIRCBUF_FS answers within 0..size, for every size.        *)
THEOREM FreeSpaceRight == SafeUse => (Spec => []FreeSpaceInRange)
  BY LockFreeSafe, PTL

(* In a safe use the memcpy of a push never meets the memcpy of a pop in a *)
(* slot, for every size (__circbuf_push, __circbuf_pop).                   *)
THEOREM CopiesApart == SafeUse => (Spec => []CopiesDisjoint)
  BY LockFreeSafe, PTL

-----------------------------------------------------------------------------
(* Sequences given as functions.                                           *)
LEMMA AppendLast ==
  ASSUME NEW S, NEW n \in Nat, NEW g \in [1 .. n + 1 -> S]
  PROVE  g = Append([i \in 1 .. n |-> g[i]], g[n + 1])
<1> DEFINE s == [i \in 1 .. n |-> g[i]]
<1>1. s \in Seq(S) /\ Len(s) = n /\ \A i \in 1 .. n : s[i] = g[i]
  OBVIOUS
<1>2. g \in Seq(S) /\ Len(g) = n + 1 /\ g[n + 1] \in S
  OBVIOUS
<1> HIDE DEF s
<1>3. Append(s, g[n + 1]) = g
  BY <1>1, <1>2, SMT
<1> QED
  BY <1>3 DEF s

(* Two counters less than a lap apart name different slots.                *)
LEMMA SlotsDiffer ==
  ASSUME NEW c \in 0 .. 3 * size - 1, NEW d \in 0 .. 3 * size - 1,
         c < d, d - c < size
  PROVE  Slot(c) # Slot(d)
<1> USE SizeAssumption
<1>1. CASE c < size
  BY <1>1, SlotFirstLap, SlotSecondLap
<1>2. CASE c >= size /\ c < 2 * size
  BY <1>2, SlotSecondLap, SlotThirdLap
<1>3. CASE c >= 2 * size
  BY <1>3, SlotThirdLap
<1> QED
  BY <1>1, <1>2, <1>3

(* Counters a whole number of laps apart name the same slot.               *)
LEMMA SameSlot ==
  ASSUME NEW c \in 0 .. size - 1
  PROVE  Slot(c + 2 * size) = Slot(c)
BY SizeAssumption, SlotFirstLap, SlotThirdLap

(* The elements of Contents.                                               *)
LEMMA ContentsElem ==
  ASSUME TypeOK, NEW i \in 1 .. size
  PROVE  buffer[Slot(pop_count + i - 1)] \in Elem \cup {Zero}
<1>1. pop_count + i - 1 \in 0 .. 3 * size - 1
  BY SizeAssumption DEF TypeOK
<1> QED
  BY <1>1, SlotInRange DEF TypeOK

(* The slot the next push fills is the one after the last element.         *)
LEMMA NextSlot ==
  ASSUME IInv, producer.pc \in {"copy", "count"}
  PROVE  /\ Slot(pop_count + total) = Slot(push_count)
         /\ \A i \in 1 .. total : Slot(pop_count + i - 1) # Slot(push_count)
<1>1. /\ total \in 0 .. size - 1
      /\ push_count \in 0 .. 2 * size - 1
      /\ pop_count \in 0 .. 2 * size
  BY SizeAssumption, TotalInRange DEF IInv, TypeOK, InProgress
<1>2. \/ push_count = pop_count + total
      \/ pop_count + total = push_count + 2 * size /\ push_count < size
  BY <1>1, SizeAssumption, TotalInRange DEF IInv, TypeOK
<1>3. Slot(pop_count + total) = Slot(push_count)
  BY <1>1, <1>2, SizeAssumption, SameSlot
<1>4. ASSUME NEW i \in 1 .. total PROVE Slot(pop_count + i - 1) # Slot(pop_count + total)
  BY <1>1, SizeAssumption, SlotsDiffer
<1> QED
  BY <1>3, <1>4

-----------------------------------------------------------------------------
(* How the steps change the contents.  The memcpy of a push leaves them    *)
(* alone: it writes the first slot past them.                              *)
LEMMA CopyInvisible ==
  ASSUME IInv, PushCopy
  PROVE  Contents' = Contents
<1>1. total' = total
  BY DEF PushCopy, total
<1>2. \A i \in 1 .. total : buffer'[Slot(pop_count + i - 1)] = buffer[Slot(pop_count + i - 1)]
  <2> TAKE i \in 1 .. total
  <2>1. pop_count + i - 1 \in 0 .. 3 * size - 1
    BY SizeAssumption, TotalInRange DEF IInv, TypeOK
  <2>2. Slot(pop_count + i - 1) # Slot(push_count)
    BY NextSlot DEF PushCopy
  <2> QED
    BY <2>1, <2>2, SlotInRange DEF PushCopy, IInv, TypeOK
<1> QED
  BY <1>1, <1>2 DEF Contents, PushCopy

(* The counter store of a push appends the element.                        *)
LEMMA PushAppends ==
  ASSUME SafeUse, IInv, PushCount
  PROVE  /\ total \in 0 .. size - 1
         /\ Contents' = Append(Contents, producer.elem)
<1> USE SizeAssumption, BuildAssumption
<1>1. total' = total + 1 /\ total \in 0 .. size - 1
  BY TotalInRange, SafeSplit DEF IInv, TypeOK, InProgress, PushCount, Wrapped, total
<1>2. producer.elem = buffer[Slot(pop_count + total)]
  BY NextSlot DEF PushCount, IInv, InProgress
<1> DEFINE g == [i \in 1 .. total + 1 |-> buffer[Slot(pop_count + i - 1)]]
<1>3. g \in [1 .. total + 1 -> Elem \cup {Zero}]
  BY <1>1, ContentsElem DEF IInv
<1>4. g = Append([i \in 1 .. total |-> g[i]], g[total + 1])
  BY <1>1, <1>3, AppendLast
<1>5. [i \in 1 .. total |-> g[i]] = Contents /\ g[total + 1] = producer.elem
  BY <1>1, <1>2 DEF Contents
<1>6. Contents' = g
  BY <1>1 DEF Contents, PushCount
<1> QED
  BY <1>1, <1>4, <1>5, <1>6, Zenon

(* The counter store of a pop removes the oldest element, the one copied.  *)
LEMMA PopRemoves ==
  ASSUME SafeUse, IInv, PopCount
  PROVE  /\ Contents # <<>>
         /\ consumer.elem = Head(Contents)
         /\ Contents' = Tail(Contents)
<1> USE SizeAssumption
<1>1. /\ total' = total - 1
      /\ total \in 1 .. size
      /\ pop_count \in 0 .. 2 * size - 1
      /\ pop_count' = pop_count + 1 \/ (pop_count' = 0 /\ pop_count + 1 = 2 * size)
  <2>0. total \in 1 .. size
    BY TotalInRange DEF IInv, InProgress, PopCount
  <2>1. push_count \in 0 .. 2 * size - 1 /\ push_count' = push_count
    BY SafeSplit DEF IInv, TypeOK, InProgress, PopCount
  <2>2. pop_count \in 0 .. 2 * size - 1
    BY DEF IInv, TypeOK, InProgress, PopCount
  <2>3. pop_count' = pop_count + 1 \/ (pop_count' = 0 /\ pop_count + 1 = 2 * size)
    BY <2>2 DEF PopCount, Wrapped
  <2> QED
    BY <2>0, <2>1, <2>2, <2>3 DEF total
<1>2. Contents \in [1 .. total -> Elem \cup {Zero}]
  <2>1. ASSUME NEW i \in 1 .. total PROVE buffer[Slot(pop_count + i - 1)] \in Elem \cup {Zero}
    BY <1>1, ContentsElem DEF IInv
  <2> QED
    BY <2>1 DEF Contents
<1>3. /\ Contents \in Seq(Elem \cup {Zero}) /\ Len(Contents) = total
      /\ Contents # <<>>
      /\ Head(Contents) = Contents[1]
  BY <1>1, <1>2
<1>4. consumer.elem = Contents[1]
  BY <1>1 DEF PopCount, IInv, InProgress, Contents
<1>5. \A i \in 1 .. total - 1 : Slot(pop_count' + i - 1) = Slot(pop_count + i)
  <2> TAKE i \in 1 .. total - 1
  <2>1. CASE pop_count' = pop_count + 1
    BY <1>1, <2>1
  <2>2. CASE pop_count' = 0 /\ pop_count + 1 = 2 * size
    <3>1. i - 1 \in 0 .. size - 1 /\ pop_count + i = (i - 1) + 2 * size
      BY <1>1, <2>2
    <3> QED
      BY <2>2, <3>1, SameSlot
  <2> QED
    BY <1>1, <2>1, <2>2
<1> DEFINE t == [i \in 1 .. total - 1 |-> buffer[Slot(pop_count + i)]]
<1>6. Contents' = t
  BY <1>1, <1>5 DEF Contents, PopCount
<1>7. \A i \in 1 .. total - 1 : t[i] = Contents[i + 1]
  <2> TAKE i \in 1 .. total - 1
  <2>1. i + 1 \in 1 .. total /\ pop_count + (i + 1) - 1 = pop_count + i
    BY <1>1
  <2> QED
    BY <2>1 DEF Contents
<1>8. t \in [1 .. total - 1 -> Elem \cup {Zero}]
  <2> SUFFICES ASSUME NEW i \in 1 .. total - 1 PROVE t[i] \in Elem \cup {Zero}
    OBVIOUS
  <2>1. i + 1 \in 1 .. total /\ t[i] = Contents[i + 1]
    BY <1>1, <1>7
  <2> QED
    BY <1>2, <2>1
<1>9. t \in Seq(Elem \cup {Zero}) /\ Len(t) = total - 1
  BY <1>1, <1>8
<1> HIDE DEF t
<1>10. /\ Tail(Contents) \in Seq(Elem \cup {Zero})
       /\ Len(Tail(Contents)) = total - 1
       /\ \A i \in 1 .. total - 1 : Tail(Contents)[i] = Contents[i + 1]
  BY <1>1, <1>3, HeadTailProperties
<1>11. Tail(Contents) = t
  BY <1>7, <1>9, <1>10, SeqEqual
<1> QED
  BY <1>3, <1>4, <1>6, <1>11

(* The reset of a counter from 2*size to 0 does not show.                  *)
LEMMA WrapInvisible ==
  ASSUME SafeUse, IInv, PushWrap \/ PopWrap
  PROVE  Contents' = Contents
<1> USE SizeAssumption, BuildAssumption
<1>1. CASE PushWrap
  <2>1. total' = total
    BY <1>1, TotalInRange, SafeSplit DEF IInv, TypeOK, InProgress, PushWrap, total
  <2> QED
    BY <1>1, <2>1 DEF Contents, PushWrap
<1>2. CASE PopWrap
  <2>1. total' = total /\ total \in 0 .. size /\ pop_count = 2 * size
    <3>1. total \in 0 .. size /\ Serialised
      BY <1>2, TotalInRange, SafeSplit DEF IInv, InProgress, PopWrap
    <3> QED
      BY <1>2, <3>1 DEF IInv, TypeOK, InProgress, PopWrap, total
  <2>2. \A i \in 1 .. total : Slot(0 + i - 1) = Slot(pop_count + i - 1)
    <3> TAKE i \in 1 .. total
    <3>1. i - 1 \in 0 .. size - 1 /\ pop_count + i - 1 = (i - 1) + 2 * size /\ 0 + i - 1 = i - 1
      BY <2>1
    <3> QED
      BY <3>1, SameSlot
  <2> QED
    BY <1>2, <2>1, <2>2 DEF Contents, PopWrap
<1> QED
  BY <1>1, <1>2

-----------------------------------------------------------------------------
(* The refinement, step by step.                                           *)
LEMMA StepRefines ==
  ASSUME SafeUse, IInv, [Next]_vars
  PROVE  [Fifo!Next]_(Fifo!vars)
<1> USE SizeAssumption, BuildAssumption
<1>0. /\ total \in 0 .. size
      /\ Contents \in [1 .. total -> Elem \cup {Zero}]
      /\ Contents \in Seq(Elem \cup {Zero})
      /\ Len(Contents) = total
  <2>1. total \in 0 .. size
    BY TotalInRange DEF IInv
  <2>2. Contents \in [1 .. total -> Elem \cup {Zero}]
    BY <2>1, ContentsElem DEF IInv, Contents
  <2> QED
    BY <2>1, <2>2
<1>1. CASE PushFull
  <2>1. Fifo!PushFull
    BY <1>0, <1>1 DEF PushFull, Fifo!PushFull, Contents, total
  <2> QED
    BY <2>1 DEF Fifo!Next
<1>2. ASSUME NEW e \in Elem, PushCheck(e) PROVE UNCHANGED Fifo!vars
  BY <1>2 DEF PushCheck, Fifo!vars, Contents, total
<1>3. CASE PushCopy
  BY <1>3, CopyInvisible DEF PushCopy, Fifo!vars
<1>4. CASE PushCount
  <2>1. producer.elem \in Elem
    BY <1>4 DEF PushCount, IInv, InProgress
  <2>2. Fifo!Push(producer.elem)
    BY <1>0, <1>4, PushAppends DEF PushCount, Fifo!Push
  <2> QED
    BY <2>1, <2>2 DEF Fifo!Next
<1>5. CASE PushWrap
  BY <1>5, WrapInvisible DEF PushWrap, Fifo!vars
<1>6. CASE PopEmpty
  <2>1. Contents = <<>>
    BY <1>0, <1>6 DEF PopEmpty
  <2>2. Fifo!PopEmpty
    BY <1>6, <2>1 DEF PopEmpty, Fifo!PopEmpty, Contents, total
  <2> QED
    BY <2>2 DEF Fifo!Next
<1>7. ASSUME NEW ro \in BOOLEAN, PopCheck(ro) PROVE UNCHANGED Fifo!vars
  BY <1>7 DEF PopCheck, Fifo!vars, Contents, total
<1>8. CASE PopCopy
  <2>1. Contents' = Contents
    BY <1>8 DEF PopCopy, Contents, total
  <2>2. CASE ~consumer.read_only
    BY <1>8, <2>1, <2>2 DEF PopCopy, Fifo!vars
  <2>3. CASE consumer.read_only
    <3>1. total \in 1 .. size
      BY <1>0, <1>8 DEF PopCopy, IInv, InProgress
    <3>2. Contents # <<>> /\ Head(Contents) = Contents[1]
      BY <1>0, <3>1
    <3>3. pop_count + 1 - 1 = pop_count
      BY DEF IInv, TypeOK
    <3>4. Contents[1] = tail
      BY <3>1, <3>3 DEF Contents, tail
    <3>5. Fifo!Peek
      BY <1>8, <2>1, <2>3, <3>2, <3>4 DEF PopCopy, Fifo!Peek
    <3> QED
      BY <3>5 DEF Fifo!Next
  <2> QED
    BY <2>2, <2>3
<1>9. CASE PopCount
  <2>1. Fifo!Pop
    BY <1>9, PopRemoves DEF PopCount, Fifo!Pop
  <2> QED
    BY <2>1 DEF Fifo!Next
<1>10. CASE PopWrap
  BY <1>10, WrapInvisible DEF PopWrap, Fifo!vars
<1>11. CASE Flush
  <2>1. Contents' = <<>>
    BY <1>11 DEF Flush, Contents, total
  <2>2. Fifo!Flush
    BY <1>11, <2>1 DEF Flush, Fifo!Flush
  <2> QED
    BY <2>2 DEF Fifo!Next
<1>12. CASE UNCHANGED vars
  BY <1>12 DEF vars, Fifo!vars, Contents, total
<1> QED
  BY <1>1, <1>2, <1>3, <1>4, <1>5, <1>6, <1>7, <1>8, <1>9, <1>10, <1>11, <1>12
     DEF Next

(* A ring buffer of any size is a bounded FIFO queue, without any lock,    *)
(* whenever each counter is advanced by one store, and in every build when *)
(* the callers do not overlap their calls.                                 *)
THEOREM RingIsFifo == SafeUse => (Spec => IsFifo)
<1> SUFFICES ASSUME SafeUse PROVE Spec => IsFifo
  OBVIOUS
<1>1. Init => Fifo!Init
  BY SizeAssumption DEF Init, Fifo!Init, Contents, total
<1>2. IInv /\ [Next]_vars => IInv'
  BY InvStep
<1>3. IInv /\ [Next]_vars => [Fifo!Next]_(Fifo!vars)
  BY StepRefines
<1> QED
  BY <1>1, <1>2, <1>3, InvInit, PTL DEF Spec, IsFifo, Fifo!Spec
=============================================================================
