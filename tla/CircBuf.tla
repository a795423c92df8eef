------------------------------ MODULE CircBuf ------------------------------
(***************************************************************************)
(* The ring buffer of c-utils (circbuf.c, circbuf.h), used without a lock  *)
(* by one producer thread and one consumer thread, as README.md of c-utils *)
(* ("lock-free") and tests/test-circbuf.c have it.                         *)
(*                                                                         *)
(* Both counters run modulo 2*size, so that push_count = pop_count means   *)
(* empty and a distance of size means full.  A call is split where the     *)
(* other thread can see the difference: the comparison of the counters,    *)
(* the memcpy, and the store (or stores) that advance a counter.           *)
(***************************************************************************)
EXTENDS Integers, Sequences

CONSTANTS Elem,        \* the elements the producer pushes
          Zero,        \* what a slot of the static array holds at the start
          size,        \* number of slots (circbuf_t.size)
          Builds       \* the uses of the buffer considered, a subset of:
                       \*  "one_store"  "count++; if (count >= 2*size) count = 0"
                       \*               compiled to one store of the final value
                       \*               (gcc -O2, -O3); calls overlap
                       \*  "two_stores" compiled as written, with two stores
                       \*               (gcc -O0, -O1); calls overlap
                       \*  "serialised" two stores, but the callers never
                       \*               overlap (one thread, or a lock)

ASSUME ZeroAssumption == Zero \notin Elem
ASSUME SizeAssumption == size \in Nat \ {0}
ASSUME BuildAssumption == Builds \subseteq {"one_store", "two_stores", "serialised"}

VARIABLES build,       \* the build and use at hand; it never changes
          buffer,      \* slot -> its bytes
          push_count,
          pop_count,
          producer,    \* [pc, elem]: the push in progress
          consumer,    \* [pc, elem, read_only]: the pop in progress
          pushed,      \* what the last push returned
          popped       \* what the last pop or peek returned, and *elem

vars == <<build, buffer, push_count, pop_count, producer, consumer, pushed, popped>>

SplitWrap == build # "one_store"
Serialised == build = "serialised"

Slots == 0 .. size - 1

Init == /\ build \in Builds
        /\ buffer = [i \in Slots |-> Zero]
        /\ push_count = 0
        /\ pop_count = 0
        /\ producer = [pc |-> "idle", elem |-> Zero]
        /\ consumer = [pc |-> "idle", elem |-> Zero, read_only |-> FALSE]
        /\ pushed = "none"
        /\ popped = [rc |-> "none"]

(* The distance of the two counters, computed at the top of each function. *)
total == IF push_count - pop_count < 0
         THEN push_count - pop_count + 2 * size
         ELSE push_count - pop_count

free_space == size - total

Slot(count) == count % size

(* Mutants: the reset forgotten, and a reset one lap too early.            *)
NeverWrapped(count) == count
WrappedAtSize(count) == IF count >= size THEN 0 ELSE count

Wrapped(count) == IF count >= 2 * size THEN 0 ELSE count

-----------------------------------------------------------------------------
(* __circbuf_push *)

MayPush == producer.pc = "idle" /\ (Serialised => consumer.pc = "idle")

PushFull == /\ MayPush
            /\ total >= size
            /\ pushed' = "full"
            /\ UNCHANGED <<build, buffer, push_count, pop_count, producer, consumer, popped>>

(* Mutant: ">" for ">=" in the test for a full buffer.                     *)
PushCheckLate(e) == /\ MayPush
                    /\ total <= size
                    /\ producer' = [pc |-> "copy", elem |-> e]
                    /\ UNCHANGED <<build, buffer, push_count, pop_count, consumer, pushed, popped>>

PushCheck(e) == /\ MayPush
                /\ total < size
                /\ producer' = [pc |-> "copy", elem |-> e]
                /\ UNCHANGED <<build, buffer, push_count, pop_count, consumer, pushed, popped>>

PushCopy == /\ producer.pc = "copy"
            /\ buffer' = [buffer EXCEPT ![Slot(push_count)] = producer.elem]
            /\ producer' = [producer EXCEPT !.pc = "count"]
            /\ UNCHANGED <<build, push_count, pop_count, consumer, pushed, popped>>

PushCount == /\ producer.pc = "count"
             /\ push_count' = IF SplitWrap THEN push_count + 1
                                           ELSE Wrapped(push_count + 1)
             /\ producer' = [producer EXCEPT !.pc =
                               IF SplitWrap /\ push_count' >= 2 * size THEN "wrap" ELSE "idle"]
             /\ pushed' = "ok"
             /\ UNCHANGED <<build, buffer, pop_count, consumer, popped>>

PushWrap == /\ producer.pc = "wrap"
            /\ push_count' = 0
            /\ producer' = [producer EXCEPT !.pc = "idle"]
            /\ UNCHANGED <<build, buffer, pop_count, consumer, pushed, popped>>

-----------------------------------------------------------------------------
(* __circbuf_pop; with read_only it is CIRCBUF_PEEK *)

MayPop == consumer.pc = "idle" /\ (Serialised => producer.pc = "idle")

PopEmpty == /\ MayPop
            /\ total = 0
            /\ popped' = [rc |-> "empty"]
            /\ UNCHANGED <<build, buffer, push_count, pop_count, producer, consumer, pushed>>

(* Mutant: the test for an empty buffer forgotten.                         *)
PopUnchecked(read_only) ==
            /\ MayPop
            /\ consumer' = [consumer EXCEPT !.pc = "copy", !.read_only = read_only]
            /\ UNCHANGED <<build, buffer, push_count, pop_count, producer, pushed, popped>>

PopCheck(read_only) ==
            /\ MayPop
            /\ total # 0
            /\ consumer' = [consumer EXCEPT !.pc = "copy", !.read_only = read_only]
            /\ UNCHANGED <<build, buffer, push_count, pop_count, producer, pushed, popped>>

tail == buffer[Slot(pop_count)]

PopCopy == /\ consumer.pc = "copy"
           /\ IF consumer.read_only
              THEN /\ consumer' = [consumer EXCEPT !.pc = "idle", !.elem = tail]
                   /\ popped' = [rc |-> "ok", elem |-> tail]
              ELSE /\ consumer' = [consumer EXCEPT !.pc = "count", !.elem = tail]
                   /\ UNCHANGED popped
           /\ UNCHANGED <<build, buffer, push_count, pop_count, producer, pushed>>

PopCount == /\ consumer.pc = "count"
            /\ pop_count' = IF SplitWrap THEN pop_count + 1
                                         ELSE Wrapped(pop_count + 1)
            /\ consumer' = [consumer EXCEPT !.pc =
                              IF SplitWrap /\ pop_count' >= 2 * size THEN "wrap" ELSE "idle"]
            /\ popped' = [rc |-> "ok", elem |-> consumer.elem]
            /\ UNCHANGED <<build, buffer, push_count, producer, pushed>>

PopWrap == /\ consumer.pc = "wrap"
           /\ pop_count' = 0
           /\ consumer' = [consumer EXCEPT !.pc = "idle"]
           /\ UNCHANGED <<build, buffer, push_count, producer, pushed, popped>>

-----------------------------------------------------------------------------
(* CIRCBUF_FLUSH stores both counters, so it is only used while no call is *)
(* in progress (tests/test-circbuf.c, before the threads are started).     *)
Flush == /\ producer.pc = "idle"
         /\ consumer.pc = "idle"
         /\ push_count' = 0
         /\ pop_count' = 0
         /\ UNCHANGED <<build, buffer, producer, consumer, pushed, popped>>

Next == \/ PushFull
        \/ \E e \in Elem : PushCheck(e)
        \/ PushCopy
        \/ PushCount
        \/ PushWrap
        \/ PopEmpty
        \/ \E ro \in BOOLEAN : PopCheck(ro)
        \/ PopCopy
        \/ PopCount
        \/ PopWrap
        \/ Flush

Spec == Init /\ [][Next]_vars

-----------------------------------------------------------------------------
(* The type of every variable.  A counter only reaches 2*size between the  *)
(* two stores of a build that keeps them apart.                            *)
TypeOK ==
  /\ build \in Builds
  /\ buffer \in [Slots -> Elem \cup {Zero}]
  /\ push_count \in 0 .. 2 * size
  /\ pop_count \in 0 .. 2 * size
  /\ producer \in [pc : {"idle", "copy", "count", "wrap"}, elem : Elem \cup {Zero}]
  /\ consumer \in [pc : {"idle", "copy", "count", "wrap"}, elem : Elem \cup {Zero},
                   read_only : BOOLEAN]
  /\ pushed \in {"none", "ok", "full"}
  /\ popped \in [rc : {"none", "empty"}] \cup [rc : {"ok"}, elem : Elem \cup {Zero}]

(* CIRCBUF_FS: "Returns: 0..N - number of slots available", at any moment  *)
(* either thread may ask, calls in progress included.                      *)
FreeSpaceInRange == free_space \in 0 .. size

(* The memcpy of a push never writes the slot the memcpy of a pop is       *)
(* reading: what makes the buffer usable without a lock.                   *)
CopiesDisjoint ==
  producer.pc = "copy" /\ consumer.pc = "copy" =>
    Slot(push_count) # Slot(pop_count)

(* The elements between the two counters, oldest first.                    *)
Contents == [i \in 1 .. total |-> buffer[Slot(pop_count + i - 1)]]

(* Every call behaves as one step of a bounded FIFO queue: elements come   *)
(* out once, in order, and "empty" and "full" are only ever answered when  *)
(* the queue is (circbuf.h, CIRCBUF_PUSH, CIRCBUF_POP, CIRCBUF_PEEK).      *)
Fifo == INSTANCE BoundedFifo WITH queue <- Contents, Capacity <- size
IsFifo == Fifo!Spec
=============================================================================
