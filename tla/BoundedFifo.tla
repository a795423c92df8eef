---------------------------- MODULE BoundedFifo ----------------------------
(***************************************************************************)
(* What circbuf.h promises of a ring buffer, whatever the implementation:  *)
(* a FIFO queue of at most Capacity elements.  A call of one of the macros *)
(* CIRCBUF_PUSH, CIRCBUF_POP, CIRCBUF_PEEK or CIRCBUF_FLUSH is one step.   *)
(***************************************************************************)
EXTENDS Naturals, Sequences

CONSTANTS Elem,       \* the elements a caller may push
          Capacity    \* number of slots of the buffer

VARIABLES queue,      \* the elements in the buffer, oldest first
          pushed,     \* what the last push returned
          popped      \* what the last pop or peek returned

vars == <<queue, pushed, popped>>

Init == /\ queue = <<>>
        /\ pushed = "none"
        /\ popped = [rc |-> "none"]

Push(e) == /\ Len(queue) < Capacity
           /\ queue' = Append(queue, e)
           /\ pushed' = "ok"
           /\ UNCHANGED popped

PushFull == /\ Len(queue) = Capacity
            /\ pushed' = "full"
            /\ UNCHANGED <<queue, popped>>

Pop == /\ queue # <<>>
       /\ queue' = Tail(queue)
       /\ popped' = [rc |-> "ok", elem |-> Head(queue)]
       /\ UNCHANGED pushed

Peek == /\ queue # <<>>
        /\ popped' = [rc |-> "ok", elem |-> Head(queue)]
        /\ UNCHANGED <<queue, pushed>>

PopEmpty == /\ queue = <<>>
            /\ popped' = [rc |-> "empty"]
            /\ UNCHANGED <<queue, pushed>>

Flush == /\ queue' = <<>>
         /\ UNCHANGED <<pushed, popped>>

Next == \/ \E e \in Elem : Push(e)
        \/ PushFull
        \/ Pop
        \/ Peek
        \/ PopEmpty
        \/ Flush

Spec == Init /\ [][Next]_vars
=============================================================================
