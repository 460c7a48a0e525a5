---------------------------- MODULE BoundedFifos ----------------------------
(***************************************************************************)
(* What asdf_buffer.c promises its clients: a handle names a queue of a    *)
(* fixed capacity, a put on a full queue is dropped, a get takes the       *)
(* oldest code, an operation on a handle that is not allocated does        *)
(* nothing.  Rings, indices and the shared pool are not part of the        *)
(* promise: module AsdfBuffer implements it with them.                     *)
(***************************************************************************)
EXTENDS Integers, Sequences

CONSTANTS
  Codes,        \* the keycodes that clients put
  InvalidCode,  \* ASDF_INVALID_CODE, what a get on an empty queue returns
  Handles,      \* every handle a client may pass, allocated or not
  Sizes         \* the capacities clients ask for

VARIABLES
  queue,        \* allocated handle -> codes waiting, oldest first
  capacity,     \* allocated handle -> the capacity it was allocated with
  got           \* what the last get returned

fifoVars == <<queue, capacity, got>>

Allocated == DOMAIN queue

-----------------------------------------------------------------------------
\* The effect of a put and of a get on one queue.
Enqueue(q, max, code) == IF Len(q) < max THEN Append(q, code) ELSE q
First(q)   == IF q = <<>> THEN InvalidCode ELSE Head(q)
Dequeue(q) == IF q = <<>> THEN q ELSE Tail(q)

Init ==
  /\ queue = [h \in {} |-> <<>>]
  /\ capacity = [h \in {} |-> 0]
  /\ got = InvalidCode

\* All queues are forgotten, and their handles with them.
Reset ==
  /\ queue' = [h \in {} |-> <<>>]
  /\ capacity' = [h \in {} |-> 0]
  /\ UNCHANGED got

\* A fresh handle names an empty queue; the others are not disturbed.
New(h, size) ==
  /\ h \notin Allocated
  /\ queue'    = [g \in Allocated \union {h} |->
                    IF g = h THEN <<>> ELSE queue[g]]
  /\ capacity' = [g \in Allocated \union {h} |->
                    IF g = h THEN size ELSE capacity[g]]
  /\ UNCHANGED got

Put(h, code) ==
  /\ h \in Allocated
  /\ queue' = [queue EXCEPT ![h] = Enqueue(@, capacity[h], code)]
  /\ UNCHANGED <<capacity, got>>

\* A get on a handle that is not allocated answers as on an empty queue.
Get(h) ==
  /\ IF h \in Allocated
     THEN /\ got' = First(queue[h])
          /\ queue' = [queue EXCEPT ![h] = Dequeue(@)]
     ELSE /\ got' = InvalidCode
          /\ UNCHANGED queue
  /\ UNCHANGED capacity

Next ==
  \/ Reset
  \/ \E h \in Handles, size \in Sizes : New(h, size)
  \/ \E h \in Handles, code \in Codes : Put(h, code)
  \/ \E h \in Handles : Get(h)

Spec == Init /\ [][Next]_fifoVars
=============================================================================
