----------------------------- MODULE AsdfBuffer -----------------------------
(***************************************************************************)
(* asdf_buffer.c: keycode queues laid out as rings in one shared pool.     *)
(* Buffers are allocated once and never freed; a client holds an index     *)
(* into the table of rings.                                                *)
(***************************************************************************)
EXTENDS Integers, Sequences

CONSTANTS
  Codes,        \* asdf_keycode_t values that clients put
  InvalidCode,  \* ASDF_INVALID_CODE; a client may put it too, it is a member
                \* of Codes when one does
  PoolSize,     \* ASDF_BUFFER_POOL_SIZE
  NumHandles,   \* ASDF_BUFFER_NUM_HANDLES
  Sizes         \* the sizes that clients pass to asdf_buffer_new

(***************************************************************************)
(* head, tail and count are 8 bits wide; they suffice because no ring is   *)
(* larger than the pool, which has 144 codes.                              *)
(***************************************************************************)
ASSUME BufferAssumption ==
  /\ PoolSize \in 0..255
  /\ NumHandles \in Nat
  /\ Sizes \subseteq Nat
  /\ Codes # {}

VARIABLES
  buffer_pool,  \* index -> code
  buffers,      \* handle -> ring: where it starts, its size and its indices
  buffer_pool_next_available,
  next_handle,
  got           \* what the last asdf_buffer_get returned

bufferVars ==
  <<buffer_pool, buffers, buffer_pool_next_available, next_handle, got>>

INVALID == -1                       \* ASDF_BUFFER_INVALID
Handles == INVALID..(NumHandles - 1)
PoolIndex == 0..(PoolSize - 1)
UInt8(n) == n % 256

buffer_handle_valid(h) == h >= 0 /\ h < next_handle

Valid == 0..(next_handle - 1)       \* the handles that are valid

-----------------------------------------------------------------------------
(* Static storage is zero; asdf_buffer_init leaves the rings as they are.  *)

Init ==
  /\ \E c \in Codes : buffer_pool = [i \in PoolIndex |-> c]
  /\ buffers = [h \in 0..(NumHandles - 1) |->
                 [base |-> 0, size |-> 0, head |-> 0, tail |-> 0, count |-> 0]]
  /\ buffer_pool_next_available = 0
  /\ next_handle = 0
  /\ got = InvalidCode

\* Mutant of asdf_buffer_init: the handles are not taken back.
InitKeepsHandles ==
  /\ buffer_pool_next_available' = 0
  /\ UNCHANGED <<next_handle, buffer_pool, buffers, got>>

asdf_buffer_init ==
  /\ buffer_pool_next_available' = 0
  /\ next_handle' = 0
  /\ UNCHANGED <<buffer_pool, buffers, got>>

\* Mutant of asdf_buffer_new: the pool may run out.
NewIgnoresPool(size) ==
  /\ next_handle < NumHandles
  /\ next_handle' = next_handle + 1
  /\ buffers' = [buffers EXCEPT ![next_handle] =
                   [base |-> buffer_pool_next_available, size |-> size,
                    head |-> 0, tail |-> 0, count |-> 0]]
  /\ buffer_pool_next_available' = buffer_pool_next_available + size
  /\ UNCHANGED <<buffer_pool, got>>

\* The request is refused, with no effect, when handles or pool run out.
asdf_buffer_new(size) ==
  /\ next_handle < NumHandles
  /\ size <= PoolSize - buffer_pool_next_available
  /\ next_handle' = next_handle + 1
  /\ buffers' = [buffers EXCEPT ![next_handle] =
                   [base |-> buffer_pool_next_available, size |-> size,
                    head |-> 0, tail |-> 0, count |-> 0]]
  /\ buffer_pool_next_available' = buffer_pool_next_available + size
  /\ UNCHANGED <<buffer_pool, got>>

\* Mutant of asdf_buffer_put: the index of the wrong end.
PutAtTail(h, code) ==
  /\ buffer_handle_valid(h) /\ buffers[h].count < buffers[h].size
  /\ buffer_pool' =
       [buffer_pool EXCEPT ![buffers[h].base + buffers[h].tail] = code]
  /\ buffers' = [buffers EXCEPT ![h].head = (@ + 1) % buffers[h].size,
                                ![h].count = @ + 1]
  /\ UNCHANGED <<buffer_pool_next_available, next_handle, got>>

asdf_buffer_put(h, code) ==
  /\ buffer_handle_valid(h)
  /\ LET b == buffers[h] IN
     /\ b.count < b.size
     /\ buffer_pool' = [buffer_pool EXCEPT ![b.base + b.head] = code]
     /\ buffers' = [buffers EXCEPT ![h] =
                      [b EXCEPT !.head  = UInt8((b.head + 1) % b.size),
                                !.count = UInt8(b.count + 1)]]
  /\ UNCHANGED <<buffer_pool_next_available, next_handle, got>>

\* Mutant of asdf_buffer_get: the code taken is still counted.
GetKeepsCount(h) ==
  /\ buffer_handle_valid(h) /\ buffers[h].count # 0
  /\ got' = buffer_pool[buffers[h].base + buffers[h].tail]
  /\ buffers' = [buffers EXCEPT ![h].tail = (@ + 1) % buffers[h].size]
  /\ UNCHANGED <<buffer_pool, buffer_pool_next_available, next_handle>>

asdf_buffer_get(h) ==
  /\ IF buffer_handle_valid(h) /\ buffers[h].count # 0
     THEN LET b == buffers[h] IN
          /\ got' = buffer_pool[b.base + b.tail]
          /\ buffers' = [buffers EXCEPT ![h] =
                           [b EXCEPT !.tail  = UInt8((b.tail + 1) % b.size),
                                     !.count = UInt8(b.count - 1)]]
     ELSE /\ got' = InvalidCode
          /\ UNCHANGED buffers
  /\ UNCHANGED <<buffer_pool, buffer_pool_next_available, next_handle>>

Next ==
  \/ asdf_buffer_init
  \/ \E size \in Sizes : asdf_buffer_new(size)
  \/ \E h \in Handles, code \in Codes : asdf_buffer_put(h, code)
  \/ \E h \in Handles : asdf_buffer_get(h)

Spec == Init /\ [][Next]_bufferVars

-----------------------------------------------------------------------------
Ring == [base : 0..PoolSize, size : 0..PoolSize, head : 0..PoolSize,
         tail : 0..PoolSize, count : 0..PoolSize]

\* The types of the C variables, narrowed to the values they take.
TypeOK ==
  /\ buffer_pool \in [PoolIndex -> Codes]
  /\ buffers \in [0..(NumHandles - 1) -> Ring]
  /\ buffer_pool_next_available \in 0..PoolSize
  /\ next_handle \in 0..NumHandles
  /\ got \in Codes \union {InvalidCode}

\* The slots of the pool that belong to the ring of handle h.
Region(h) == buffers[h].base..(buffers[h].base + buffers[h].size - 1)

\* Slot, in the ring of h, of the code that is the i-th oldest (from 1).
Slot(h, i) ==
  buffers[h].base + ((buffers[h].tail + (i - 1)) % buffers[h].size)

\* A ring's indices stay inside it, and its head is where count codes past
\* its tail end: the three redundant counters never drift apart.
RingsConsistent ==
  \A h \in Valid :
    LET b == buffers[h] IN
    /\ b.count <= b.size
    /\ b.size > 0 => /\ b.head < b.size
                     /\ b.tail < b.size
                     /\ b.head = (b.tail + b.count) % b.size

\* No two rings share a slot of the pool, and every ring lies in the part
\* of the pool that has been handed out: a put can never overwrite a code
\* that waits in another queue.
RingsDisjoint ==
  /\ \A h \in Valid :
       buffers[h].base + buffers[h].size <= buffer_pool_next_available
  /\ \A g, h \in Valid : g # h => Region(g) \intersect Region(h) = {}

-----------------------------------------------------------------------------
(* The rings implement the queues.                                         *)

Contents(h) == [i \in 1..buffers[h].count |-> buffer_pool[Slot(h, i)]]

Fifo == INSTANCE BoundedFifos WITH
          queue    <- [h \in Valid |-> Contents(h)],
          capacity <- [h \in Valid |-> buffers[h].size]

\* Every behaviour of the rings is one of independent bounded queues: codes
\* come out in the order they went in, none is lost except by a put on a full
\* queue, none is invented, and none moves to another queue.
ImplementsFifos == Fifo!Spec
=============================================================================
