------------------------- MODULE AsdfBuffer_proofs -------------------------
(***************************************************************************)
(* For a pool and a table of any size: the rings of asdf_buffer.c stay     *)
(* consistent and disjoint, and implement independent bounded queues.      *)
(***************************************************************************)
EXTENDS AsdfBuffer, SequenceTheorems, TLAPS

-----------------------------------------------------------------------------
(* Arithmetic of one turn of a ring.                                       *)

\* An index that does not run past the end of the ring is kept.
LEMMA ModSmall ==
  ASSUME NEW n \in Nat, NEW x \in Nat, x < n
  PROVE  x % n = x
OBVIOUS

\* An index that runs past the end comes back once.
LEMMA ModWrap ==
  ASSUME NEW n \in Nat, NEW x \in Nat, n <= x, x < 2 * n
  PROVE  x % n = x - n
OBVIOUS

\* What fits in 8 bits is stored unchanged.
LEMMA FitsUInt8 ==
  ASSUME NEW x \in 0..255
  PROVE  UInt8(x) = x
BY DEF UInt8

\* The slot of the i-th code of a ring, without division.
LEMMA SlotValue ==
  ASSUME NEW n \in Nat, NEW t \in 0..(n - 1), NEW k \in 0..n
  PROVE  (t + k) % n = IF t + k < n THEN t + k ELSE t + k - n
<1>1. CASE t + k < n
  BY <1>1, ModSmall
<1>2. CASE t + k >= n
  <2>1. t + k < 2 * n
    OBVIOUS
  <2> QED
    BY <1>2, <2>1, ModWrap
<1> QED
  BY <1>1, <1>2

\* An index reduced to the ring fits in 8 bits.
LEMMA IndexFits ==
  ASSUME NEW n \in 1..255, NEW x \in Nat
  PROVE  /\ x % n \in 0..(n - 1)
         /\ UInt8(x % n) = x % n
<1>1. x % n \in 0..(n - 1)
  OBVIOUS
<1>2. x % n \in 0..255
  BY <1>1
<1> QED
  BY <1>1, <1>2, FitsUInt8

\* The head of a ring of k codes, moved on by one, is the head of k + 1.
LEMMA HeadMoves ==
  ASSUME NEW n \in Nat, NEW t \in 0..(n - 1), NEW k \in 0..(n - 1)
  PROVE  (((t + k) % n) + 1) % n = (t + (k + 1)) % n
<1> DEFINE p == (t + k) % n
<1>1. k \in 0..n /\ k + 1 \in 0..n /\ 1 \in 0..n
  OBVIOUS
<1>2. p = IF t + k < n THEN t + k ELSE t + k - n
  BY <1>1, SlotValue
<1>3. (t + (k + 1)) % n = IF t + (k + 1) < n THEN t + (k + 1) ELSE t + (k + 1) - n
  BY <1>1, SlotValue
<1> HIDE DEF p
<1>4. p \in 0..(n - 1)
  BY <1>2
<1>5. (p + 1) % n = IF p + 1 < n THEN p + 1 ELSE p + 1 - n
  BY <1>1, <1>4, SlotValue
<1>6. (p + 1) % n = (t + (k + 1)) % n
  BY <1>2, <1>3, <1>5
<1> QED
  BY <1>6 DEF p

\* Dropping the oldest of the codes moves each slot one place down.
LEMMA TailMoves ==
  ASSUME NEW n \in Nat, NEW t \in 0..(n - 1), NEW k \in 0..(n - 1)
  PROVE  (((t + 1) % n) + k) % n = (t + (k + 1)) % n
<1> DEFINE u == (t + 1) % n
<1>1. k \in 0..n /\ k + 1 \in 0..n /\ 1 \in 0..n
  OBVIOUS
<1>2. u = IF t + 1 < n THEN t + 1 ELSE t + 1 - n
  BY <1>1, SlotValue
<1>3. (t + (k + 1)) % n = IF t + (k + 1) < n THEN t + (k + 1) ELSE t + (k + 1) - n
  BY <1>1, SlotValue
<1> HIDE DEF u
<1>4. u \in 0..(n - 1)
  BY <1>2
<1>5. (u + k) % n = IF u + k < n THEN u + k ELSE u + k - n
  BY <1>1, <1>4, SlotValue
<1>6. (u + k) % n = (t + (k + 1)) % n
  BY <1>2, <1>3, <1>5
<1> QED
  BY <1>6 DEF u

-----------------------------------------------------------------------------
(* The inductive invariant.  Neither part stands without the other: the    *)
(* indices are in the ring only if they are consistent, and a put respects *)
(* the other rings only if its index is in its own.                        *)

IInv == TypeOK /\ RingsConsistent /\ RingsDisjoint

\* Before asdf_buffer_init runs no handle is valid, and the invariant holds.
LEMMA InitInv == Init => IInv
<1> SUFFICES ASSUME Init PROVE IInv
  OBVIOUS
<1> USE BufferAssumption DEF Init
<1>1. TypeOK
  BY DEF TypeOK, Ring, PoolIndex
<1>2. Valid = {}
  BY DEF Valid
<1> QED
  BY <1>1, <1>2 DEF IInv, RingsConsistent, RingsDisjoint

\* A new ring starts where the ones before it end.
LEMMA NewInv ==
  ASSUME IInv, NEW size \in Sizes, asdf_buffer_new(size)
  PROVE  IInv'
<1> USE BufferAssumption DEF IInv, asdf_buffer_new
<1> DEFINE ring == [base |-> buffer_pool_next_available, size |-> size,
                    head |-> 0, tail |-> 0, count |-> 0]
<1>0. PICK new : new = next_handle  \* not moved by a prime
  OBVIOUS
<1>1. /\ ring \in Ring
      /\ next_handle \in 0..(NumHandles - 1)
      /\ buffer_pool_next_available' \in 0..PoolSize
      /\ size \in 0..PoolSize
  BY DEF TypeOK, Ring
<1>2. TypeOK'
  BY <1>1 DEF TypeOK
<1>3. /\ Valid' = Valid \union {new}
      /\ new \notin Valid
      /\ \A h \in Valid : buffers'[h] = buffers[h] /\ h \in 0..(NumHandles-1)
      /\ buffers'[new] = ring
  BY <1>0, <1>1 DEF Valid, TypeOK
<1>4. RingsConsistent'
  <2>1. ring.size > 0 => ring.head = (ring.tail + ring.count) % ring.size
    BY <1>1, ModSmall
  <2> QED
    BY <1>1, <1>3, <2>1 DEF RingsConsistent
<1>5. RingsDisjoint'
  <2>1. \A h \in Valid : buffers[h] \in Ring
    BY <1>3 DEF TypeOK
  <2>2. \A h \in Valid' :
          (buffers[h].base + buffers[h].size)' <= buffer_pool_next_available'
    <3>1. ring.base + ring.size = buffer_pool_next_available'
      OBVIOUS
    <3>2. \A h \in Valid :
            buffers[h].base + buffers[h].size <= buffer_pool_next_available'
      BY <1>1, <2>1 DEF RingsDisjoint, Ring, TypeOK
    <3> QED
      BY <1>1, <1>3, <3>1, <3>2
  <2>3. \A h \in Valid : Region(h)' = Region(h)
    BY <1>3 DEF Region
  <2>4. \A h \in Valid : Region(h) \intersect Region(new)' = {}
    <3>1. Region(new)' =
            buffer_pool_next_available..(buffer_pool_next_available + size - 1)
      BY <1>3 DEF Region
    <3>2. \A h \in Valid :
            /\ buffers[h].base + buffers[h].size <= buffer_pool_next_available
            /\ buffers[h].base \in Nat /\ buffers[h].size \in Nat
      BY <2>1 DEF RingsDisjoint, Ring
    <3>3. buffer_pool_next_available \in Nat /\ size \in Nat
      BY <1>1 DEF TypeOK
    <3>4. ASSUME NEW h \in Valid, NEW i \in Region(h)
          PROVE  i \notin Region(new)'
      <4>1. i \in Int /\ i < buffer_pool_next_available
        BY <3>2, <3>3 DEF Region
      <4> QED
        BY <3>1, <3>3, <4>1
    <3> QED
      BY <3>4
  <2>5. \A g, h \in Valid' : g # h => Region(g)' \intersect Region(h)' = {}
    BY <1>3, <2>3, <2>4 DEF RingsDisjoint
  <2> QED
    BY <2>2, <2>5 DEF RingsDisjoint
<1> QED
  BY <1>2, <1>4, <1>5

\* What a ring in use looks like, spelled out for the steps below.
LEMMA UsedRing ==
  ASSUME IInv, NEW h \in Valid, buffers[h].size > 0
  PROVE  LET b == buffers[h] IN
         /\ h \in 0..(NumHandles - 1)
         /\ b \in Ring
         /\ b.size \in 1..255 /\ b.size <= PoolSize
         /\ b.head \in 0..(b.size - 1)
         /\ b.tail \in 0..(b.size - 1)
         /\ b.count \in 0..b.size
         /\ b.base \in Nat
         /\ b.base + b.size <= PoolSize
         /\ b.head = (b.tail + b.count) % b.size
<1> DEFINE b == buffers[h]
<1>1. h \in 0..(NumHandles - 1) /\ b \in Ring
  BY BufferAssumption DEF IInv, TypeOK, Valid
<1>2. /\ b.size \in 1..255 /\ b.size <= PoolSize
      /\ b.head \in 0..(b.size - 1)
      /\ b.tail \in 0..(b.size - 1)
      /\ b.count \in 0..b.size
      /\ b.base \in Nat
      /\ b.base + b.size <= PoolSize
      /\ b.head = (b.tail + b.count) % b.size
  <2>1. /\ b.base \in 0..PoolSize /\ b.size \in 0..PoolSize
        /\ b.head \in 0..PoolSize /\ b.tail \in 0..PoolSize
        /\ b.count \in 0..PoolSize
    BY <1>1 DEF Ring
  <2>2. /\ b.size > 0
        /\ b.count <= b.size /\ b.head < b.size /\ b.tail < b.size
        /\ b.head = (b.tail + b.count) % b.size
    BY Zenon DEF IInv, RingsConsistent
  <2>3. b.base + b.size <= PoolSize
    <3>1. b.base + b.size <= buffer_pool_next_available
      BY DEF IInv, RingsDisjoint
    <3> QED
      BY <2>1, <3>1, BufferAssumption DEF IInv, TypeOK
  <2>4. /\ b.size \in 1..255 /\ b.size <= PoolSize
        /\ b.head \in 0..(b.size - 1) /\ b.tail \in 0..(b.size - 1)
        /\ b.count \in 0..b.size /\ b.base \in Nat
    <3> DEFINE z == b.size   p == b.head   t == b.tail   k == b.count
    <3>1. /\ z \in 0..PoolSize /\ p \in 0..PoolSize /\ t \in 0..PoolSize
          /\ k \in 0..PoolSize /\ b.base \in 0..PoolSize
          /\ z > 0 /\ k <= z /\ p < z /\ t < z
      BY <2>1, <2>2
    <3> HIDE DEF z, p, t, k
    <3>2. /\ z \in 1..255 /\ z <= PoolSize /\ p \in 0..(z - 1)
          /\ t \in 0..(z - 1) /\ k \in 0..z
      BY <3>1, BufferAssumption
    <3>3. b.base \in Nat
      BY <2>1, BufferAssumption
    <3> QED
      BY <3>2, <3>3 DEF z, p, t, k
  <2> QED
    BY <2>2, <2>3, <2>4
<1> QED
  BY <1>1, <1>2

\* Rings that neither move nor grow stay disjoint.
LEMMA SameRegions ==
  ASSUME IInv, buffer_pool_next_available' = buffer_pool_next_available,
         Valid' = Valid,
         \A h \in Valid : /\ buffers'[h].base = buffers[h].base
                          /\ buffers'[h].size = buffers[h].size
  PROVE  RingsDisjoint'
<1>1. \A h \in Valid : Region(h)' = Region(h)
  BY DEF Region
<1>2. \A h \in Valid' :
        (buffers[h].base + buffers[h].size)' <= buffer_pool_next_available'
  BY DEF IInv, RingsDisjoint
<1>3. \A g, h \in Valid' : g # h => Region(g)' \intersect Region(h)' = {}
  BY <1>1 DEF IInv, RingsDisjoint
<1> QED
  BY <1>2, <1>3 DEF RingsDisjoint

\* A step that gives one ring a consistent value, in its place, and leaves
\* the others alone, keeps the invariant of the table.
LEMMA OneRingStep ==
  ASSUME IInv, NEW h \in Valid,
         UNCHANGED <<buffer_pool_next_available, next_handle>>,
         NEW r \in Ring,
         buffers' = [buffers EXCEPT ![h] = r],
         r.base = buffers[h].base, r.size = buffers[h].size,
         r.count <= r.size, r.head < r.size, r.tail < r.size,
         r.head = (r.tail + r.count) % r.size
  PROVE  /\ buffers' \in [0..(NumHandles - 1) -> Ring]
         /\ RingsConsistent' /\ RingsDisjoint'
<1>1. /\ Valid' = Valid /\ h \in 0..(NumHandles - 1)
      /\ buffers'[h] = r
      /\ \A g \in Valid : g # h => buffers'[g] = buffers[g]
  BY BufferAssumption DEF Valid, IInv, TypeOK
<1>2. buffers' \in [0..(NumHandles - 1) -> Ring]
  BY DEF IInv, TypeOK
<1>3. RingsConsistent'
  <2>1. \A g \in Valid : g # h =>
          /\ buffers'[g].count <= buffers'[g].size
          /\ buffers'[g].size > 0 =>
               /\ buffers'[g].head < buffers'[g].size
               /\ buffers'[g].tail < buffers'[g].size
               /\ buffers'[g].head = (buffers'[g].tail + buffers'[g].count)
                                       % buffers'[g].size
    BY <1>1, Zenon DEF IInv, RingsConsistent
  <2> QED
    BY <1>1, <2>1, Zenon DEF RingsConsistent
<1>4. RingsDisjoint'
  BY <1>1, SameRegions
<1> QED
  BY <1>2, <1>3, <1>4

\* A put moves the head of its ring on by one, and count with it.
LEMMA PutRing ==
  ASSUME IInv, NEW h \in Handles, NEW code \in Codes, asdf_buffer_put(h, code)
  PROVE  LET b == buffers[h]
             r == buffers'[h]
         IN  /\ h \in Valid /\ b.count < b.size
             /\ r \in Ring /\ buffers' = [buffers EXCEPT ![h] = r]
             /\ r.base = b.base /\ r.size = b.size /\ r.tail = b.tail
             /\ r.count = b.count + 1
             /\ r.count <= r.size /\ r.head < r.size /\ r.tail < r.size
             /\ r.head = (r.tail + r.count) % r.size
<1> DEFINE b == buffers[h]
           r == buffers'[h]
           z == b.size   t == b.tail   k == b.count
<1>1. /\ h \in Valid /\ h \in 0..(NumHandles - 1) /\ b \in Ring /\ k < z
  BY BufferAssumption
  DEF Valid, Handles, INVALID, IInv, TypeOK, asdf_buffer_put,
      buffer_handle_valid
<1>2. z > 0
  BY <1>1 DEF Ring
<1>3. /\ r = [b EXCEPT !.head = UInt8((b.head + 1) % z),
                       !.count = UInt8(k + 1)]
      /\ buffers' = [buffers EXCEPT ![h] = r]
  BY <1>1 DEF IInv, TypeOK, asdf_buffer_put
<1>4. /\ r.base = b.base /\ r.size = z /\ r.tail = t
      /\ r.head = UInt8((b.head + 1) % z)
      /\ r.count = UInt8(k + 1)
      /\ r = [base |-> b.base, size |-> z, head |-> r.head, tail |-> t,
              count |-> r.count]
      /\ b.base \in 0..PoolSize
  BY <1>1, <1>3 DEF Ring
<1>5. /\ z \in 1..255 /\ z <= PoolSize
      /\ t \in 0..(z - 1) /\ k \in 0..z
      /\ b.head = (t + k) % z
  BY <1>1, <1>2, UsedRing
<1> HIDE DEF z, t, k, r, b
<1>6. k \in 0..(z - 1) /\ z \in Nat /\ k + 1 \in 0..255 /\ t + (k + 1) \in Nat
  BY <1>1, <1>5
<1>7. r.count = k + 1
  BY <1>4, <1>6, FitsUInt8
<1>8. r.head = (t + (k + 1)) % z /\ r.head \in 0..(z - 1)
  <2>1. (b.head + 1) % z = (t + (k + 1)) % z
    BY <1>5, <1>6, HeadMoves
  <2> QED
    BY <1>4, <1>5, <1>6, <2>1, IndexFits
<1>9. /\ r.head \in 0..PoolSize /\ t \in 0..PoolSize /\ z \in 0..PoolSize
      /\ k + 1 \in 0..PoolSize /\ k + 1 <= z /\ r.head < z /\ t < z
  BY <1>5, <1>6, <1>8, BufferAssumption
<1>10. r \in Ring
  BY <1>4, <1>7, <1>9 DEF Ring
<1> QED
  BY <1>1, <1>3, <1>4, <1>7, <1>8, <1>9, <1>10, Zenon DEF z, t, k, r, b

\* A get that finds a code moves the tail of its ring on by one.
LEMMA GetRing ==
  ASSUME IInv, NEW h \in Valid, buffers[h].count # 0, asdf_buffer_get(h)
  PROVE  LET b == buffers[h]
             r == buffers'[h]
         IN  /\ b.size > 0
             /\ r \in Ring /\ buffers' = [buffers EXCEPT ![h] = r]
             /\ r.base = b.base /\ r.size = b.size
             /\ r.tail = (b.tail + 1) % b.size
             /\ r.count = b.count - 1
             /\ r.count <= r.size /\ r.head < r.size /\ r.tail < r.size
             /\ r.head = (r.tail + r.count) % r.size
<1> DEFINE b == buffers[h]
           r == buffers'[h]
           z == b.size   t == b.tail   k == b.count
<1>1. /\ h \in 0..(NumHandles - 1) /\ b \in Ring /\ k # 0
      /\ buffer_handle_valid(h)
  BY BufferAssumption DEF Valid, IInv, TypeOK, buffer_handle_valid
<1>2. z > 0
  <2>1. k <= z
    BY Zenon DEF IInv, RingsConsistent
  <2>2. k \in 0..PoolSize /\ z \in 0..PoolSize
    BY <1>1 DEF Ring
  <2> QED
    BY <1>1, <2>1, <2>2, BufferAssumption
<1>3. /\ r = [b EXCEPT !.tail = UInt8((t + 1) % z),
                       !.count = UInt8(k - 1)]
      /\ buffers' = [buffers EXCEPT ![h] = r]
  BY <1>1 DEF IInv, TypeOK, asdf_buffer_get
<1>4. /\ r.base = b.base /\ r.size = z /\ r.head = b.head
      /\ r.tail = UInt8((t + 1) % z)
      /\ r.count = UInt8(k - 1)
      /\ r = [base |-> b.base, size |-> z, head |-> b.head, tail |-> r.tail,
              count |-> r.count]
      /\ b.base \in 0..PoolSize /\ b.head \in 0..PoolSize
  BY <1>1, <1>3 DEF Ring
<1>5. /\ z \in 1..255 /\ z <= PoolSize
      /\ t \in 0..(z - 1) /\ k \in 0..z
      /\ b.head = (t + k) % z /\ b.head \in 0..(z - 1)
  BY <1>1, <1>2, UsedRing
<1> HIDE DEF z, t, k, r, b
<1>6. k - 1 \in 0..(z - 1) /\ z \in Nat /\ k - 1 \in 0..255 /\ t + 1 \in Nat
  BY <1>1, <1>5
<1>7. r.count = k - 1
  BY <1>4, <1>6, FitsUInt8
<1>8. r.tail = (t + 1) % z /\ r.tail \in 0..(z - 1)
  BY <1>4, <1>5, <1>6, IndexFits
<1>9. b.head = (r.tail + (k - 1)) % z
  <2>1. (((t + 1) % z) + (k - 1)) % z = (t + ((k - 1) + 1)) % z
    BY <1>5, <1>6, TailMoves
  <2>2. (k - 1) + 1 = k
    BY <1>5
  <2> QED
    BY <1>5, <1>8, <2>1, <2>2
<1>10. /\ r.tail \in 0..PoolSize /\ z \in 0..PoolSize
       /\ k - 1 \in 0..PoolSize /\ k - 1 <= z /\ b.head < z /\ r.tail < z
  BY <1>5, <1>6, <1>8, BufferAssumption
<1>11. r \in Ring
  BY <1>4, <1>7, <1>10 DEF Ring
<1> QED
  BY <1>2, <1>3, <1>4, <1>7, <1>8, <1>9, <1>10, <1>11, Zenon
  DEF z, t, k, r, b

\* A put keeps the invariant.
LEMMA PutInv ==
  ASSUME IInv, NEW h \in Handles, NEW code \in Codes, asdf_buffer_put(h, code)
  PROVE  IInv'
<1>1. /\ h \in Valid
      /\ buffers' \in [0..(NumHandles - 1) -> Ring]
      /\ RingsConsistent' /\ RingsDisjoint'
  <2>1. UNCHANGED <<buffer_pool_next_available, next_handle>>
    BY DEF asdf_buffer_put
  <2> QED
    BY <2>1, PutRing, OneRingStep
<1>2. buffer_pool' \in [PoolIndex -> Codes]
  BY DEF IInv, TypeOK, asdf_buffer_put
<1> QED
  BY <1>1, <1>2 DEF IInv, TypeOK, asdf_buffer_put

\* A get keeps the invariant.
LEMMA GetInv ==
  ASSUME IInv, NEW h \in Handles, asdf_buffer_get(h)
  PROVE  IInv'
<1>1. CASE buffer_handle_valid(h) /\ buffers[h].count # 0
  <2>1. h \in Valid
    BY <1>1, BufferAssumption
    DEF buffer_handle_valid, Valid, Handles, INVALID, IInv, TypeOK
  <2>2. /\ buffers' \in [0..(NumHandles - 1) -> Ring]
        /\ RingsConsistent' /\ RingsDisjoint'
    BY <1>1, <2>1, GetRing, OneRingStep DEF asdf_buffer_get
  <2>3. got' \in Codes
    <3> DEFINE i == buffers[h].base + buffers[h].tail
    <3>1. i \in PoolIndex
      <4> DEFINE base == buffers[h].base   z == buffers[h].size
                 t == buffers[h].tail
      <4>1. buffers[h].size > 0
        BY <1>1, <2>1, GetRing
      <4>2. /\ z \in 1..255 /\ t \in 0..(z - 1) /\ base \in Nat
            /\ base + z <= PoolSize
        BY <2>1, <4>1, UsedRing
      <4> HIDE DEF base, z, t
      <4>3. base + t \in 0..(PoolSize - 1)
        BY <4>2, BufferAssumption
      <4> QED
        BY <4>3 DEF PoolIndex, base, t
    <3> QED
      BY <1>1, <3>1 DEF asdf_buffer_get, IInv, TypeOK
  <2> QED
    BY <2>2, <2>3 DEF IInv, TypeOK, asdf_buffer_get
<1>2. CASE ~(buffer_handle_valid(h) /\ buffers[h].count # 0)
  BY <1>2 DEF IInv, TypeOK, RingsConsistent, RingsDisjoint, Region, Valid,
              asdf_buffer_get
<1> QED
  BY <1>1, <1>2

\* asdf_buffer_init keeps the invariant: it leaves no valid handle.
LEMMA ResetInv ==
  ASSUME IInv, asdf_buffer_init
  PROVE  IInv'
<1>1. Valid' = {}
  BY DEF Valid, asdf_buffer_init
<1> QED
  BY <1>1, BufferAssumption
  DEF IInv, TypeOK, RingsConsistent, RingsDisjoint, asdf_buffer_init

\* IInv is an invariant of asdf_buffer.c: every operation preserves it.
THEOREM BufferInvariant == Spec => []IInv
<1>1. ASSUME IInv, [Next]_bufferVars
      PROVE  IInv'
  <2>1. CASE asdf_buffer_init
    BY <1>1, <2>1, ResetInv
  <2>2. CASE \E size \in Sizes : asdf_buffer_new(size)
    BY <1>1, <2>2, NewInv
  <2>3. CASE \E h \in Handles, code \in Codes : asdf_buffer_put(h, code)
    BY <1>1, <2>3, PutInv
  <2>4. CASE \E h \in Handles : asdf_buffer_get(h)
    BY <1>1, <2>4, GetInv
  <2>5. CASE UNCHANGED bufferVars
    BY <1>1, <2>5
    DEF bufferVars, IInv, TypeOK, RingsConsistent, RingsDisjoint, Region, Valid
  <2> QED
    BY <1>1, <2>1, <2>2, <2>3, <2>4, <2>5 DEF Next
<1> QED
  BY <1>1, InitInv, PTL DEF Spec

\* The variables of asdf_buffer.c keep their types; in particular no 8-bit
\* counter is ever asked to hold more than the pool has room for.
THEOREM TypeCorrect == Spec => []TypeOK
<1>1. IInv => TypeOK
  BY DEF IInv
<1> QED
  BY <1>1, BufferInvariant, PTL

\* The three redundant counters of every ring agree at all times.
THEOREM RingsStayConsistent == Spec => []RingsConsistent
<1>1. IInv => RingsConsistent
  BY DEF IInv
<1> QED
  BY <1>1, BufferInvariant, PTL

\* The rings never share a slot of the pool, whatever was allocated.
THEOREM RingsStayDisjoint == Spec => []RingsDisjoint
<1>1. IInv => RingsDisjoint
  BY DEF IInv
<1> QED
  BY <1>1, BufferInvariant, PTL

-----------------------------------------------------------------------------
(* The rings implement the queues of BoundedFifos.                         *)

\* A function on 1..n is a sequence of length n.
LEMMA FunctionIsSeq ==
  ASSUME NEW S, NEW n \in Nat, NEW f \in [1..n -> S]
  PROVE  f \in Seq(S) /\ Len(f) = n
OBVIOUS

\* A sequence that agrees with s and ends in e is Append(s, e).
LEMMA IsAppend ==
  ASSUME NEW S, NEW s \in Seq(S), NEW e \in S, NEW t \in Seq(S),
         Len(t) = Len(s) + 1,
         \A i \in 1..Len(s) : t[i] = s[i],
         t[Len(s) + 1] = e
  PROVE  t = Append(s, e)
<1>1. /\ Append(s, e) \in Seq(S)
      /\ Len(Append(s, e)) = Len(s) + 1
      /\ \A i \in 1..Len(s) : Append(s, e)[i] = s[i]
      /\ Append(s, e)[Len(s) + 1] = e
  OBVIOUS
<1>2. \A i \in 1..Len(t) : t[i] = Append(s, e)[i]
  BY <1>1
<1> QED
  BY <1>1, <1>2, SeqEqual

\* A sequence that agrees with s one place on is Tail(s).
LEMMA IsTail ==
  ASSUME NEW S, NEW s \in Seq(S), s # <<>>, NEW t \in Seq(S),
         Len(t) = Len(s) - 1,
         \A i \in 1..Len(t) : t[i] = s[i + 1]
  PROVE  t = Tail(s)
<1>1. /\ Tail(s) \in Seq(S)
      /\ Len(Tail(s)) = Len(s) - 1
      /\ \A i \in 1..Len(Tail(s)) : Tail(s)[i] = s[i + 1]
  BY HeadTailProperties
<1> QED
  BY <1>1, SeqEqual

\* Different places of a ring are different slots.
LEMMA SlotsDiffer ==
  ASSUME NEW n \in Nat, NEW t \in 0..(n - 1),
         NEW i \in 0..(n - 1), NEW j \in 0..(n - 1), i # j
  PROVE  (t + i) % n # (t + j) % n
<1>1. i \in 0..n /\ j \in 0..n
  OBVIOUS
<1>2. (t + i) % n = IF t + i < n THEN t + i ELSE t + i - n
  BY <1>1, SlotValue
<1>3. (t + j) % n = IF t + j < n THEN t + j ELSE t + j - n
  BY <1>1, SlotValue
<1> QED
  BY <1>2, <1>3

\* Every place of a ring in use is a slot of its region, inside the pool.
LEMMA SlotInRegion ==
  ASSUME IInv, NEW h \in Valid, buffers[h].size > 0,
         NEW i \in 0..buffers[h].size
  PROVE  LET s == buffers[h].base + ((buffers[h].tail + i) % buffers[h].size)
         IN  s \in Region(h) /\ s \in PoolIndex
<1> DEFINE base == buffers[h].base   z == buffers[h].size
           t == buffers[h].tail
<1>1. /\ z \in 1..255 /\ t \in 0..(z - 1) /\ base \in Nat
      /\ base + z <= PoolSize
  BY UsedRing
<1>2. i \in 0..z
  OBVIOUS
<1>3. Region(h) = base..(base + z - 1)
  BY DEF Region
<1> HIDE DEF base, z, t
<1>4. t + i \in Nat
  BY <1>1, <1>2
<1>5. (t + i) % z \in 0..(z - 1)
  BY <1>1, <1>4, IndexFits
<1>6. /\ base + ((t + i) % z) \in base..(base + z - 1)
      /\ base + ((t + i) % z) \in 0..(PoolSize - 1)
  <2> DEFINE o == (t + i) % z
  <2>1. o \in 0..(z - 1)
    BY <1>5
  <2> HIDE DEF o
  <2>2. base + o \in base..(base + z - 1) /\ base + o \in 0..(PoolSize - 1)
    BY <1>1, <2>1, BufferAssumption
  <2> QED
    BY <2>2 DEF o
<1> QED
  BY <1>3, <1>6 DEF PoolIndex, base, z, t

\* What a handle holds is a sequence of codes, as long as its count.
LEMMA ContentsIsSeq ==
  ASSUME IInv, NEW h \in Valid
  PROVE  /\ Contents(h) \in Seq(Codes)
         /\ Len(Contents(h)) = buffers[h].count
         /\ buffers[h].count \in Nat /\ buffers[h].size \in Nat
         /\ buffers[h].count <= buffers[h].size
         /\ \A i \in 1..buffers[h].count :
              /\ Contents(h)[i] = buffer_pool[Slot(h, i)]
              /\ Slot(h, i) \in Region(h)
              /\ Slot(h, i) \in PoolIndex
<1> DEFINE k == buffers[h].count   z == buffers[h].size
<1>1. k \in 0..PoolSize /\ z \in 0..PoolSize
  BY BufferAssumption DEF IInv, TypeOK, Ring, Valid
<1>2. k <= z
  BY Zenon DEF IInv, RingsConsistent
<1>3. ASSUME NEW i \in 1..k
      PROVE  Slot(h, i) \in Region(h) /\ Slot(h, i) \in PoolIndex
  <2>1. z > 0 /\ i - 1 \in 0..z
    BY <1>1, <1>2, BufferAssumption
  <2> QED
    BY <2>1, SlotInRegion DEF Slot
<1>4. Contents(h) \in [1..k -> Codes]
  BY <1>3 DEF Contents, IInv, TypeOK
<1>5. k \in Nat /\ z \in Nat
  BY <1>1, BufferAssumption
<1>6. \A i \in 1..k : Contents(h)[i] = buffer_pool[Slot(h, i)]
  BY DEF Contents
<1> HIDE DEF k, z
<1>7. Contents(h) \in Seq(Codes) /\ Len(Contents(h)) = k
  BY <1>4, <1>5, FunctionIsSeq
<1> QED
  BY <1>2, <1>3, <1>5, <1>6, <1>7 DEF k, z

\* A put appends to its queue and disturbs no other.
LEMMA PutContents ==
  ASSUME IInv, NEW h \in Handles, NEW code \in Codes,
         asdf_buffer_put(h, code)
  PROVE  /\ h \in Valid /\ Valid' = Valid
         /\ Len(Contents(h)) < buffers[h].size
         /\ Contents(h)' = Append(Contents(h), code)
         /\ \A g \in Valid : g # h => Contents(g)' = Contents(g)
         /\ \A g \in Valid : buffers'[g].size = buffers[g].size
<1> DEFINE base == buffers[h].base   z == buffers[h].size
           t == buffers[h].tail      k == buffers[h].count
           at == base + buffers[h].head
<1>1. /\ h \in Valid /\ Valid' = Valid /\ k < z
      /\ buffers'[h].base = base /\ buffers'[h].size = z
      /\ buffers'[h].tail = t /\ buffers'[h].count = k + 1
      /\ buffers' = [buffers EXCEPT ![h] = buffers'[h]]
  BY PutRing DEF Valid, asdf_buffer_put
<1>2. /\ k \in Nat /\ z \in Nat /\ Contents(h) \in Seq(Codes)
      /\ Len(Contents(h)) = k
  BY <1>1, ContentsIsSeq
<1>3. z > 0 /\ k \in 0..z
  BY <1>1, <1>2
<1>4. at = base + ((t + k) % z)
  BY <1>1, <1>3, UsedRing
<1>5. at \in Region(h) /\ at \in PoolIndex
  BY <1>1, <1>3, <1>4, SlotInRegion
<1>6. buffer_pool' = [buffer_pool EXCEPT ![at] = code]
  BY DEF asdf_buffer_put
<1>7. \A s \in PoolIndex : buffer_pool'[s] = IF s = at THEN code
                                                       ELSE buffer_pool[s]
  BY <1>6 DEF IInv, TypeOK
<1>8. ASSUME NEW g \in Valid, g # h
      PROVE  Contents(g)' = Contents(g) /\ buffers'[g] = buffers[g]
  <2>1. buffers'[g] = buffers[g]
    BY <1>1, <1>8, BufferAssumption DEF IInv, TypeOK, Valid
  <2>2. \A i \in 1..buffers[g].count :
          /\ Slot(g, i)' = Slot(g, i)
          /\ Slot(g, i) \in PoolIndex /\ Slot(g, i) # at
    <3>1. Region(g) \intersect Region(h) = {}
      BY <1>1, <1>8 DEF IInv, RingsDisjoint
    <3>2. \A i \in 1..buffers[g].count :
            Slot(g, i) \in Region(g) /\ Slot(g, i) \in PoolIndex
      BY ContentsIsSeq
    <3>3. \A i : Slot(g, i)' = Slot(g, i)
      BY <2>1 DEF Slot
    <3> QED
      BY <1>5, <3>1, <3>2, <3>3
  <2>3. \A i \in 1..buffers[g].count :
          buffer_pool'[Slot(g, i)'] = buffer_pool[Slot(g, i)]
    BY <1>7, <2>2
  <2> QED
    BY <2>1, <2>3 DEF Contents
<1>9. Contents(h)' = Append(Contents(h), code)
  <2> DEFINE new == Contents(h)'
  <2>1. \A i : Slot(h, i)' = base + ((t + (i - 1)) % z)
    BY <1>1 DEF Slot
  <2>2. \A i \in 1..k : /\ Slot(h, i)' = Slot(h, i)
                        /\ Slot(h, i) \in PoolIndex /\ Slot(h, i) # at
    <3>1. \A i \in 1..k : Slot(h, i)' = Slot(h, i) /\ Slot(h, i) \in PoolIndex
      BY <1>1, <2>1, ContentsIsSeq DEF Slot
    <3>2. ASSUME NEW i \in 1..k
          PROVE  Slot(h, i) # at
      <4>1. z \in Nat /\ t \in 0..(z - 1) /\ base \in Nat
        BY <1>1, <1>3, UsedRing
      <4>2. i - 1 \in 0..(z - 1) /\ k \in 0..(z - 1) /\ i - 1 # k
        BY <1>1, <1>2
      <4>3. (t + (i - 1)) % z # (t + k) % z
        BY <4>1, <4>2, SlotsDiffer
      <4>4. Slot(h, i) = base + ((t + (i - 1)) % z)
        BY DEF Slot
      <4>5. (t + (i - 1)) % z \in Int /\ (t + k) % z \in Int
        <5> HIDE DEF z, t, k, base
        <5>1. z \in 1..255
          BY <1>1, <1>3, UsedRing DEF z
        <5>2. t + (i - 1) \in Nat /\ t + k \in Nat
          BY <1>2, <4>1, <4>2
        <5>3. /\ (t + (i - 1)) % z \in 0..(z - 1)
              /\ (t + k) % z \in 0..(z - 1)
          BY <5>1, <5>2, IndexFits
        <5> QED
          BY <5>1, <5>3
      <4> DEFINE x == (t + (i - 1)) % z   y == (t + k) % z
      <4>6. /\ x # y /\ x \in Int /\ y \in Int /\ base \in Nat
            /\ Slot(h, i) = base + x /\ at = base + y
        BY <1>4, <4>1, <4>3, <4>4, <4>5
      <4> HIDE DEF x, y, at, base
      <4> QED
        BY <4>6
    <3> QED
      BY <3>1, <3>2
  <2>3. \A i : i = k + 1 => Slot(h, i)' = at
    <3>1. \A i : i = k + 1 => i - 1 = k
      BY <1>2
    <3> QED
      BY <1>4, <2>1, <3>1
  <2>4. \A i \in 1..(k + 1) :
          buffer_pool'[Slot(h, i)'] = IF i <= k THEN Contents(h)[i] ELSE code
    <3>1. \A i \in 1..k : buffer_pool'[Slot(h, i)'] = Contents(h)[i]
      BY <1>1, <1>7, <2>2, ContentsIsSeq
    <3>2. \A i : i = k + 1 => buffer_pool'[Slot(h, i)'] = code
      BY <1>5, <1>7, <2>3
    <3>3. \A i \in 1..(k + 1) : /\ i \in 1..k \/ i = k + 1
                               /\ i <= k <=> i \in 1..k
      BY <1>2
    <3> HIDE DEF k
    <3> QED
      BY <1>2, <3>1, <3>2, <3>3
  <2>5. new = [i \in 1..(k + 1) |-> IF i <= k THEN Contents(h)[i] ELSE code]
    BY <1>1, <2>4 DEF Contents
  <2>6. \A i \in 1..k : Contents(h)[i] \in Codes
    BY <1>2
  <2> HIDE DEF new, k
  <2>7. new \in [1..(k + 1) -> Codes]
    BY <1>2, <2>5, <2>6
  <2>8. new \in Seq(Codes) /\ Len(new) = k + 1
    BY <1>2, <2>7, FunctionIsSeq
  <2>9. (\A i \in 1..k : new[i] = Contents(h)[i]) /\ new[k + 1] = code
    BY <1>2, <2>5
  <2>10. new = Append(Contents(h), code)
    BY <1>2, <2>8, <2>9, IsAppend
  <2> QED
    BY <2>10 DEF new
<1> QED
  BY <1>1, <1>2, <1>8, <1>9

\* A get on a queue that holds a code takes the oldest one.
LEMMA GetContents ==
  ASSUME IInv, NEW h \in Valid, buffers[h].count # 0, asdf_buffer_get(h)
  PROVE  /\ Valid' = Valid
         /\ Contents(h) # <<>>
         /\ got' = Head(Contents(h))
         /\ Contents(h)' = Tail(Contents(h))
         /\ \A g \in Valid : g # h => Contents(g)' = Contents(g)
         /\ \A g \in Valid : buffers'[g].size = buffers[g].size
<1> DEFINE base == buffers[h].base   z == buffers[h].size
           t == buffers[h].tail      k == buffers[h].count
<1>1. /\ buffers'[h].base = base /\ buffers'[h].size = z /\ z > 0
      /\ buffers'[h].tail = (t + 1) % z /\ buffers'[h].count = k - 1
      /\ buffers' = [buffers EXCEPT ![h] = buffers'[h]]
  BY GetRing
<1>2. /\ Valid' = Valid /\ buffer_pool' = buffer_pool
      /\ got' = buffer_pool[base + t]
  BY DEF Valid, asdf_buffer_get, buffer_handle_valid, IInv, TypeOK
<1>3. /\ k \in Nat /\ z \in Nat /\ k <= z /\ Contents(h) \in Seq(Codes)
      /\ Len(Contents(h)) = k
      /\ \A i \in 1..k : Contents(h)[i] = buffer_pool[Slot(h, i)]
  BY ContentsIsSeq
<1>4. Contents(h) # <<>>
  BY <1>3
<1>5. /\ z \in 1..255 /\ t \in 0..(z - 1) /\ base \in Nat
  BY <1>1, UsedRing
<1>6. got' = Head(Contents(h))
  <2>1. (t + (1 - 1)) % z = t
    <3> HIDE DEF t, z
    <3>1. t + (1 - 1) = t /\ t \in Nat /\ z \in Nat /\ t < z
      BY <1>5
    <3> QED
      BY <3>1, ModSmall
  <2>2. Slot(h, 1) = base + t
    BY <2>1 DEF Slot
  <2>3. Head(Contents(h)) = Contents(h)[1]
    BY <1>3, <1>4
  <2> HIDE DEF k
  <2>4. 1 \in 1..k
    BY <1>3 DEF k
  <2> QED
    BY <1>2, <1>3, <2>2, <2>3, <2>4
<1>7. ASSUME NEW g \in Valid, g # h
      PROVE  Contents(g)' = Contents(g) /\ buffers'[g] = buffers[g]
  <2>1. buffers'[g] = buffers[g]
    BY <1>1, <1>7, BufferAssumption DEF IInv, TypeOK, Valid
  <2> QED
    BY <1>2, <2>1 DEF Contents, Slot
<1>8. Contents(h)' = Tail(Contents(h))
  <2> DEFINE new == Contents(h)'
  <2>1. ASSUME NEW i \in 1..(k - 1)
        PROVE  Slot(h, i)' = Slot(h, i + 1)
    <3>1. Slot(h, i)' = base + ((((t + 1) % z) + (i - 1)) % z)
      BY <1>1 DEF Slot
    <3>2. Slot(h, i + 1) = base + ((t + ((i + 1) - 1)) % z)
      BY DEF Slot
    <3>3. (i + 1) - 1 = (i - 1) + 1 /\ i - 1 \in 0..(z - 1)
      BY <1>3
    <3>4. (((t + 1) % z) + (i - 1)) % z = (t + ((i - 1) + 1)) % z
      BY <1>3, <1>5, <3>3, TailMoves
    <3> QED
      BY <3>1, <3>2, <3>3, <3>4
  <2>2. \A i \in 1..(k - 1) : /\ buffer_pool'[Slot(h, i)'] = Contents(h)[i + 1]
                              /\ Contents(h)[i + 1] \in Codes
    <3>1. \A i \in 1..(k - 1) : i + 1 \in 1..k
      BY <1>3
    <3> QED
      BY <1>2, <1>3, <2>1, <3>1
  <2>3. new = [i \in 1..(k - 1) |-> Contents(h)[i + 1]]
    BY <1>1, <2>2 DEF Contents
  <2> HIDE DEF new, k
  <2>4. k - 1 \in Nat
    BY <1>3 DEF k
  <2>5. new \in [1..(k - 1) -> Codes]
    BY <2>2, <2>3
  <2>6. new \in Seq(Codes) /\ Len(new) = k - 1
    BY <2>4, <2>5, FunctionIsSeq
  <2>7. new = Tail(Contents(h))
    BY <1>3, <1>4, <2>3, <2>6, IsTail
  <2> QED
    BY <2>7 DEF new
<1> QED
  BY <1>1, <1>2, <1>4, <1>6, <1>7, <1>8

\* No handle is valid at start, so no queue exists.
LEMMA InitSimulated == Init => Fifo!Init
<1> SUFFICES ASSUME Init PROVE Fifo!Init
  OBVIOUS
<1>1. Valid = {}
  BY DEF Valid, Init
<1> QED
  BY <1>1 DEF Fifo!Init, Init

\* asdf_buffer_init is a reset of the queues.
LEMMA ResetSimulated ==
  ASSUME asdf_buffer_init
  PROVE  Fifo!Reset
<1>1. Valid' = {}
  BY DEF Valid, asdf_buffer_init
<1> QED
  BY <1>1 DEF Fifo!Reset, asdf_buffer_init

\* A new ring is a new empty queue.
LEMMA NewSimulated ==
  ASSUME IInv, NEW size \in Sizes, asdf_buffer_new(size)
  PROVE  \E h \in Handles : Fifo!New(h, size)
<1>1. PICK new : new = next_handle
  OBVIOUS
<1>2. /\ new \in Handles /\ new \notin Valid
      /\ Valid' = Valid \union {new}
  BY <1>1, BufferAssumption
  DEF asdf_buffer_new, Valid, Handles, INVALID, IInv, TypeOK
<1>3. /\ buffers'[new].count = 0 /\ buffers'[new].size = size
      /\ \A g \in Valid : buffers'[g] = buffers[g]
  BY <1>1, <1>2, BufferAssumption
  DEF asdf_buffer_new, Valid, Handles, INVALID, IInv, TypeOK
<1>4. Contents(new)' = <<>>
  BY <1>3 DEF Contents
<1>5. \A g \in Valid : Contents(g)' = Contents(g)
  BY <1>3 DEF Contents, Slot, asdf_buffer_new
<1>6. Fifo!New(new, size)
  BY <1>2, <1>3, <1>4, <1>5 DEF Fifo!New, Fifo!Allocated, asdf_buffer_new
<1> QED
  BY <1>2, <1>6

\* A put in a ring with room appends to its queue.
LEMMA PutSimulated ==
  ASSUME IInv, NEW h \in Handles, NEW code \in Codes, asdf_buffer_put(h, code)
  PROVE  Fifo!Put(h, code)
<1>1. /\ h \in Valid /\ Valid' = Valid
      /\ Len(Contents(h)) < buffers[h].size
      /\ Contents(h)' = Append(Contents(h), code)
      /\ \A g \in Valid : g # h => Contents(g)' = Contents(g)
      /\ \A g \in Valid : buffers'[g].size = buffers[g].size
  BY PutContents
<1>2. Fifo!Enqueue(Contents(h), buffers[h].size, code) = Contents(h)'
  BY <1>1 DEF Fifo!Enqueue
<1>3. got' = got
  BY DEF asdf_buffer_put
<1> QED
  BY <1>1, <1>2, <1>3 DEF Fifo!Put, Fifo!Allocated

\* A get takes the oldest code of its queue.
LEMMA GetSimulated ==
  ASSUME IInv, NEW h \in Handles, asdf_buffer_get(h)
  PROVE  Fifo!Get(h)
<1>1. CASE h \in Valid /\ buffers[h].count # 0
  <2>1. /\ Valid' = Valid
        /\ Contents(h) # <<>>
        /\ got' = Head(Contents(h))
        /\ Contents(h)' = Tail(Contents(h))
        /\ \A g \in Valid : g # h => Contents(g)' = Contents(g)
        /\ \A g \in Valid : buffers'[g].size = buffers[g].size
    BY <1>1, GetContents
  <2>2. /\ Fifo!First(Contents(h)) = got'
        /\ Fifo!Dequeue(Contents(h)) = Contents(h)'
    BY <2>1 DEF Fifo!First, Fifo!Dequeue
  <2> QED
    BY <1>1, <2>1, <2>2 DEF Fifo!Get, Fifo!Allocated
<1>2. CASE h \in Valid /\ buffers[h].count = 0
  <2>1. /\ got' = InvalidCode
        /\ UNCHANGED <<buffers, buffer_pool, next_handle>>
    BY <1>2 DEF asdf_buffer_get
  <2>2. Contents(h) = <<>>
    BY <1>2 DEF Contents
  <2>3. Valid' = Valid /\ \A g : Contents(g)' = Contents(g)
    BY <2>1 DEF Valid, Contents, Slot
  <2>4. /\ Fifo!First(Contents(h)) = InvalidCode
        /\ Fifo!Dequeue(Contents(h)) = Contents(h)
    BY <2>2 DEF Fifo!First, Fifo!Dequeue
  <2> QED
    BY <1>2, <2>1, <2>3, <2>4 DEF Fifo!Get, Fifo!Allocated
<1>3. CASE h \notin Valid
  <2>1. /\ got' = InvalidCode
        /\ UNCHANGED <<buffers, buffer_pool, next_handle>>
    BY <1>3, BufferAssumption
    DEF asdf_buffer_get, buffer_handle_valid, Valid, Handles, INVALID,
        IInv, TypeOK
  <2>2. Valid' = Valid /\ \A g : Contents(g)' = Contents(g)
    BY <2>1 DEF Valid, Contents, Slot
  <2> QED
    BY <1>3, <2>1, <2>2 DEF Fifo!Get, Fifo!Allocated
<1> QED
  BY <1>1, <1>2, <1>3

\* The rings of asdf_buffer.c implement independent bounded queues: codes
\* come out of a handle in the order they were put, a put is dropped only
\* when its queue is full, and no operation disturbs another handle's codes.
THEOREM BufferImplementsFifos == Spec => ImplementsFifos
<1>1. ASSUME IInv, [Next]_bufferVars
      PROVE  [Fifo!Next]_(Fifo!fifoVars)
  <2>1. CASE asdf_buffer_init
    BY <2>1, ResetSimulated DEF Fifo!Next
  <2>2. CASE \E size \in Sizes : asdf_buffer_new(size)
    BY <1>1, <2>2, NewSimulated DEF Fifo!Next
  <2>3. CASE \E h \in Handles, code \in Codes : asdf_buffer_put(h, code)
    BY <1>1, <2>3, PutSimulated DEF Fifo!Next
  <2>4. CASE \E h \in Handles : asdf_buffer_get(h)
    BY <1>1, <2>4, GetSimulated DEF Fifo!Next
  <2>5. CASE UNCHANGED bufferVars
    BY <2>5 DEF bufferVars, Fifo!fifoVars, Valid, Contents, Slot
  <2> QED
    BY <1>1, <2>1, <2>2, <2>3, <2>4, <2>5 DEF Next
<1> QED
  BY <1>1, InitSimulated, BufferInvariant, PTL
  DEF Spec, ImplementsFifos, Fifo!Spec
=============================================================================
